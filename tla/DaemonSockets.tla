--------------------------- MODULE DaemonSockets ----------------------------
(***************************************************************************)
(* The daemon's command and monitor sockets, upil_command.c and            *)
(* upil_monitor.c.  The main loop's thread accepts one client at a time on *)
(* each, answers commands and notices that a client has gone; the state    *)
(* machine's thread sends the phone's states to s_fdMonitor, whatever that *)
(* number stands for at the moment.                                        *)
(*                                                                         *)
(* The sockets are streams: recv() takes all that is there.  connect()     *)
(* succeeds while the daemon serves another client, and what the new one   *)
(* sends waits with it.  The daemon does not ignore SIGPIPE, so sending to *)
(* a client that has gone ends it; so does a callback that returns -1,     *)
(* because eventLoop kills the process.                                    *)
(*                                                                         *)
(* The phone is the state machine of UpilSM with one state for every call; *)
(* the events that report no state (RING, CID) are sent alike and left out.*)
(***************************************************************************)
EXTENDS Integers, Sequences

CONSTANTS
  Clients,
  MaxEvents,   \* bound on what the line and the user do
  MaxFaults    \* bound on failures of accept() and of the message pool

ASSUME SocketsAssumption ==
  /\ MaxEvents \in Nat
  /\ MaxFaults \in Nat

VARIABLES
  alive,        \* the daemon has not been killed
  bound,        \* bound[s]: main has set socket s up
  listening,    \* listening[s]: s_listen_event of socket s is on the loop
  backlog,      \* backlog[s]: the clients that wait for accept()
  conn,         \* conn[s][c]: the daemon's side of the connection
  open,         \* open[s][c]: the client has not closed its side
  fd,           \* the daemon's descriptors: what each is open for
  s_fdMonitor,
  req,          \* req[c]: requests on their way to the daemon
  rep,          \* rep[c]: replies on their way to the client
  evts,         \* evts[c]: events on their way to the client
  phone,        \* the state of the state machine
  smq,          \* HANDFREE messages posted to it
  events, faults,
  did,          \* history: did[c]: the request c waits for has been executed
  were,         \* history: were[c]: the states of the phone since c asked for it
  since,        \* history: since[c]: the phone changed while c was the monitor
  misled        \* history: clients that got an event for a reply

links == <<bound, listening, backlog, conn, open, fd, s_fdMonitor>>
streams == <<req, rep, evts>>
machine == <<phone, smq, events>>
history == <<did, were, since, misled>>
daemon == <<alive, links, streams, machine, faults, history>>

Socks == {"cmd", "evt"}
Fds == {4, 5}           \* one for each socket
Nobody == "nobody"
ASSUME NobodyAssumption == Nobody \notin Clients

Unused == [s |-> "cmd", c |-> Nobody]
States == {"IDLE", "CALL"}
Ops == {"DIAL", "HANGUP", "GET_STATE", "GET_VER", "OTHER"}
Texts == States \cup {"", "version"}
Replies == [head : {"SUCCESS", "FAILURE", "none"}, text : Texts]

SocketsTypeOK ==
  /\ alive \in BOOLEAN
  /\ bound \in [Socks -> {"no", "yes", "failed"}]
  /\ listening \in [Socks -> BOOLEAN]
  /\ backlog \in [Socks -> Seq(Clients)]
  /\ conn \in [Socks -> [Clients -> {"none", "waiting", "accepted", "closed"}]]
  /\ open \in [Socks -> [Clients -> BOOLEAN]]
  /\ fd \in [Fds -> [s : Socks, c : Clients \cup {Nobody}]]
  /\ s_fdMonitor \in Fds \cup {0}
  /\ req \in [Clients -> Seq(Ops)]
  /\ rep \in [Clients -> Seq(Replies)]
  /\ evts \in [Clients -> Seq(States)]
  /\ phone \in States
  /\ smq \in Seq({"ON", "OFF"})
  /\ events \in 0..MaxEvents
  /\ faults \in 0..MaxFaults
  /\ did \in [Clients -> BOOLEAN]
  /\ were \in [Clients -> SUBSET States]
  /\ since \in [Clients -> BOOLEAN]
  /\ misled \subseteq Clients

\* main has started the state machine and the loop.
SocketsInit ==
  /\ alive = TRUE
  /\ bound = [s \in Socks |-> "no"]
  /\ listening = [s \in Socks |-> FALSE]
  /\ backlog = [s \in Socks |-> <<>>]
  /\ conn = [s \in Socks |-> [c \in Clients |-> "none"]]
  /\ open = [s \in Socks |-> [c \in Clients |-> FALSE]]
  /\ fd = [f \in Fds |-> Unused]
  /\ s_fdMonitor = 0
  /\ req = [c \in Clients |-> <<>>]
  /\ rep = [c \in Clients |-> <<>>]
  /\ evts = [c \in Clients |-> <<>>]
  /\ phone = "IDLE"
  /\ smq = <<>>
  /\ events = 0
  /\ faults = 0
  /\ did = [c \in Clients |-> FALSE]
  /\ were = [c \in Clients |-> {}]
  /\ since = [c \in Clients |-> FALSE]
  /\ misled = {}

Fault ==
  /\ faults < MaxFaults
  /\ faults' = faults + 1

\* The process is killed: the kernel closes its descriptors, and what it has not
\* read is lost; what it has sent can still be received.
Die ==
  /\ alive' = FALSE
  /\ listening' = [s \in Socks |-> FALSE]
  /\ backlog' = [s \in Socks |-> <<>>]
  /\ conn' = [s \in Socks |-> [c \in Clients |-> "closed"]]
  /\ fd' = [f \in Fds |-> Unused]
  /\ s_fdMonitor' = 0
  /\ req' = [c \in Clients |-> <<>>]
  /\ phone' = "IDLE"
  /\ smq' = <<>>
  /\ since' = [c \in Clients |-> FALSE]
  /\ UNCHANGED <<bound, open, rep, evts, did, were, misled>>

-----------------------------------------------------------------------------
(* main sets up the command socket, then the monitor socket.  It does not look *)
(* at the results, so the daemon may run without one.                      *)

\* Whether it is the turn of socket s in main.
Turn(s) == bound[s] = "no" /\ (s = "evt" => bound["cmd"] # "no")

SetupSocket(s) ==
  /\ alive
  /\ Turn(s)
  /\ bound' = [bound EXCEPT ![s] = "yes"]
  /\ listening' = [listening EXCEPT ![s] = TRUE]
  /\ UNCHANGED <<alive, backlog, conn, open, fd, s_fdMonitor, streams, machine, faults, history>>

SetupFails(s) ==
  /\ alive
  /\ Turn(s)
  /\ Fault
  /\ bound' = [bound EXCEPT ![s] = "failed"]
  /\ UNCHANGED <<alive, listening, backlog, conn, open, fd, s_fdMonitor, streams, machine, history>>

Reachable(s) == alive /\ bound[s] = "yes"

-----------------------------------------------------------------------------
(* The main loop's thread.                                                 *)

FreeFds == {f \in Fds : fd[f] = Unused}
LowestFree == CHOOSE f \in FreeFds : \A g \in FreeFds : f <= g

\* Variants: what fcntl() returned is stored; the new descriptor is not stored.
StoreFdFlags(s, f) == s_fdMonitor' = IF s = "evt" THEN -1 ELSE s_fdMonitor
StoreFdNot(s, f) == UNCHANGED s_fdMonitor
StoreFd(s, f) == s_fdMonitor' = IF s = "evt" THEN f ELSE s_fdMonitor

\* listenCallback of either socket; s_listen_event has left the loop by firing.
Accept(s) ==
  /\ alive
  /\ listening[s]
  /\ backlog[s] # <<>>
  /\ LET c == Head(backlog[s])
     IN  /\ conn' = [conn EXCEPT ![s][c] = "accepted"]
         /\ fd' = [fd EXCEPT ![LowestFree] = [s |-> s, c |-> c]]
  /\ StoreFd(s, LowestFree)
  /\ listening' = [listening EXCEPT ![s] = FALSE]
  /\ backlog' = [backlog EXCEPT ![s] = Tail(@)]
  /\ UNCHANGED <<alive, bound, open, streams, machine, faults, history>>

\* accept() fails and the callback returns -1.
AcceptFails(s) ==
  /\ alive
  /\ listening[s]
  /\ backlog[s] # <<>>
  /\ Fault
  /\ Die
  /\ UNCHANGED events

\* Variant: the result of the call is not looked at.
HeadForAny(result) == "SUCCESS"
HeadFor(result) == IF result # 0 THEN "FAILURE" ELSE "SUCCESS"

upil_sm_get_current_state == phone
upil_sm_get_version == "version"

\* processCommandBuffer on all that recv() returned: its beginning decides, and
\* nothing behind it is looked at.
Replied(op, result) ==
  [head |-> HeadFor(result),
   text |-> CASE op = "GET_STATE" -> upil_sm_get_current_state
              [] op = "GET_VER" -> upil_sm_get_version
              [] OTHER -> ""]

Posted(op) ==
  smq' = CASE op = "DIAL" -> Append(smq, "ON")
           [] op = "HANGUP" -> Append(smq, "OFF")
           [] OTHER -> smq

\* processCommandsCallback with data.
ProcessCommand(c) ==
  /\ alive
  /\ conn["cmd"][c] = "accepted"
  /\ req[c] # <<>>
  /\ LET op == Head(req[c])
     IN  IF op # "OTHER" /\ ~open["cmd"][c]
         THEN Die /\ UNCHANGED <<events, faults>>
         ELSE /\ \/ /\ Posted(op)
                    /\ rep' = IF op = "OTHER" THEN rep
                              ELSE [rep EXCEPT ![c] = Append(@, Replied(op, 0))]
                    /\ did' = [did EXCEPT ![c] = TRUE]
                    /\ UNCHANGED faults
                 \/ /\ op \in {"DIAL", "HANGUP"}
                    /\ Fault
                    /\ rep' = [rep EXCEPT ![c] = Append(@, Replied(op, -1))]
                    /\ UNCHANGED <<smq, did>>
              /\ req' = [req EXCEPT ![c] = <<>>]
              /\ UNCHANGED <<alive, links, evts, phone, events, were, since, misled>>

\* Variants: the socket is not listened on again; both are.
ListenAgainNot(s) == UNCHANGED listening
ListenAgainBoth(s) == listening' = [t \in Socks |-> TRUE]
ListenAgain(s) == listening' = [listening EXCEPT ![s] = TRUE]

\* recv() finds the end of the stream: processCommandsCallback and
\* event_monitor_cb.  s_fdMonitor keeps its value.
Disconnected(s, c) ==
  /\ alive
  /\ conn[s][c] = "accepted"
  /\ ~open[s][c]
  /\ s = "cmd" => req[c] = <<>>
  /\ conn' = [conn EXCEPT ![s][c] = "closed"]
  /\ fd' = [f \in Fds |-> IF fd[f] = [s |-> s, c |-> c] THEN Unused ELSE fd[f]]
  /\ ListenAgain(s)
  /\ UNCHANGED <<alive, bound, backlog, open, s_fdMonitor, streams, machine, faults, history>>

MainLoop ==
  \/ \E s \in Socks : SetupSocket(s) \/ Accept(s) \/ \E c \in Clients : Disconnected(s, c)
  \/ \E c \in Clients : ProcessCommand(c)

-----------------------------------------------------------------------------
(* The state machine's thread.                                             *)

Target == IF s_fdMonitor = 0 THEN Unused ELSE fd[s_fdMonitor]

\* sendto_monitor from an enter or process function, with the change it reports.
Sends(e, rest) ==
  IF Target.c # Nobody /\ ~open[Target.s][Target.c]
  THEN Die
  ELSE /\ phone' = e
       /\ were' = [c \in Clients |-> IF were[c] = {} THEN {} ELSE were[c] \cup {e}]
       /\ since' = [c \in Clients |-> since[c] \/ (conn["evt"][c] = "accepted" /\ open["evt"][c])]
       /\ evts' = [c \in Clients |-> IF Target = [s |-> "evt", c |-> c]
                                     THEN Append(evts[c], e) ELSE evts[c]]
       /\ rep' = [c \in Clients |-> IF Target = [s |-> "cmd", c |-> c]
                                    THEN Append(rep[c], [head |-> "none", text |-> e])
                                    ELSE rep[c]]
       /\ misled' = misled \cup {c \in Clients : Target = [s |-> "cmd", c |-> c]}
       /\ smq' = rest
       /\ UNCHANGED <<alive, links, req, did>>

\* The HANDFREE messages, with the device's answer.
TakeMessage ==
  /\ alive
  /\ smq # <<>>
  /\ LET e == IF Head(smq) = "ON" THEN "CALL" ELSE "IDLE"
     IN  IF e = phone
         THEN smq' = Tail(smq) /\ UNCHANGED <<alive, links, streams, phone, events, history>>
         ELSE Sends(e, Tail(smq)) /\ UNCHANGED events
  /\ UNCHANGED faults

\* The line and the user: a call begins or ends.
PhoneEvent ==
  /\ alive
  /\ events < MaxEvents
  /\ events' = events + 1
  /\ \E e \in States \ {phone} : Sends(e, smq)
  /\ UNCHANGED faults
=============================================================================
