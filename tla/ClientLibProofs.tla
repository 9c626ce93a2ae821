--------------------------- MODULE ClientLibProofs --------------------------
(***************************************************************************)
(* Proofs about ClientLib with DaemonSockets, for every set of clients and *)
(* every bound.                                                            *)
(***************************************************************************)
EXTENDS ClientLib, TLAPS

USE SocketsAssumption, NobodyAssumption, ClientAssumption

-----------------------------------------------------------------------------
(* Which descriptor stands for whom.                                       *)

Link(s, c) == [s |-> s, c |-> c]

\* A descriptor is in use for a connection that was accepted, while its socket is
\* not listened on, and no socket has two; an accepted connection has one.
Descriptors ==
  /\ \A f \in Fds : fd[f] # Unused =>
       \E s \in Socks, c \in Clients :
         fd[f] = Link(s, c) /\ conn[s][c] = "accepted" /\ ~listening[s]
  /\ \A f, g \in Fds : fd[f] # Unused /\ fd[f].s = fd[g].s /\ fd[g] # Unused => f = g
  /\ \A s \in Socks, c \in Clients :
       conn[s][c] = "accepted" => \E f \in Fds : fd[f] = Link(s, c)

\* s_fdMonitor is the descriptor of the monitor, when there is one.
MonitorNamed ==
  \A c \in Clients :
    conn["evt"][c] = "accepted" => s_fdMonitor \in Fds /\ fd[s_fdMonitor] = Link("evt", c)

\* A socket that is not set up yet has nobody.
NotYet ==
  \A s \in Socks : bound[s] = "no" =>
    /\ ~listening[s]
    /\ backlog[s] = <<>>
    /\ \A c \in Clients : conn[s][c] # "accepted"

Table == Descriptors /\ MonitorNamed /\ NotYet

(* A socket that is listened on leaves a descriptor free, and accept()      *)
(* returns it.                                                             *)
LEMMA OneIsFree ==
  ASSUME TypeOK, Table, NEW s \in Socks, listening[s]
  PROVE  LowestFree \in Fds /\ fd[LowestFree] = Unused
<1>1. \E f \in Fds : fd[f] = Unused
  <2> SUFFICES ASSUME \A f \in Fds : fd[f] # Unused
               PROVE  FALSE
    OBVIOUS
  <2>1. \A f \in Fds : fd[f].s \in Socks /\ fd[f].s # s
    <3> TAKE f \in Fds
    <3> PICK r \in Socks, c \in Clients : fd[f] = Link(r, c) /\ ~listening[r]
      BY DEF Table, Descriptors
    <3> QED
      BY DEF Link
  <2>2. fd[4].s = fd[5].s
    BY <2>1 DEF Fds, Socks
  <2> QED
    BY <2>2 DEF Table, Descriptors, Fds
<1>2. \E f \in FreeFds : \A g \in FreeFds : f <= g
  BY <1>1 DEF FreeFds, Fds
<1>3. LowestFree \in FreeFds
  BY <1>2 DEF LowestFree
<1> QED
  BY <1>3 DEF FreeFds
-----------------------------------------------------------------------------
(* The types.                                                              *)

(* The first reply of processCommandBuffer is a reply.                      *)
LEMMA RepliedType ==
  ASSUME TypeOK, NEW op \in Ops, NEW result \in Int
  PROVE  Replied(op, result) \in Replies
BY DEF TypeOK, SocketsTypeOK, Replied, Replies, HeadFor, Texts, States,
       upil_sm_get_current_state, upil_sm_get_version

(* What it says of the state of the phone, and of a failure.                *)
LEMMA RepliedState ==
  /\ \A result : Replied("GET_STATE", result).text = phone
  /\ \A op : Replied(op, -1).head # "SUCCESS"
<1>1. \A result : Replied("GET_STATE", result).text = phone
  BY DEF Replied, upil_sm_get_current_state
<1>2. \A op : Replied(op, -1).head # "SUCCESS"
  BY DEF Replied, HeadFor
<1> QED
  BY <1>1, <1>2

(* The daemon's variables after its end.                                    *)
LEMMA DieType ==
  ASSUME TypeOK, Die, events' \in 0..MaxEvents, faults' \in 0..MaxFaults
  PROVE  SocketsTypeOK'
<1> USE DEF TypeOK, SocketsTypeOK, Die
<1>1. /\ alive' \in BOOLEAN /\ bound' \in [Socks -> {"no", "yes", "failed"}]
      /\ listening' \in [Socks -> BOOLEAN]
      /\ s_fdMonitor' \in Fds \cup {0}
      /\ open' \in [Socks -> [Clients -> BOOLEAN]]
  OBVIOUS
<1>2. backlog' \in [Socks -> Seq(Clients)]
  OBVIOUS
<1>3. conn' \in [Socks -> [Clients -> {"none", "waiting", "accepted", "closed"}]]
  OBVIOUS
<1>4. fd' \in [Fds -> [s : Socks, c : Clients \cup {Nobody}]]
  BY DEF Unused, Socks
<1>5. /\ req' \in [Clients -> Seq(Ops)] /\ rep' \in [Clients -> Seq(Replies)]
      /\ evts' \in [Clients -> Seq(States)]
  OBVIOUS
<1>6. phone' \in States /\ smq' \in Seq({"ON", "OFF"})
  BY DEF States
<1>7. /\ did' \in [Clients -> BOOLEAN] /\ were' \in [Clients -> SUBSET States]
      /\ since' \in [Clients -> BOOLEAN] /\ misled' \subseteq Clients
  OBVIOUS
<1> QED
  BY <1>1, <1>2, <1>3, <1>4, <1>5, <1>6, <1>7

(* The descriptor the state machine sends to.                               *)
LEMMA TargetType ==
  ASSUME TypeOK
  PROVE  Target.s \in Socks /\ Target.c \in Clients \cup {Nobody}
BY DEF TypeOK, SocketsTypeOK, Target, Unused, Socks, Fds

(* sendto_monitor.                                                          *)
LEMMA SendsType ==
  ASSUME TypeOK, NEW e \in States, NEW rest \in Seq({"ON", "OFF"}), Sends(e, rest),
         events' \in 0..MaxEvents, UNCHANGED faults
  PROVE  SocketsTypeOK'
<1>1. CASE Die
  BY <1>1, DieType DEF TypeOK, SocketsTypeOK
<1>2. CASE ~Die
  <2> USE DEF TypeOK, SocketsTypeOK
  <2>1. ~(Target.c # Nobody /\ ~open[Target.s][Target.c])
    BY <1>2 DEF Sends
  <2> HIDE DEF Target
  <2>2. /\ phone' = e
        /\ were' = [c \in Clients |-> IF were[c] = {} THEN {} ELSE were[c] \cup {e}]
        /\ since' = [c \in Clients |-> since[c] \/ (conn["evt"][c] = "accepted" /\ open["evt"][c])]
        /\ evts' = [c \in Clients |-> IF Target = [s |-> "evt", c |-> c]
                                      THEN Append(evts[c], e) ELSE evts[c]]
        /\ rep' = [c \in Clients |-> IF Target = [s |-> "cmd", c |-> c]
                                     THEN Append(rep[c], [head |-> "none", text |-> e])
                                     ELSE rep[c]]
        /\ misled' = misled \cup {c \in Clients : Target = [s |-> "cmd", c |-> c]}
        /\ smq' = rest
        /\ UNCHANGED <<alive, links, req, did>>
    BY <2>1 DEF Sends
  <2>3. evts' \in [Clients -> Seq(States)]
    BY <2>2
  <2>4. rep' \in [Clients -> Seq(Replies)]
    <3>1. [head |-> "none", text |-> e] \in Replies
      BY DEF Replies, Texts
    <3> QED
      BY <2>2, <3>1
  <2>5. were' \in [Clients -> SUBSET States]
    BY <2>2
  <2>6. since' \in [Clients -> BOOLEAN]
    BY <2>2
  <2> QED
    BY <2>2, <2>3, <2>4, <2>5, <2>6 DEF links
<1> QED
  BY <1>1, <1>2
(* The steps of the main loop's thread and its faults.                      *)
LEMMA LoopType ==
  ASSUME TypeOK, Table, UNCHANGED program,
         MainLoop \/ \E s \in Socks : SetupFails(s) \/ AcceptFails(s)
  PROVE  TypeOK'
<1> SUFFICES SocketsTypeOK'
  BY DEF TypeOK, program
<1>1. ASSUME NEW s \in Socks, SetupSocket(s) PROVE SocketsTypeOK'
  BY <1>1 DEF TypeOK, SocketsTypeOK, SetupSocket, streams, machine, history
<1>2. ASSUME NEW s \in Socks, SetupFails(s) PROVE SocketsTypeOK'
  BY <1>2 DEF TypeOK, SocketsTypeOK, SetupFails, Fault, streams, machine, history
<1>3. ASSUME NEW s \in Socks, Accept(s) PROVE SocketsTypeOK'
  <2> DEFINE c == Head(backlog[s])
  <2>1. c \in Clients /\ Tail(backlog[s]) \in Seq(Clients)
    BY <1>3 DEF Accept, TypeOK, SocketsTypeOK
  <2>2. LowestFree \in Fds
    BY <1>3, OneIsFree DEF Accept
  <2> HIDE DEF c
  <2>3. /\ conn' = [conn EXCEPT ![s][c] = "accepted"]
        /\ fd' = [fd EXCEPT ![LowestFree] = [s |-> s, c |-> c]]
        /\ s_fdMonitor' = IF s = "evt" THEN LowestFree ELSE s_fdMonitor
        /\ listening' = [listening EXCEPT ![s] = FALSE]
        /\ backlog' = [backlog EXCEPT ![s] = Tail(@)]
        /\ UNCHANGED <<alive, bound, open, streams, machine, faults, history>>
    BY <1>3 DEF Accept, StoreFd, c
  <2>4. conn' \in [Socks -> [Clients -> {"none", "waiting", "accepted", "closed"}]]
    BY <2>1, <2>3 DEF TypeOK, SocketsTypeOK
  <2>5. fd' \in [Fds -> [s : Socks, c : Clients \cup {Nobody}]]
    BY <2>1, <2>2, <2>3 DEF TypeOK, SocketsTypeOK
  <2>6. s_fdMonitor' \in Fds \cup {0}
    BY <2>2, <2>3 DEF TypeOK, SocketsTypeOK
  <2>7. backlog' \in [Socks -> Seq(Clients)]
    BY <2>1, <2>3 DEF TypeOK, SocketsTypeOK
  <2>8. listening' \in [Socks -> BOOLEAN]
    BY <2>3 DEF TypeOK, SocketsTypeOK
  <2> QED
    BY <2>3, <2>4, <2>5, <2>6, <2>7, <2>8
       DEF TypeOK, SocketsTypeOK, streams, machine, history
<1>4. ASSUME NEW s \in Socks, AcceptFails(s) PROVE SocketsTypeOK'
  <2>1. faults' \in 0..MaxFaults /\ events' \in 0..MaxEvents
    BY <1>4 DEF AcceptFails, Fault, TypeOK, SocketsTypeOK
  <2> QED
    BY <1>4, <2>1, DieType DEF AcceptFails
<1>5. ASSUME NEW s \in Socks, NEW c \in Clients, Disconnected(s, c) PROVE SocketsTypeOK'
  <2>1. conn' \in [Socks -> [Clients -> {"none", "waiting", "accepted", "closed"}]]
    BY <1>5 DEF TypeOK, SocketsTypeOK, Disconnected
  <2>2. fd' \in [Fds -> [s : Socks, c : Clients \cup {Nobody}]]
    BY <1>5 DEF TypeOK, SocketsTypeOK, Disconnected, Unused, Socks
  <2> QED
    BY <1>5, <2>1, <2>2 DEF TypeOK, SocketsTypeOK, Disconnected, ListenAgain, streams,
       machine, history
<1>6. ASSUME NEW c \in Clients, ProcessCommand(c) PROVE SocketsTypeOK'
  <2> DEFINE op == Head(req[c])
  <2>1. op \in Ops
    BY <1>6 DEF ProcessCommand, TypeOK, SocketsTypeOK
  <2>2. CASE Die /\ UNCHANGED <<events, faults>>
    BY <2>2, DieType DEF TypeOK, SocketsTypeOK
  <2>3. CASE ~(Die /\ UNCHANGED <<events, faults>>)
    <3> DEFINE Done == /\ Posted(op)
                       /\ rep' = IF op = "OTHER" THEN rep
                                 ELSE [rep EXCEPT ![c] = Append(@, Replied(op, 0))]
                       /\ did' = [did EXCEPT ![c] = TRUE]
                       /\ UNCHANGED faults
               Failed == /\ Fault
                         /\ rep' = [rep EXCEPT ![c] = Append(@, Replied(op, -1))]
                         /\ UNCHANGED <<smq, did>>
    <3>1. /\ Done \/ Failed
          /\ req' = [req EXCEPT ![c] = <<>>]
          /\ UNCHANGED <<alive, links, evts, phone, events, were, since, misled>>
      BY <1>6, <2>3 DEF ProcessCommand
    <3>2. Replied(op, 0) \in Replies /\ Replied(op, -1) \in Replies
      BY <2>1, RepliedType
    <3> HIDE DEF op, Done, Failed
    <3>3. /\ rep' \in [Clients -> Seq(Replies)] /\ smq' \in Seq({"ON", "OFF"})
          /\ did' \in [Clients -> BOOLEAN] /\ faults' \in 0..MaxFaults
      <4>1. CASE Done
        <5>1. rep' \in [Clients -> Seq(Replies)]
          BY <3>2, <4>1 DEF TypeOK, SocketsTypeOK, Done
        <5>2. smq' \in Seq({"ON", "OFF"})
          BY <4>1 DEF TypeOK, SocketsTypeOK, Done, Posted
        <5> QED
          BY <4>1, <5>1, <5>2 DEF TypeOK, SocketsTypeOK, Done
      <4>2. CASE Failed
        <5>1. rep' \in [Clients -> Seq(Replies)]
          BY <3>2, <4>2 DEF TypeOK, SocketsTypeOK, Failed
        <5> QED
          BY <4>2, <5>1 DEF TypeOK, SocketsTypeOK, Failed, Fault
      <4> QED
        BY <3>1, <4>1, <4>2
    <3>6. req' \in [Clients -> Seq(Ops)]
      BY <3>1 DEF TypeOK, SocketsTypeOK
    <3> QED
      BY <3>1, <3>3, <3>6 DEF TypeOK, SocketsTypeOK, links
  <2> QED
    BY <2>2, <2>3
<1> QED
  BY <1>1, <1>2, <1>3, <1>4, <1>5, <1>6 DEF MainLoop

(* The steps of the state machine's thread.                                 *)
LEMMA MachineType ==
  ASSUME TypeOK, UNCHANGED program, TakeMessage \/ PhoneEvent
  PROVE  TypeOK'
<1> SUFFICES SocketsTypeOK'
  BY DEF TypeOK, program
<1>1. CASE TakeMessage
  <2> DEFINE e == IF Head(smq) = "ON" THEN "CALL" ELSE "IDLE"
  <2>1. e \in States /\ Tail(smq) \in Seq({"ON", "OFF"})
    BY <1>1 DEF TakeMessage, States, TypeOK, SocketsTypeOK
  <2>2. \/ /\ smq' = Tail(smq)
           /\ UNCHANGED <<alive, links, streams, phone, events, history, faults>>
        \/ Sends(e, Tail(smq)) /\ UNCHANGED <<events, faults>>
    BY <1>1 DEF TakeMessage
  <2> HIDE DEF e
  <2> QED
    BY <2>1, <2>2, SendsType DEF TypeOK, SocketsTypeOK, links, streams, history
<1>2. CASE PhoneEvent
  <2>1. PICK e \in States : Sends(e, smq)
    BY <1>2 DEF PhoneEvent
  <2>2. events' \in 0..MaxEvents /\ smq \in Seq({"ON", "OFF"}) /\ UNCHANGED faults
    BY <1>2 DEF PhoneEvent, TypeOK, SocketsTypeOK
  <2> QED
    BY <2>1, <2>2, SendsType
<1> QED
  BY <1>1, <1>2
(* The end of a client.                                                     *)
LEMMA ExitType ==
  ASSUME TypeOK, NEW c \in Clients, Exit(c)
  PROVE  TypeOK'
<1> USE DEF TypeOK, SocketsTypeOK
<1>1. open' \in [Socks -> [Clients -> BOOLEAN]]
  BY DEF Exit
<1>2. rep' \in [Clients -> Seq(Replies)] /\ evts' \in [Clients -> Seq(States)]
  BY DEF Exit
<1>3. /\ asked' \in [Clients -> Ops] /\ view' \in [Clients -> States \cup {"unknown"}]
      /\ were' \in [Clients -> SUBSET States]
  BY DEF Exit, Ops
<1>4. /\ main' \in [Clients -> {"start", "half", "ready", "waiting", "closing", "gone"}]
      /\ reads' \in [Clients -> BOOLEAN]
      /\ did' \in [Clients -> BOOLEAN] /\ since' \in [Clients -> BOOLEAN]
      /\ misled' \subseteq Clients /\ gaveUp' \subseteq Clients
  BY DEF Exit
<1> QED
  BY <1>1, <1>2, <1>3, <1>4 DEF Exit, machinery, machine

(* A connection that joins a backlog.                                       *)
LEMMA ConnectsType ==
  ASSUME TypeOK, NEW s \in Socks, NEW c \in Clients, Connects(s, c)
  PROVE  SocketsTypeOK'
<1> USE DEF TypeOK, SocketsTypeOK
<1>1. conn' \in [Socks -> [Clients -> {"none", "waiting", "accepted", "closed"}]]
  BY DEF Connects
<1>2. open' \in [Socks -> [Clients -> BOOLEAN]]
  BY DEF Connects
<1>3. backlog' \in [Socks -> Seq(Clients)]
  BY DEF Connects
<1> QED
  BY <1>1, <1>2, <1>3 DEF Connects, machinery, machine, streams, history

(* upil_ctrl_request returns.                                               *)
LEMMA ReturnsType ==
  ASSUME TypeOK, NEW c \in Clients, Returns(c),
         rep' \in [Clients -> Seq(Replies)], gaveUp' \subseteq Clients
  PROVE  TypeOK'
BY DEF TypeOK, SocketsTypeOK, Returns, Ops, machinery, machine, reading

(* The steps of a client.                                                   *)
LEMMA ClientType ==
  ASSUME TypeOK, NEW c \in Clients, MainThread(c) \/ Reader(c) \/ User(c)
  PROVE  TypeOK'
<1>1. CASE ConnectCtrl(c)
  <2>1. SocketsTypeOK'
    BY <1>1, ConnectsType DEF ConnectCtrl, Socks
  <2> QED
    BY <1>1, <2>1 DEF ConnectCtrl, TypeOK, reading
<1>2. CASE ConnectMonitor(c)
  <2>1. SocketsTypeOK'
    BY <1>2, ConnectsType DEF ConnectMonitor, Socks
  <2> QED
    BY <1>2, <2>1 DEF ConnectMonitor, TypeOK
<1>3. CASE Exit(c)
  BY <1>3, ExitType
<1>4. CASE SendRequest(c)
  <2>1. PICK op \in Requests :
          IF ~alive THEN Exit(c)
          ELSE /\ req' = [req EXCEPT ![c] = Append(@, op)]
               /\ main' = [main EXCEPT ![c] = "waiting"]
               /\ asked' = [asked EXCEPT ![c] = op]
               /\ sent' = sent + 1
               /\ did' = [did EXCEPT ![c] = FALSE]
               /\ were' = [were EXCEPT ![c] = IF op = "GET_STATE" THEN {phone} ELSE {}]
               /\ UNCHANGED <<machinery, backlog, conn, open, rep, evts, since, misled,
                              reading, gaveUp>>
    BY <1>4 DEF SendRequest
  <2>2. op \in Ops /\ sent < MaxRequests
    BY <1>4 DEF SendRequest
  <2>3. CASE ~alive
    BY <2>1, <2>3, ExitType
  <2>4. CASE alive
    <3> USE DEF TypeOK, SocketsTypeOK
    <3>1. /\ req' = [req EXCEPT ![c] = Append(@, op)]
          /\ main' = [main EXCEPT ![c] = "waiting"]
          /\ asked' = [asked EXCEPT ![c] = op]
          /\ sent' = sent + 1
          /\ did' = [did EXCEPT ![c] = FALSE]
          /\ were' = [were EXCEPT ![c] = IF op = "GET_STATE" THEN {phone} ELSE {}]
          /\ UNCHANGED <<machinery, backlog, conn, open, rep, evts, since, misled,
                         reading, gaveUp>>
      BY <2>1, <2>4
    <3>2. req' \in [Clients -> Seq(Ops)]
      BY <2>2, <3>1
    <3>3. were' \in [Clients -> SUBSET States]
      BY <3>1
    <3> QED
      BY <2>2, <3>1, <3>2, <3>3 DEF machinery, machine, reading
  <2> QED
    BY <2>3, <2>4
<1>5. CASE ReceiveReply(c)
  <2>1. rep' \in [Clients -> Seq(Replies)] /\ gaveUp' \subseteq Clients
    BY <1>5 DEF ReceiveReply, TypeOK, SocketsTypeOK
  <2> QED
    BY <1>5, <2>1, ReturnsType DEF ReceiveReply
<1>6. CASE ReceiveEnd(c)
  BY <1>6, ReturnsType DEF ReceiveEnd, TypeOK, SocketsTypeOK
<1>7. CASE RequestTimesOut(c)
  BY <1>7, ReturnsType DEF RequestTimesOut, TypeOK, SocketsTypeOK
<1>8. CASE Disconnect(c)
  <2>1. open' \in [Socks -> [Clients -> BOOLEAN]]
    <3> DEFINE half == [open EXCEPT !["cmd"][c] = FALSE]
    <3>1. open["evt"][c] \in BOOLEAN /\ half \in [Socks -> [Clients -> BOOLEAN]]
      BY DEF TypeOK, SocketsTypeOK, Socks
    <3>2. open' = [half EXCEPT !["evt"][c] = open["evt"][c]]
      BY <1>8 DEF Disconnect, AfterMonitorDisconnect
    <3> QED
      BY <3>1, <3>2
  <2> QED
    BY <1>8, <2>1 DEF Disconnect, TypeOK, SocketsTypeOK, machinery, machine, streams,
       history, reading
<1>9. CASE ReceiveEvents(c)
  <2>1. LastState(view[c], evts[c]) \in States
    BY <1>9 DEF ReceiveEvents, LastState, TypeOK, SocketsTypeOK
  <2>2. /\ view' \in [Clients -> States \cup {"unknown"}]
        /\ evts' \in [Clients -> Seq(States)]
    BY <1>9, <2>1 DEF ReceiveEvents, TypeOK, SocketsTypeOK
  <2> QED
    BY <1>9, <2>2 DEF ReceiveEvents, TypeOK, SocketsTypeOK, machinery, machine, history
<1> QED
  BY <1>1, <1>2, <1>3, <1>4, <1>5, <1>6, <1>7, <1>8, <1>9
     DEF MainThread, Reader, User, ConnectFails, ReturnFromMain, KillSelf

(* Every step keeps the types; an accepted descriptor is one because the table has
   room. *)
LEMMA NextType ==
  ASSUME TypeOK, Table, [Next]_vars
  PROVE  TypeOK'
<1>1. CASE UNCHANGED vars
  BY <1>1 DEF vars, daemon, program, links, streams, machine, history, TypeOK, SocketsTypeOK
<1> QED
  BY <1>1, LoopType, MachineType, ClientType DEF Next, Loop, Machine, Breaks
-----------------------------------------------------------------------------
(* The descriptors stay what they are.                                     *)

(* A killed daemon has no descriptors.                                      *)
LEMMA DieTable ==
  ASSUME TypeOK, Die
  PROVE  Table'
<1>1. Descriptors'
  BY DEF Die, Descriptors
<1>2. MonitorNamed'
  BY DEF Die, MonitorNamed, Socks
<1>3. NotYet'
  BY DEF Die, NotYet
<1> QED
  BY <1>1, <1>2, <1>3 DEF Table

(* A connection that is neither made nor given up by the daemon.            *)
LEMMA SameTable ==
  ASSUME TypeOK, Table, UNCHANGED <<bound, listening, fd, s_fdMonitor, backlog, conn>>
  PROVE  Table'
BY SMTT(30) DEF Table, Descriptors, MonitorNamed, NotYet, Link

(* A client that connects is not in the table yet. *)
LEMMA ConnectsTable ==
  ASSUME TypeOK, Table, NEW s \in Socks, NEW c \in Clients, Connects(s, c),
         conn[s][c] # "accepted"
  PROVE  Table'
<1>1. /\ \A r \in Socks, d \in Clients :
           (conn'[r][d] = "accepted") <=> (conn[r][d] = "accepted")
      /\ UNCHANGED <<bound, listening, fd, s_fdMonitor>>
  BY DEF Connects, machinery, TypeOK, SocketsTypeOK
<1>2. bound[s] # "no" /\ \A r \in Socks \ {s} : backlog'[r] = backlog[r]
  BY DEF Connects, Reachable, TypeOK, SocketsTypeOK
<1>3. Descriptors'
  BY <1>1 DEF Table, Descriptors
<1>4. MonitorNamed'
  BY <1>1 DEF Table, MonitorNamed, Link, Socks
<1>5. NotYet'
  BY <1>1, <1>2 DEF Table, NotYet
<1> QED
  BY <1>3, <1>4, <1>5 DEF Table

(* accept() gives the lowest free number, so no number stands for two connections. *)
LEMMA AcceptTable ==
  ASSUME TypeOK, Table, NEW s \in Socks, Accept(s)
  PROVE  Table'
<1> DEFINE c == Head(backlog[s])
           n == LowestFree
<1>1. c \in Clients
  BY DEF Accept, TypeOK, SocketsTypeOK
<1>2. n \in Fds /\ fd[n] = Unused
  BY OneIsFree DEF Accept
<1>3. /\ listening[s] /\ backlog[s] # <<>>
      /\ conn' = [conn EXCEPT ![s][c] = "accepted"]
      /\ fd' = [fd EXCEPT ![n] = [s |-> s, c |-> c]]
      /\ s_fdMonitor' = IF s = "evt" THEN n ELSE s_fdMonitor
      /\ listening' = [listening EXCEPT ![s] = FALSE]
      /\ backlog' = [backlog EXCEPT ![s] = Tail(@)]
      /\ UNCHANGED bound
  BY DEF Accept, StoreFd
<1> HIDE DEF c, n
<1>4. /\ fd'[n] = Link(s, c) /\ \A f \in Fds \ {n} : fd'[f] = fd[f]
      /\ conn'[s][c] = "accepted"
      /\ \A r \in Socks, d \in Clients : r # s \/ d # c => conn'[r][d] = conn[r][d]
      /\ ~listening'[s] /\ \A r \in Socks \ {s} : listening'[r] = listening[r]
  BY <1>1, <1>2, <1>3 DEF Link, TypeOK, SocketsTypeOK
<1>5. \A f \in Fds : fd[f] # Unused => fd[f].s # s
  <2> TAKE f \in Fds
  <2> HAVE fd[f] # Unused
  <2> PICK r \in Socks, d \in Clients : fd[f] = Link(r, d) /\ ~listening[r]
    BY DEF Table, Descriptors
  <2> QED
    BY <1>3 DEF Link
<1>6. \A d \in Clients : conn[s][d] # "accepted"
  <2> SUFFICES ASSUME NEW d \in Clients, conn[s][d] = "accepted"
               PROVE  FALSE
    OBVIOUS
  <2> PICK f \in Fds : fd[f] = Link(s, d)
    BY DEF Table, Descriptors
  <2> QED
    BY <1>5 DEF Link, Unused
<1>7. Descriptors'
  <2>1. ASSUME NEW f \in Fds, fd'[f] # Unused
        PROVE  \E r \in Socks, d \in Clients :
                 fd'[f] = Link(r, d) /\ conn'[r][d] = "accepted" /\ ~listening'[r]
    <3>1. CASE f = n
      BY <1>1, <1>4, <3>1
    <3>2. CASE f # n
      <4>1. fd'[f] = fd[f]
        BY <1>4, <3>2
      <4>2. PICK r \in Socks, d \in Clients :
              fd[f] = Link(r, d) /\ conn[r][d] = "accepted" /\ ~listening[r]
        BY <2>1, <4>1 DEF Table, Descriptors
      <4>3. r # s
        BY <1>3, <4>2
      <4> QED
        BY <1>4, <4>1, <4>2, <4>3
    <3> QED
      BY <3>1, <3>2
  <2>2. \A f, g \in Fds : fd'[f] # Unused /\ fd'[f].s = fd'[g].s /\ fd'[g] # Unused => f = g
    BY <1>4, <1>5 DEF Table, Descriptors, Link
  <2>3. ASSUME NEW r \in Socks, NEW d \in Clients, conn'[r][d] = "accepted"
        PROVE  \E f \in Fds : fd'[f] = Link(r, d)
    <3>1. CASE r = s /\ d = c
      BY <1>2, <1>4, <3>1
    <3>2. CASE r # s \/ d # c
      <4>1. PICK f \in Fds : fd[f] = Link(r, d)
        BY <1>4, <2>3, <3>2 DEF Table, Descriptors
      <4>2. f # n
        BY <1>2, <4>1 DEF Link, Unused
      <4> QED
        BY <1>4, <4>1, <4>2
    <3> QED
      BY <3>1, <3>2
  <2> QED
    BY <2>1, <2>2, <2>3 DEF Descriptors
<1>8. MonitorNamed'
  <2> SUFFICES ASSUME NEW d \in Clients, conn'["evt"][d] = "accepted"
               PROVE  s_fdMonitor' \in Fds /\ fd'[s_fdMonitor'] = Link("evt", d)
    BY DEF MonitorNamed
  <2>1. CASE s = "evt"
    <3>1. d = c
      BY <1>4, <1>6, <2>1
    <3> QED
      BY <1>2, <1>3, <1>4, <2>1, <3>1
  <2>2. CASE s # "evt"
    <3>1. conn["evt"][d] = "accepted"
      BY <1>4, <2>2 DEF Socks
    <3>2. s_fdMonitor \in Fds /\ fd[s_fdMonitor] = Link("evt", d)
      BY <3>1 DEF Table, MonitorNamed
    <3>3. s_fdMonitor # n
      BY <1>2, <3>2 DEF Link, Unused
    <3> QED
      BY <1>3, <1>4, <2>2, <3>2, <3>3
  <2> QED
    BY <2>1, <2>2
<1>9. NotYet'
  <2>1. bound[s] # "no"
    BY <1>3 DEF Table, NotYet
  <2>2. \A r \in Socks \ {s} : backlog'[r] = backlog[r]
    BY <1>3 DEF TypeOK, SocketsTypeOK
  <2> QED
    BY <1>3, <1>4, <2>1, <2>2 DEF Table, NotYet
<1> QED
  BY <1>7, <1>8, <1>9 DEF Table

(* Closing a connection frees its number and nothing else. *)
LEMMA DisconnectedTable ==
  ASSUME TypeOK, Table, NEW s \in Socks, NEW c \in Clients, Disconnected(s, c)
  PROVE  Table'
<1>1. PICK n \in Fds : fd[n] = Link(s, c)
  BY DEF Disconnected, Table, Descriptors
<1>2. \A f \in Fds \ {n} : fd[f] # Unused => fd[f].s # s
  BY <1>1 DEF Table, Descriptors, Link, Unused
<1>3. /\ fd'[n] = Unused /\ \A f \in Fds \ {n} : fd'[f] = fd[f]
      /\ conn'[s][c] = "closed"
      /\ \A r \in Socks, d \in Clients : r # s \/ d # c => conn'[r][d] = conn[r][d]
      /\ \A r \in Socks \ {s} : listening'[r] = listening[r]
      /\ UNCHANGED <<bound, backlog, s_fdMonitor>>
  <2>1. \A f \in Fds \ {n} : fd[f] # Link(s, c)
    BY <1>1, <1>2 DEF Link, Unused
  <2> QED
    BY <1>1, <2>1 DEF Disconnected, ListenAgain, Link, TypeOK, SocketsTypeOK
<1>4. Descriptors'
  <2>1. ASSUME NEW f \in Fds, fd'[f] # Unused
        PROVE  \E r \in Socks, d \in Clients :
                 fd'[f] = Link(r, d) /\ conn'[r][d] = "accepted" /\ ~listening'[r]
    <3>1. f # n /\ fd'[f] = fd[f]
      BY <1>3, <2>1
    <3>2. PICK r \in Socks, d \in Clients :
            fd[f] = Link(r, d) /\ conn[r][d] = "accepted" /\ ~listening[r]
      BY <2>1, <3>1 DEF Table, Descriptors
    <3>3. r # s
      BY <1>2, <2>1, <3>1, <3>2 DEF Link
    <3> QED
      BY <1>3, <3>1, <3>2, <3>3
  <2>2. \A f, g \in Fds : fd'[f] # Unused /\ fd'[f].s = fd'[g].s /\ fd'[g] # Unused => f = g
    BY <1>3 DEF Table, Descriptors
  <2>3. ASSUME NEW r \in Socks, NEW d \in Clients, conn'[r][d] = "accepted"
        PROVE  \E f \in Fds : fd'[f] = Link(r, d)
    <3>1. r # s \/ d # c
      BY <1>3, <2>3
    <3>2. PICK f \in Fds : fd[f] = Link(r, d)
      BY <1>3, <2>3, <3>1 DEF Table, Descriptors
    <3>3. f # n
      BY <1>1, <3>1, <3>2 DEF Link
    <3> QED
      BY <1>3, <3>2, <3>3
  <2> QED
    BY <2>1, <2>2, <2>3 DEF Descriptors
<1>5. MonitorNamed'
  <2> SUFFICES ASSUME NEW d \in Clients, conn'["evt"][d] = "accepted"
               PROVE  s_fdMonitor \in Fds /\ fd'[s_fdMonitor] = Link("evt", d)
    BY <1>3 DEF MonitorNamed
  <2>1. "evt" # s \/ d # c
    BY <1>3
  <2>2. conn["evt"][d] = "accepted"
    BY <1>3, <2>1 DEF Socks
  <2>3. s_fdMonitor \in Fds /\ fd[s_fdMonitor] = Link("evt", d)
    BY <2>2 DEF Table, MonitorNamed
  <2>4. s_fdMonitor # n
    BY <1>1, <2>1, <2>3 DEF Link
  <2> QED
    BY <1>3, <2>3, <2>4
<1>6. NotYet'
  <2>1. bound[s] # "no"
    BY DEF Disconnected, Table, NotYet
  <2> QED
    BY <1>3, <2>1 DEF Table, NotYet
<1> QED
  BY <1>4, <1>5, <1>6 DEF Table

(* Setting up a listening socket touches no connection. *)
LEMMA SetupTable ==
  ASSUME TypeOK, Table, NEW s \in Socks, SetupSocket(s) \/ SetupFails(s)
  PROVE  Table'
<1>1. /\ UNCHANGED <<fd, s_fdMonitor, backlog, conn>>
      /\ \A r \in Socks \ {s} : bound'[r] = bound[r] /\ listening'[r] = listening[r]
      /\ bound'[s] # "no"
  BY DEF SetupSocket, SetupFails, TypeOK, SocketsTypeOK
<1>2. \A d \in Clients : conn[s][d] # "accepted"
  BY DEF SetupSocket, SetupFails, Turn, Table, NotYet
<1>3. ASSUME NEW f \in Fds, fd'[f] # Unused
      PROVE  \E r \in Socks, d \in Clients :
               fd'[f] = Link(r, d) /\ conn'[r][d] = "accepted" /\ ~listening'[r]
  <2>1. PICK r \in Socks, d \in Clients :
          fd[f] = Link(r, d) /\ conn[r][d] = "accepted" /\ ~listening[r]
    BY <1>1, <1>3 DEF Table, Descriptors
  <2>2. r # s
    BY <1>2, <2>1
  <2> QED
    BY <1>1, <2>1, <2>2
<1>4. Descriptors'
  BY <1>1, <1>3 DEF Table, Descriptors
<1>5. MonitorNamed'
  BY <1>1 DEF Table, MonitorNamed
<1>6. NotYet'
  BY <1>1 DEF Table, NotYet
<1> QED
  BY <1>4, <1>5, <1>6 DEF Table
-----------------------------------------------------------------------------
(* Who waits, who is connected and who has been told.                      *)

\* The clients in a backlog wait for accept(), each once, and a client that has
\* not connected yet has no connection.
Waits ==
  /\ \A s \in Socks : \A i \in 1..Len(backlog[s]) : conn[s][backlog[s][i]] = "waiting"
  /\ \A s \in Socks : \A i, j \in 1..Len(backlog[s]) : backlog[s][i] = backlog[s][j] => i = j
  /\ \A c \in Clients : main[c] = "start" => conn["cmd"][c] \in {"none", "closed"}
  /\ \A c \in Clients : main[c] \in {"start", "half"} => conn["evt"][c] \in {"none", "closed"}

\* Only a client that has been accepted as the monitor can have seen a change.
Seen ==
  \A c \in Clients : since[c] =>
    conn["evt"][c] \in {"accepted", "closed"} /\ main[c] \notin {"start", "half"}

\* A client all of whose requests have been answered in time, and none by an event,
\* has at most one request or one reply under way: the one it waits for.
InTurn ==
  \A c \in Clients \ (misled \cup gaveUp) :
    /\ main[c] \in {"start", "half", "ready"} => req[c] = <<>> /\ rep[c] = <<>>
    /\ main[c] = "waiting" =>
         /\ req[c] # <<>> => alive /\ req[c] = <<asked[c]>> /\ rep[c] = <<>>
         /\ rep[c] # <<>> =>
              /\ Len(rep[c]) = 1
              /\ rep[c][1].head = "SUCCESS" =>
                   did[c] /\ (asked[c] = "GET_STATE" => rep[c][1].text \in were[c])
         /\ alive /\ asked[c] = "GET_STATE" => phone \in were[c]

Served == Waits /\ Seen /\ MonitorInStep /\ InTurn
ClientInv == TypeOK /\ Table /\ Served
(* A state that has just been sent is what the monitor will print last.     *)
LEMMA AppendedIsLast ==
  ASSUME NEW q \in Seq(States), NEW e \in States, NEW known
  PROVE  LastState(known, Append(q, e)) = e
BY DEF LastState

(* What one client has to do with the invariants of them all.               *)
LEMMA InTurnFor ==
  ASSUME NEW c \in Clients, InTurn, c \notin misled, c \notin gaveUp
  PROVE  InTurn!(c)
BY DEF InTurn

(* When the daemon dies nobody is served. *)
LEMMA DieServed ==
  ASSUME ClientInv, Die, UNCHANGED program
  PROVE  Served'
<1> USE DEF ClientInv, TypeOK, SocketsTypeOK
<1>1. Waits'
  BY DEF Die, Waits, Socks
<1>2. Seen'
  BY DEF Die, Seen
<1>3. MonitorInStep'
  BY DEF Die, MonitorInStep
<1>4. InTurn'
  BY DEF Die, InTurn, Served, program
<1> QED
  BY <1>1, <1>2, <1>3, <1>4 DEF Served

(* A client that ends leaves both its connections. *)
LEMMA ExitServed ==
  ASSUME ClientInv, NEW c \in Clients, Exit(c)
  PROVE  Served'
<1> USE DEF ClientInv, TypeOK, SocketsTypeOK
<1>1. /\ main'[c] = "gone" /\ ~since'[c]
      /\ UNCHANGED <<alive, phone, conn, backlog, req>>
      /\ \A d \in Clients \ {c} :
           /\ main'[d] = main[d] /\ since'[d] = since[d] /\ view'[d] = view[d]
           /\ evts'[d] = evts[d] /\ rep'[d] = rep[d] /\ asked'[d] = asked[d]
           /\ did'[d] = did[d] /\ were'[d] = were[d]
           /\ (d \in misled') <=> (d \in misled)
           /\ (d \in gaveUp') <=> (d \in gaveUp)
  BY DEF Exit, machinery, machine
<1>2. Waits'
  BY <1>1 DEF Waits, Served
<1>3. Seen'
  BY <1>1 DEF Seen, Served
<1>4. MonitorInStep'
  <2> SUFFICES ASSUME NEW d \in Clients
               PROVE  MonitorInStep!(d)'
    BY DEF MonitorInStep
  <2>1. MonitorInStep!(d)
    BY DEF MonitorInStep, Served
  <2>2. CASE d = c
    BY <1>1, <2>2
  <2>3. CASE d # c
    BY <1>1, <2>1, <2>3
  <2> QED
    BY <2>2, <2>3
<1>5. InTurn'
  <2> SUFFICES ASSUME NEW d \in Clients \ (misled' \cup gaveUp')
               PROVE  InTurn!(d)'
    BY DEF InTurn
  <2>1. CASE d = c
    BY <1>1, <2>1
  <2>2. CASE d # c
    <3>1. InTurn!(d)
      BY <1>1, <2>2, InTurnFor DEF Served
    <3> QED
      BY <1>1, <2>2, <3>1
  <2> QED
    BY <2>1, <2>2
<1> QED
  BY <1>2, <1>3, <1>4, <1>5 DEF Served

(* The state machine reports a state: the monitor is who gets it.           *)
LEMMA SendsServed ==
  ASSUME ClientInv, NEW e \in States, NEW rest, Sends(e, rest), UNCHANGED program
  PROVE  Served'
<1>1. CASE Die
  BY <1>1, DieServed
<1>2. CASE ~Die
  <2>1. ~(Target.c # Nobody /\ ~open[Target.s][Target.c])
    BY <1>2 DEF Sends
  <2>2. /\ phone' = e
        /\ were' = [c \in Clients |-> IF were[c] = {} THEN {} ELSE were[c] \cup {e}]
        /\ since' = [c \in Clients |-> since[c] \/ (conn["evt"][c] = "accepted" /\ open["evt"][c])]
        /\ evts' = [c \in Clients |-> IF Target = [s |-> "evt", c |-> c]
                                      THEN Append(evts[c], e) ELSE evts[c]]
        /\ rep' = [c \in Clients |-> IF Target = [s |-> "cmd", c |-> c]
                                     THEN Append(rep[c], [head |-> "none", text |-> e])
                                     ELSE rep[c]]
        /\ misled' = misled \cup {c \in Clients : Target = [s |-> "cmd", c |-> c]}
        /\ UNCHANGED <<alive, links, req, did>>
    BY <2>1 DEF Sends
  <2>3. UNCHANGED <<backlog, conn, main, asked, view, gaveUp>>
    BY <2>2 DEF links, program
  <2> USE DEF ClientInv, TypeOK, SocketsTypeOK
  <2>4. Waits'
    BY <2>3 DEF Waits, Served
  <2>5. Seen'
    BY <2>2, <2>3 DEF Seen, Waits, Served
  <2>6. MonitorInStep'
    <3> SUFFICES ASSUME NEW c \in Clients, conn["evt"][c] = "accepted"
                 PROVE  LastState(view[c], evts'[c]) = e
      BY <2>2, <2>3 DEF MonitorInStep
    <3>1. Target = [s |-> "evt", c |-> c]
      BY DEF Target, Table, MonitorNamed, Link, Fds
    <3>2. evts'[c] = Append(evts[c], e)
      BY <2>2, <3>1
    <3>3. evts[c] \in Seq(States)
      OBVIOUS
    <3> QED
      BY <3>2, <3>3, AppendedIsLast
  <2>7. InTurn'
    <3> SUFFICES ASSUME NEW c \in Clients \ (misled' \cup gaveUp')
                 PROVE  InTurn!(c)'
      BY DEF InTurn
    <3>1. c \in Clients \ (misled \cup gaveUp) /\ rep'[c] = rep[c]
      BY <2>2, <2>3
    <3>2. were[c] \subseteq were'[c] /\ (were[c] # {} => e \in were'[c])
      BY <2>2
    <3> QED
      BY <2>2, <2>3, <3>1, <3>2 DEF InTurn, Served
  <2> QED
    BY <2>4, <2>5, <2>6, <2>7 DEF Served
<1> QED
  BY <1>1, <1>2
(* Steps that leave the clients, what is sent to them and the phone alone.  *)
LEMMA QuietServed ==
  ASSUME ClientInv, Waits', Seen',
         UNCHANGED <<alive, phone, req, rep, evts, did, were, misled, since, program>>,
         \A c \in Clients : conn'["evt"][c] = "accepted" /\ since[c] =>
                              conn["evt"][c] = "accepted"
  PROVE  Served'
<1>1. MonitorInStep'
  BY DEF MonitorInStep, program, ClientInv, Served
<1>2. InTurn'
  BY DEF InTurn, program, ClientInv, Served
<1> QED
  BY <1>1, <1>2 DEF Served

(* The connection that was accepted is the one served from then on. *)
LEMMA AcceptServed ==
  ASSUME ClientInv, NEW s \in Socks, Accept(s), UNCHANGED program
  PROVE  Served'
<1> DEFINE q == backlog[s]
           c == q[1]
           z == backlog'[s]
<1>0. q \in Seq(Clients) /\ q # <<>> /\ Len(q) \in Nat /\ Len(q) > 0 /\ c = Head(q)
  BY DEF Accept, ClientInv, TypeOK, SocketsTypeOK
<1>1. /\ c \in Clients /\ conn[s][c] = "waiting"
      /\ \A r \in Socks, d \in Clients : r # s \/ d # c => conn'[r][d] = conn[r][d]
      /\ conn'[s][c] = "accepted"
      /\ UNCHANGED <<alive, phone, req, rep, evts, did, were, misled, since, main>>
  BY <1>0 DEF Accept, ClientInv, Served, Waits, TypeOK, SocketsTypeOK, streams, machine,
     history, program
<1>2. /\ \A r \in Socks \ {s} : backlog'[r] = backlog[r]
  BY DEF Accept, ClientInv, TypeOK, SocketsTypeOK
<1>3. Len(z) = Len(q) - 1 /\ \A i \in 1..Len(z) : z[i] = q[i + 1]
  <2>1. z = Tail(q)
    BY DEF Accept, ClientInv, TypeOK, SocketsTypeOK
  <2> QED
    BY <1>0, <2>1
<1>4. \A i, j \in 1..Len(q) : q[i] = q[j] => i = j
  BY DEF ClientInv, Served, Waits
<1>5. \A i \in 1..Len(q) : q[i] \in Clients /\ conn[s][q[i]] = "waiting"
  BY <1>0 DEF ClientInv, Served, Waits
<1> HIDE DEF q, c, z
<1>6. \A i \in 1..Len(z) : z[i] # c /\ conn'[s][z[i]] = "waiting"
  <2> TAKE i \in 1..Len(z)
  <2>1. i + 1 \in 1..Len(q) /\ 1 \in 1..Len(q) /\ i + 1 # 1
    BY <1>0, <1>3
  <2>2. q[i + 1] # c
    BY <1>4, <2>1 DEF c
  <2> QED
    BY <1>1, <1>3, <1>5, <2>1, <2>2
<1>7. \A i, j \in 1..Len(z) : z[i] = z[j] => i = j
  <2> TAKE i, j \in 1..Len(z)
  <2>1. i + 1 \in 1..Len(q) /\ j + 1 \in 1..Len(q)
    BY <1>0, <1>3
  <2> QED
    BY <1>3, <1>4, <2>1
<1>8. Waits'
  <2>1. ASSUME NEW r \in Socks \ {s}
        PROVE  /\ \A i \in 1..Len(backlog[r]) : conn'[r][backlog[r][i]] = "waiting"
               /\ \A i, j \in 1..Len(backlog[r]) : backlog[r][i] = backlog[r][j] => i = j
    <3>1. backlog[r] \in Seq(Clients)
      BY DEF ClientInv, TypeOK, SocketsTypeOK
    <3> QED
      BY <1>1, <3>1 DEF ClientInv, Served, Waits
  <2>2. ASSUME NEW d \in Clients
        PROVE  /\ main'[d] = "start" => conn'["cmd"][d] \in {"none", "closed"}
               /\ main'[d] \in {"start", "half"} => conn'["evt"][d] \in {"none", "closed"}
    BY <1>1 DEF ClientInv, Served, Waits, Socks
  <2>3. ASSUME NEW r \in Socks
        PROVE  /\ \A i \in 1..Len(backlog'[r]) : conn'[r][backlog'[r][i]] = "waiting"
               /\ \A i, j \in 1..Len(backlog'[r]) : backlog'[r][i] = backlog'[r][j] => i = j
    <3>1. CASE r = s
      BY <1>6, <1>7, <3>1 DEF z
    <3>2. CASE r # s
      BY <1>2, <2>1, <3>2
    <3> QED
      BY <3>1, <3>2
  <2> QED
    BY <2>2, <2>3 DEF Waits
<1>9. Seen'
  BY <1>1 DEF ClientInv, Served, Seen, Socks
<1>10. \A d \in Clients : conn'["evt"][d] = "accepted" /\ since[d] => conn["evt"][d] = "accepted"
  BY <1>1 DEF ClientInv, Served, Seen, Socks
<1> QED
  BY <1>1, <1>8, <1>9, <1>10, QuietServed DEF program

(* The main loop serves nobody whose connection it has closed. *)
LEMMA LoopServed ==
  ASSUME ClientInv, UNCHANGED program,
         MainLoop \/ \E s \in Socks : SetupFails(s) \/ AcceptFails(s)
  PROVE  Served'
<1>1. ASSUME NEW s \in Socks, SetupSocket(s) \/ SetupFails(s) PROVE Served'
  <2>1. UNCHANGED <<alive, backlog, conn, streams, machine, history, program>>
    BY <1>1 DEF SetupSocket, SetupFails
  <2>2. Waits' /\ Seen'
    BY <2>1 DEF ClientInv, Served, Waits, Seen, program, history
  <2> QED
    BY <2>1, <2>2, QuietServed DEF streams, machine, history
<1>2. ASSUME NEW s \in Socks, AcceptFails(s) PROVE Served'
  BY <1>2, DieServed DEF AcceptFails
<1>3. ASSUME NEW s \in Socks, NEW c \in Clients, Disconnected(s, c) PROVE Served'
  <2>1. /\ \A r \in Socks, d \in Clients :
             conn'[r][d] # conn[r][d] => conn[r][d] = "accepted" /\ conn'[r][d] = "closed"
        /\ UNCHANGED <<alive, backlog, streams, machine, history, program>>
    BY <1>3 DEF Disconnected, ClientInv, TypeOK, SocketsTypeOK
  <2>2. Waits'
    <3>1. \A r \in Socks : backlog[r] \in Seq(Clients)
      BY DEF ClientInv, TypeOK, SocketsTypeOK
    <3>2. ASSUME NEW r \in Socks, NEW i \in 1..Len(backlog[r])
          PROVE  conn'[r][backlog[r][i]] = "waiting"
      BY <2>1, <3>1 DEF ClientInv, Served, Waits
    <3>3. ASSUME NEW d \in Clients
          PROVE  /\ main[d] = "start" => conn'["cmd"][d] \in {"none", "closed"}
                 /\ main[d] \in {"start", "half"} => conn'["evt"][d] \in {"none", "closed"}
      BY <2>1 DEF ClientInv, Served, Waits, Socks
    <3> QED
      BY <2>1, <3>2, <3>3 DEF ClientInv, Served, Waits, program
  <2>3. Seen'
    BY <2>1 DEF ClientInv, Served, Seen, program, history, Socks
  <2> QED
    BY <2>1, <2>2, <2>3, QuietServed DEF streams, machine, history, Socks
<1>4. ASSUME NEW s \in Socks, Accept(s) PROVE Served'
  BY <1>4, AcceptServed
<1>5. ASSUME NEW c \in Clients, ProcessCommand(c) PROVE Served'
  <2> DEFINE op == Head(req[c])
  <2>1. CASE Die
    BY <2>1, DieServed
  <2>2. CASE ~Die
    <3>1. /\ \/ /\ rep' = IF op = "OTHER" THEN rep
                          ELSE [rep EXCEPT ![c] = Append(@, Replied(op, 0))]
                /\ did' = [did EXCEPT ![c] = TRUE]
             \/ /\ rep' = [rep EXCEPT ![c] = Append(@, Replied(op, -1))]
                /\ UNCHANGED did
          /\ req' = [req EXCEPT ![c] = <<>>]
          /\ UNCHANGED <<alive, links, evts, phone, were, since, misled>>
      BY <1>5, <2>2 DEF ProcessCommand
    <3>2. Waits' /\ Seen' /\ MonitorInStep'
      BY <3>1 DEF ClientInv, Served, Waits, Seen, MonitorInStep, program, links
    <3>3. InTurn'
      <4> SUFFICES ASSUME NEW d \in Clients, d \notin misled, d \notin gaveUp
                   PROVE  InTurn!(d)'
        BY <3>1 DEF InTurn, program
      <4>1. InTurn!(d)
        BY InTurnFor DEF ClientInv, Served
      <4>2. CASE d # c
        <5>1. rep'[d] = rep[d] /\ did'[d] = did[d] /\ req'[d] = req[d]
          BY <3>1, <4>2 DEF ClientInv, TypeOK, SocketsTypeOK
        <5> QED
          BY <3>1, <4>1, <5>1 DEF program
      <4>3. CASE d = c
        <5>1. /\ req[c] \in Seq(Ops) /\ req[c] # <<>> /\ req'[c] = <<>>
              /\ rep[c] \in Seq(Replies)
          BY <1>5, <3>1 DEF ProcessCommand, ClientInv, TypeOK, SocketsTypeOK
        <5>2. main[c] = "waiting" => op = asked[c] /\ rep[c] = <<>>
          BY <4>1, <4>3, <5>1
        <5>3. /\ op = "GET_STATE" => Replied(op, 0).text = phone
              /\ op = "GET_STATE" => Replied(op, -1).text = phone
              /\ Replied(op, -1).head # "SUCCESS"
          BY RepliedState
        <5> HIDE DEF op
        <5>4. \/ rep'[c] = rep[c]
              \/ rep'[c] = Append(rep[c], Replied(op, 0)) /\ did'[c]
              \/ rep'[c] = Append(rep[c], Replied(op, -1))
          <6>1. CASE UNCHANGED did /\ rep' = [rep EXCEPT ![c] = Append(@, Replied(op, -1))]
            BY <6>1 DEF ClientInv, TypeOK, SocketsTypeOK
          <6>2. CASE /\ did' = [did EXCEPT ![c] = TRUE]
                     /\ rep' = IF op = "OTHER" THEN rep
                               ELSE [rep EXCEPT ![c] = Append(@, Replied(op, 0))]
            BY <6>2 DEF ClientInv, TypeOK, SocketsTypeOK
          <6> QED
            BY <3>1, <6>1, <6>2
        <5>5. UNCHANGED <<main, asked, alive, phone, were>>
          BY <3>1 DEF program
        <5>6. main[c] \notin {"start", "half", "ready"}
          BY <4>1, <4>3, <5>1
        <5>7. ASSUME main[c] = "waiting", rep'[c] # <<>>
              PROVE  /\ Len(rep'[c]) = 1
                     /\ rep'[c][1].head = "SUCCESS" =>
                          did'[c] /\ (asked[c] = "GET_STATE" => rep'[c][1].text \in were[c])
          <6>1. asked[c] = "GET_STATE" => phone \in were[c]
            BY <1>5, <4>1, <4>3, <5>7 DEF ProcessCommand
          <6>2. op = asked[c] /\ rep[c] = <<>>
            BY <5>2, <5>7
          <6>3. CASE rep'[c] = Append(rep[c], Replied(op, 0)) /\ did'[c]
            <7>1. Len(rep'[c]) = 1 /\ rep'[c][1] = Replied(op, 0)
              BY <5>1, <6>2, <6>3
            <7> QED
              BY <5>3, <6>1, <6>2, <6>3, <7>1
          <6>4. CASE rep'[c] = Append(rep[c], Replied(op, -1))
            <7>1. Len(rep'[c]) = 1 /\ rep'[c][1] = Replied(op, -1)
              BY <5>1, <6>2, <6>4
            <7> QED
              BY <5>3, <7>1
          <6> QED
            BY <5>4, <5>7, <6>2, <6>3, <6>4
        <5>8. main[c] = "waiting" /\ alive /\ asked[c] = "GET_STATE" => phone \in were[c]
          BY <4>1, <4>3
        <5> QED
          BY <4>3, <5>1, <5>5, <5>6, <5>7, <5>8
      <4> QED
        BY <4>2, <4>3
    <3> QED
      BY <3>2, <3>3 DEF Served
  <2> QED
    BY <2>1, <2>2
<1> QED
  BY <1>1, <1>2, <1>3, <1>4, <1>5 DEF MainLoop
(* A connection joins the backlog of socket s, and the client goes on.      *)
LEMMA ConnectsServed ==
  ASSUME ClientInv, NEW s \in Socks, NEW c \in Clients, Connects(s, c),
         \/ s = "cmd" /\ main[c] = "start" /\ main' = [main EXCEPT ![c] = "half"]
         \/ s = "evt" /\ main[c] = "half" /\ main' = [main EXCEPT ![c] = "ready"],
         UNCHANGED <<view, asked, gaveUp>>
  PROVE  Served'
<1> DEFINE q == backlog[s]
           z == backlog'[s]
<1>1. /\ q \in Seq(Clients) /\ Len(q) \in Nat
      /\ z = Append(q, c)
      /\ \A r \in Socks \ {s} : backlog'[r] = backlog[r] /\ conn'[r] = conn[r]
      /\ conn'[s][c] = "waiting"
      /\ \A d \in Clients \ {c} : conn'[s][d] = conn[s][d]
      /\ UNCHANGED <<alive, phone, req, rep, evts, did, were, since, misled>>
  BY DEF Connects, ClientInv, TypeOK, SocketsTypeOK, machinery, machine, streams, history
<1>2. conn[s][c] \in {"none", "closed"}
  BY DEF ClientInv, Served, Waits
<1>3. /\ Len(z) = Len(q) + 1 /\ z[Len(q) + 1] = c
      /\ \A i \in 1..Len(q) : z[i] = q[i]
  BY <1>1
<1>4. \A i \in 1..Len(q) : q[i] \in Clients /\ conn[s][q[i]] = "waiting" /\ q[i] # c
  BY <1>1, <1>2 DEF ClientInv, Served, Waits
<1>5. \A i, j \in 1..Len(q) : q[i] = q[j] => i = j
  BY DEF ClientInv, Served, Waits
<1>6. \A d \in Clients : d # c => main'[d] = main[d]
  BY DEF ClientInv, TypeOK
<1>7. Waits'
  <2> HIDE DEF q, z
  <2>1. \A i \in 1..Len(z) : conn'[s][z[i]] = "waiting"
    BY <1>1, <1>3, <1>4
  <2>2. \A i, j \in 1..Len(z) : z[i] = z[j] => i = j
    <3> TAKE i, j \in 1..Len(z)
    <3>1. i \in 1..Len(q) \/ i = Len(q) + 1
      BY <1>1, <1>3
    <3>2. j \in 1..Len(q) \/ j = Len(q) + 1
      BY <1>1, <1>3
    <3> QED
      BY <1>3, <1>4, <1>5, <3>1, <3>2
  <2>3. ASSUME NEW r \in Socks
        PROVE  /\ \A i \in 1..Len(backlog'[r]) : conn'[r][backlog'[r][i]] = "waiting"
               /\ \A i, j \in 1..Len(backlog'[r]) : backlog'[r][i] = backlog'[r][j] => i = j
    <3>1. CASE r = s
      BY <2>1, <2>2, <3>1 DEF z
    <3>2. CASE r # s
      <4>1. backlog'[r] = backlog[r] /\ conn'[r] = conn[r]
        BY <1>1, <3>2
      <4> QED
        BY <4>1 DEF ClientInv, Served, Waits
    <3> QED
      BY <3>1, <3>2
  <2>4. ASSUME NEW d \in Clients
        PROVE  /\ main'[d] = "start" => conn'["cmd"][d] \in {"none", "closed"}
               /\ main'[d] \in {"start", "half"} => conn'["evt"][d] \in {"none", "closed"}
    <3>1. /\ main[d] = "start" => conn["cmd"][d] \in {"none", "closed"}
          /\ main[d] \in {"start", "half"} => conn["evt"][d] \in {"none", "closed"}
      BY DEF ClientInv, Served, Waits
    <3>2. CASE d # c
      <4>1. conn'["cmd"][d] = conn["cmd"][d] /\ conn'["evt"][d] = conn["evt"][d]
        BY <1>1, <3>2 DEF Socks
      <4> QED
        BY <1>6, <3>1, <3>2, <4>1
    <3>3. CASE d = c
      <4>1. main'[c] = IF s = "cmd" THEN "half" ELSE "ready"
        BY DEF ClientInv, TypeOK
      <4>2. s = "cmd" => conn'["evt"][c] = conn["evt"][c] /\ main[c] = "start"
        BY <1>1 DEF Socks
      <4> QED
        BY <3>1, <3>3, <4>1, <4>2 DEF Socks
    <3> QED
      BY <3>2, <3>3
  <2> QED
    BY <2>3, <2>4 DEF Waits
<1>8. ~since[c] /\ \A d \in Clients \ {c} : conn'["evt"][d] = conn["evt"][d]
  BY <1>1 DEF ClientInv, Served, Seen, Socks
<1>9. Seen'
  BY <1>1, <1>6, <1>8 DEF ClientInv, Served, Seen
<1>10. MonitorInStep'
  BY <1>1, <1>6, <1>8 DEF ClientInv, Served, MonitorInStep
<1>11. InTurn'
  <2> SUFFICES ASSUME NEW d \in Clients, d \notin misled, d \notin gaveUp
               PROVE  InTurn!(d)'
    BY <1>1 DEF InTurn
  <2>1. InTurn!(d)
    BY InTurnFor DEF ClientInv, Served
  <2>2. CASE d # c
    BY <1>1, <1>6, <2>1, <2>2
  <2>3. CASE d = c
    <3>1. main[c] \in {"start", "half"} /\ main'[c] \in {"half", "ready"}
      BY DEF ClientInv, TypeOK
    <3> QED
      BY <1>1, <2>1, <2>3, <3>1
  <2> QED
    BY <2>2, <2>3
<1> QED
  BY <1>7, <1>9, <1>10, <1>11 DEF Served

(* upil_ctrl_request returns, and nothing is left of the request unless it  *)
(* has timed out.                                                           *)
LEMMA ReturnsServed ==
  ASSUME ClientInv, NEW c \in Clients, main[c] = "waiting", Returns(c),
         rep' = [rep EXCEPT ![c] = <<>>], gaveUp \subseteq gaveUp',
         c \notin misled \cup gaveUp' => req[c] = <<>>
  PROVE  Served'
<1>1. /\ main'[c] = "ready" /\ \A d \in Clients \ {c} : main'[d] = main[d]
      /\ rep'[c] = <<>>
      /\ \A d \in Clients \ {c} : /\ rep'[d] = rep[d] /\ asked'[d] = asked[d]
                                  /\ did'[d] = did[d] /\ were'[d] = were[d]
      /\ UNCHANGED <<alive, phone, conn, backlog, req, evts, since, misled, view>>
  BY DEF Returns, machinery, machine, reading, ClientInv, TypeOK, SocketsTypeOK
<1>2. Waits'
  BY <1>1 DEF ClientInv, Served, Waits
<1>3. Seen'
  BY <1>1 DEF ClientInv, Served, Seen
<1>4. MonitorInStep'
  BY <1>1 DEF ClientInv, Served, MonitorInStep
<1>5. InTurn'
  <2> SUFFICES ASSUME NEW d \in Clients, d \notin misled, d \notin gaveUp'
               PROVE  InTurn!(d)'
    BY <1>1 DEF InTurn
  <2>1. InTurn!(d)
    BY InTurnFor DEF ClientInv, Served
  <2>2. CASE d # c
    BY <1>1, <2>1, <2>2
  <2>3. CASE d = c
    BY <1>1, <2>3
  <2> QED
    BY <2>2, <2>3
<1> QED
  BY <1>2, <1>3, <1>4, <1>5 DEF Served
(* The steps of a client.                                                   *)
LEMMA ClientServed ==
  ASSUME ClientInv, NEW c \in Clients, MainThread(c) \/ Reader(c) \/ User(c)
  PROVE  Served'
<1>1. CASE ConnectCtrl(c)
  BY <1>1, ConnectsServed DEF ConnectCtrl, Socks, reading
<1>2. CASE ConnectMonitor(c)
  BY <1>2, ConnectsServed DEF ConnectMonitor, Socks
<1>3. CASE Exit(c)
  BY <1>3, ExitServed
<1>4. CASE SendRequest(c)
  <2>1. CASE ~alive
    BY <1>4, <2>1, ExitServed DEF SendRequest
  <2>2. CASE alive
    <3>1. PICK op \in Requests :
            /\ req' = [req EXCEPT ![c] = Append(@, op)]
            /\ main' = [main EXCEPT ![c] = "waiting"]
            /\ asked' = [asked EXCEPT ![c] = op]
            /\ did' = [did EXCEPT ![c] = FALSE]
            /\ were' = [were EXCEPT ![c] = IF op = "GET_STATE" THEN {phone} ELSE {}]
            /\ UNCHANGED <<machinery, backlog, conn, open, rep, evts, since, misled,
                           reading, gaveUp>>
      BY <1>4, <2>2 DEF SendRequest
    <3>2. /\ main'[c] = "waiting" /\ \A d \in Clients \ {c} : main'[d] = main[d]
          /\ main[c] = "ready"
          /\ UNCHANGED <<alive, phone, backlog, conn, rep, evts, since, misled, view, gaveUp>>
      BY <1>4, <3>1 DEF SendRequest, machinery, machine, reading, ClientInv, TypeOK
    <3>3. Waits'
      BY <3>2 DEF ClientInv, Served, Waits
    <3>4. Seen'
      BY <3>2 DEF ClientInv, Served, Seen
    <3>5. MonitorInStep'
      BY <3>2 DEF ClientInv, Served, MonitorInStep
    <3>6. InTurn'
      <4> SUFFICES ASSUME NEW d \in Clients, d \notin misled, d \notin gaveUp
                   PROVE  InTurn!(d)'
        BY <3>2 DEF InTurn
      <4>1. InTurn!(d)
        BY InTurnFor DEF ClientInv, Served
      <4>2. CASE d # c
        <5>1. /\ req'[d] = req[d] /\ asked'[d] = asked[d] /\ did'[d] = did[d]
              /\ were'[d] = were[d] /\ main'[d] = main[d]
          BY <3>1, <3>2, <4>2 DEF ClientInv, TypeOK, SocketsTypeOK
        <5> QED
          BY <3>2, <4>1, <5>1
      <4>3. CASE d = c
        <5>1. req[c] = <<>> /\ rep[c] = <<>>
          BY <3>2, <4>1, <4>3
        <5>2. req'[c] = <<op>> /\ asked'[c] = op
          BY <3>1, <5>1 DEF ClientInv, TypeOK, SocketsTypeOK
        <5>3. op = "GET_STATE" => phone \in were'[c]
          BY <3>1 DEF ClientInv, TypeOK, SocketsTypeOK
        <5> QED
          BY <2>2, <3>2, <4>3, <5>1, <5>2, <5>3
      <4> QED
        BY <4>2, <4>3
    <3> QED
      BY <3>3, <3>4, <3>5, <3>6 DEF Served
  <2> QED
    BY <2>1, <2>2
<1>5. CASE ReceiveReply(c)
  <2>1. c \notin misled \cup gaveUp' => req[c] = <<>>
    BY <1>5, InTurnFor DEF ReceiveReply, ClientInv, Served
  <2> QED
    BY <1>5, <2>1, ReturnsServed DEF ReceiveReply
<1>6. CASE ReceiveEnd(c)
  <2>1. c \notin misled \cup gaveUp' => req[c] = <<>>
    BY <1>6, InTurnFor DEF ReceiveEnd, ClientInv, Served
  <2>2. rep' = [rep EXCEPT ![c] = <<>>]
    BY <1>6 DEF ReceiveEnd, ClientInv, TypeOK, SocketsTypeOK
  <2> QED
    BY <1>6, <2>1, <2>2, ReturnsServed DEF ReceiveEnd
<1>7. CASE RequestTimesOut(c)
  <2>1. rep' = [rep EXCEPT ![c] = <<>>]
    BY <1>7 DEF RequestTimesOut, ClientInv, TypeOK, SocketsTypeOK
  <2> QED
    BY <1>7, <2>1, ReturnsServed DEF RequestTimesOut
<1>8. CASE Disconnect(c)
  <2>1. /\ main'[c] = "closing" /\ \A d \in Clients \ {c} : main'[d] = main[d]
        /\ main[c] = "ready"
        /\ UNCHANGED <<alive, phone, backlog, conn, streams, history, view, asked, gaveUp>>
    BY <1>8 DEF Disconnect, machinery, machine, reading, ClientInv, TypeOK
  <2>2. Waits'
    BY <2>1 DEF ClientInv, Served, Waits
  <2>3. Seen'
    BY <2>1 DEF ClientInv, Served, Seen, history
  <2>4. MonitorInStep'
    BY <2>1 DEF ClientInv, Served, MonitorInStep, streams, history
  <2>5. InTurn'
    BY <2>1 DEF ClientInv, Served, InTurn, streams, history
  <2> QED
    BY <2>2, <2>3, <2>4, <2>5 DEF Served
<1>9. CASE ReceiveEvents(c)
  <2>1. /\ evts[c] # <<>> /\ evts'[c] = <<>> /\ view'[c] = LastState(view[c], evts[c])
        /\ \A d \in Clients \ {c} : evts'[d] = evts[d] /\ view'[d] = view[d]
        /\ UNCHANGED <<alive, phone, backlog, conn, req, rep, history, main, asked, gaveUp>>
    BY <1>9 DEF ReceiveEvents, machinery, machine, ClientInv, TypeOK, SocketsTypeOK
  <2>2. LastState(view'[c], evts'[c]) = LastState(view[c], evts[c])
    BY <2>1 DEF LastState
  <2>3. Waits'
    BY <2>1 DEF ClientInv, Served, Waits
  <2>4. Seen'
    BY <2>1 DEF ClientInv, Served, Seen, history
  <2>5. MonitorInStep'
    BY <2>1, <2>2 DEF ClientInv, Served, MonitorInStep, history
  <2>6. InTurn'
    BY <2>1 DEF ClientInv, Served, InTurn, history
  <2> QED
    BY <2>3, <2>4, <2>5, <2>6 DEF Served
<1> QED
  BY <1>1, <1>2, <1>3, <1>4, <1>5, <1>6, <1>7, <1>8, <1>9
     DEF MainThread, Reader, User, ConnectFails, ReturnFromMain, KillSelf

(* The steps of the state machine's thread.                                 *)
LEMMA MachineServed ==
  ASSUME ClientInv, UNCHANGED program, TakeMessage \/ PhoneEvent
  PROVE  Served'
<1>1. CASE TakeMessage /\ UNCHANGED <<alive, links, streams, phone, history>>
  <2>1. Waits' /\ Seen'
    BY <1>1 DEF ClientInv, Served, Waits, Seen, links, history, program
  <2> QED
    BY <1>1, <2>1, QuietServed DEF links, streams, history
<1>2. ASSUME NEW e \in States, NEW rest, Sends(e, rest) PROVE Served'
  BY <1>2, SendsServed
<1> QED
  BY <1>1, <1>2 DEF TakeMessage, PhoneEvent, States

(* No step disturbs the table of descriptors.                               *)
LEMMA NextTable ==
  ASSUME ClientInv, [Next]_vars
  PROVE  Table'
<1> USE DEF ClientInv
<1>1. CASE UNCHANGED <<bound, listening, fd, s_fdMonitor, backlog, conn>>
  BY <1>1, SameTable
<1>2. CASE Die
  BY <1>2, DieTable
<1>3. ASSUME NEW s \in Socks, NEW c \in Clients, Connects(s, c), conn[s][c] # "accepted"
      PROVE  Table'
  BY <1>3, ConnectsTable
<1>4. CASE Loop \/ Breaks
  <2>1. ASSUME NEW c \in Clients, ProcessCommand(c) PROVE Table'
    BY <1>1, <1>2, <2>1 DEF ProcessCommand, links
  <2> QED
    BY <1>2, <1>4, <2>1, AcceptTable, DisconnectedTable, SetupTable
       DEF Loop, MainLoop, Breaks, AcceptFails
<1>5. CASE Machine
  <2>1. ASSUME NEW e, NEW rest, Sends(e, rest) PROVE Table'
    BY <1>1, <1>2, <2>1 DEF Sends, links
  <2> QED
    BY <1>1, <1>5, <2>1 DEF Machine, TakeMessage, PhoneEvent, links
<1>6. ASSUME NEW c \in Clients, MainThread(c) \/ Reader(c) \/ User(c)
      PROVE  Table'
  <2>1. CASE ConnectCtrl(c)
    BY <1>3, <2>1 DEF ConnectCtrl, Socks, Served, Waits
  <2>2. CASE ConnectMonitor(c)
    BY <1>3, <2>2 DEF ConnectMonitor, Socks, Served, Waits
  <2>3. CASE Exit(c)
    BY <1>1, <2>3 DEF Exit, machinery
  <2>4. CASE SendRequest(c)
    BY <1>1, <2>3, <2>4 DEF SendRequest, machinery
  <2>5. CASE Returns(c)
    BY <1>1, <2>5 DEF Returns, machinery
  <2>6. CASE Disconnect(c) \/ ReceiveEvents(c)
    BY <1>1, <2>6 DEF Disconnect, ReceiveEvents, machinery
  <2> QED
    BY <1>6, <2>1, <2>2, <2>3, <2>4, <2>5, <2>6
       DEF MainThread, Reader, User, ConnectFails, ReturnFromMain, KillSelf,
           ReceiveReply, ReceiveEnd, RequestTimesOut
<1>7. CASE UNCHANGED vars
  BY <1>1, <1>7 DEF vars, daemon, links
<1> QED
  BY <1>4, <1>5, <1>6, <1>7 DEF Next

-----------------------------------------------------------------------------
(* The inductive invariant, and what follows from it.                       *)
THEOREM ClientInvariant == Spec => []ClientInv
<1>1. Init => ClientInv
  <2> SUFFICES ASSUME Init
               PROVE  ClientInv
    OBVIOUS
  <2> USE DEF Init, SocketsInit
  <2>1. TypeOK
    <3>1. fd \in [Fds -> [s : Socks, c : Clients \cup {Nobody}]]
      BY DEF Unused, Socks
    <3>2. /\ asked \in [Clients -> Ops] /\ phone \in States
          /\ view \in [Clients -> States \cup {"unknown"}]
      BY DEF Ops, States
    <3> QED
      BY <3>1, <3>2 DEF TypeOK, SocketsTypeOK
  <2>2. Table
    BY DEF Table, Descriptors, MonitorNamed, NotYet, Socks
  <2>3. Served
    BY DEF Served, Waits, Seen, MonitorInStep, InTurn, Socks
  <2> QED
    BY <2>1, <2>2, <2>3 DEF ClientInv
<1>2. ClientInv /\ [Next]_vars => ClientInv'
  <2> SUFFICES ASSUME ClientInv, [Next]_vars
               PROVE  ClientInv'
    OBVIOUS
  <2>1. TypeOK'
    BY NextType DEF ClientInv
  <2>2. Table'
    BY NextTable
  <2>3. Served'
    <3>1. CASE UNCHANGED vars
      <4>1. Waits' /\ Seen'
        BY <3>1 DEF ClientInv, Served, Waits, Seen, vars, daemon, links, history, program
      <4> QED
        BY <3>1, <4>1, QuietServed DEF vars, daemon, links, streams, machine, history
    <3> QED
      BY <3>1, LoopServed, MachineServed, ClientServed DEF Next, Loop, Machine, Breaks
  <2> QED
    BY <2>1, <2>2, <2>3 DEF ClientInv
<1> QED
  BY <1>1, <1>2, PTL DEF Spec

(* Every variable of the daemon's sockets and of the clients keeps its type *)
(* (s_fdMonitor names a descriptor or none: listenCallback finds one free). *)
THEOREM TypeCorrect == Spec => []TypeOK
<1>1. ClientInv => TypeOK
  BY DEF ClientInv
<1> QED
  BY <1>1, ClientInvariant, PTL

(* The monitor's last event is the phone's state, whatever the two threads  *)
(* of the daemon do to s_fdMonitor (sendto_monitor, listenCallback of       *)
(* upil_monitor.c).                                                         *)
THEOREM MonitorIsInStep == Spec => []MonitorInStep
<1>1. ClientInv => MonitorInStep
  BY DEF ClientInv, Served
<1> QED
  BY <1>1, ClientInvariant, PTL

(* A client that never timed out and never got an event for a reply is told *)
(* of success only for what the daemon has done since it asked              *)
(* (upil_ctrl_request, processCommandBuffer).                               *)
THEOREM AnswersAreOwn == Spec => AnswerIsOwn
<1> DEFINE A == \A c \in Clients \ (misled \cup gaveUp) :
                  (ReceiveReply(c) /\ Outcome(Head(rep[c])) = 0)
                    => did[c] /\ (asked[c] = "GET_STATE" => Head(rep[c]).text \in were[c])
<1>1. ClientInv => A
  <2> SUFFICES ASSUME ClientInv, NEW c \in Clients, c \notin misled, c \notin gaveUp,
                      ReceiveReply(c), Outcome(Head(rep[c])) = 0
               PROVE  did[c] /\ (asked[c] = "GET_STATE" => Head(rep[c]).text \in were[c])
    OBVIOUS
  <2>1. main[c] = "waiting" /\ rep[c] # <<>> /\ rep[c] \in Seq(Replies)
    BY DEF ReceiveReply, ClientInv, TypeOK, SocketsTypeOK
  <2>2. Head(rep[c]) = rep[c][1] /\ rep[c][1].head = "SUCCESS"
    BY <2>1 DEF Outcome
  <2> QED
    BY <2>1, <2>2, InTurnFor DEF ClientInv, Served
<1> QED
  BY <1>1, ClientInvariant, PTL DEF AnswerIsOwn
-----------------------------------------------------------------------------
(* The daemon and its clients implement SocketService.                     *)

Serving == [s \in Socks |-> {c \in Clients : conn[s][c] = "accepted"}]
Present == [s \in Socks |-> {c \in Clients : open[s][c]}]

(* A socket serves at most one client, and none while it is listened on. *)
LEMMA OneServed ==
  ASSUME TypeOK, Table, NEW s \in Socks
  PROVE  /\ \A c, d \in Clients : conn[s][c] = "accepted" /\ conn[s][d] = "accepted" => c = d
         /\ listening[s] => \A c \in Clients : conn[s][c] # "accepted"
<1>1. ASSUME NEW c \in Clients, conn[s][c] = "accepted"
      PROVE  \E f \in Fds : fd[f] = Link(s, c) /\ fd[f] # Unused /\ ~listening[s]
  <2>1. PICK f \in Fds : fd[f] = Link(s, c)
    BY <1>1 DEF Table, Descriptors
  <2>2. fd[f] # Unused
    BY <2>1 DEF Link, Unused
  <2>3. PICK r \in Socks, d \in Clients : fd[f] = Link(r, d) /\ ~listening[r]
    BY <2>2 DEF Table, Descriptors
  <2>4. r = s
    BY <2>1, <2>3 DEF Link
  <2> QED
    BY <2>1, <2>2, <2>3, <2>4
<1>2. ASSUME NEW c \in Clients, NEW d \in Clients,
             conn[s][c] = "accepted", conn[s][d] = "accepted"
      PROVE  c = d
  <2>1. PICK f \in Fds : fd[f] = Link(s, c) /\ fd[f] # Unused
    BY <1>1, <1>2
  <2>2. PICK g \in Fds : fd[g] = Link(s, d) /\ fd[g] # Unused
    BY <1>1, <1>2
  <2>3. fd[f].s = fd[g].s
    BY <2>1, <2>2 DEF Link
  <2>4. f = g
    BY <2>1, <2>2, <2>3 DEF Table, Descriptors
  <2> QED
    BY <2>1, <2>2, <2>4 DEF Link
<1> QED
  BY <1>1, <1>2

(* The service sees the daemon's sockets through these four values. *)
LEMMA ServiceSees ==
  /\ UNCHANGED <<alive, backlog, Serving, Present>> => UNCHANGED Service!ssVars
  /\ \A s, c : /\ alive /\ c \notin Serving[s] /\ \A i \in DOMAIN backlog[s] : backlog[s][i] # c
               /\ backlog' = [backlog EXCEPT ![s] = Append(@, c)]
               /\ Present' = [Present EXCEPT ![s] = @ \cup {c}]
               /\ UNCHANGED <<alive, Serving>>
               => Service!Join(s, c)
  /\ \A s : /\ alive /\ Serving[s] = {} /\ backlog[s] # <<>>
            /\ Serving' = [Serving EXCEPT ![s] = {Head(backlog[s])}]
            /\ backlog' = [backlog EXCEPT ![s] = Tail(@)]
            /\ UNCHANGED <<alive, Present>>
            => Service!Take(s)
  /\ \A s : /\ alive /\ Serving[s] # {} /\ Serving[s] \cap Present[s] = {}
            /\ Serving' = [Serving EXCEPT ![s] = {}]
            /\ UNCHANGED <<alive, backlog, Present>>
            => Service!Release(s)
  /\ \A S, c : /\ Present' = [s \in Socks |-> IF s \in S THEN Present[s] \ {c} ELSE Present[s]]
               /\ UNCHANGED <<alive, backlog, Serving>>
               => Service!HangUp(S, c)
  /\ /\ alive /\ alive' = FALSE /\ backlog' = [s \in Socks |-> <<>>]
     /\ Serving' = [s \in Socks |-> {}] /\ UNCHANGED Present
     => Service!End
<1>1. UNCHANGED <<alive, backlog, Serving, Present>> => UNCHANGED Service!ssVars
  BY DEF Service!ssVars, Serving, Present
<1>2. ASSUME NEW s, NEW c, alive, c \notin Serving[s],
             \A i \in DOMAIN backlog[s] : backlog[s][i] # c,
             backlog' = [backlog EXCEPT ![s] = Append(@, c)],
             Present' = [Present EXCEPT ![s] = @ \cup {c}], UNCHANGED <<alive, Serving>>
      PROVE  Service!Join(s, c)
  BY <1>2 DEF Service!Join, Serving, Present
<1>3. ASSUME NEW s, alive, Serving[s] = {}, backlog[s] # <<>>,
             Serving' = [Serving EXCEPT ![s] = {Head(backlog[s])}],
             backlog' = [backlog EXCEPT ![s] = Tail(@)], UNCHANGED <<alive, Present>>
      PROVE  Service!Take(s)
  BY <1>3 DEF Service!Take, Serving, Present
<1>4. ASSUME NEW s, alive, Serving[s] # {}, Serving[s] \cap Present[s] = {},
             Serving' = [Serving EXCEPT ![s] = {}], UNCHANGED <<alive, backlog, Present>>
      PROVE  Service!Release(s)
  BY <1>4 DEF Service!Release, Serving, Present
<1>5. ASSUME NEW S, NEW c, UNCHANGED <<alive, backlog, Serving>>,
             Present' = [s \in Socks |-> IF s \in S THEN Present[s] \ {c} ELSE Present[s]]
      PROVE  Service!HangUp(S, c)
  BY <1>5 DEF Service!HangUp, Serving, Present
<1>6. ASSUME alive, alive' = FALSE, backlog' = [s \in Socks |-> <<>>],
             Serving' = [s \in Socks |-> {}], UNCHANGED Present
      PROVE  Service!End
  BY <1>6 DEF Service!End, Serving, Present
<1> QED
  BY <1>1, <1>2, <1>3, <1>4, <1>5, <1>6

(* Steps that the service does not see. *)
LEMMA Unseen ==
  ASSUME UNCHANGED <<alive, backlog, conn, open>>
  PROVE  UNCHANGED Service!ssVars
<1>1. UNCHANGED <<Serving, Present>>
  BY DEF Serving, Present
<1> QED
  BY <1>1, ServiceSees

(* The daemon's end is the end of the service. *)
LEMMA DieEnds ==
  ASSUME alive, Die
  PROVE  Service!Next
<1>1. /\ alive' = FALSE /\ backlog' = [s \in Socks |-> <<>>]
      /\ conn' = [s \in Socks |-> [c \in Clients |-> "closed"]] /\ UNCHANGED open
  BY DEF Die
<1>2. Serving' = [s \in Socks |-> {}] /\ UNCHANGED Present
  BY <1>1 DEF Serving, Present
<1>3. Service!End
  BY <1>1, <1>2, ServiceSees
<1> QED
  BY <1>3 DEF Service!Next

(* connect() joins the clients that wait. *)
LEMMA ConnectsJoins ==
  ASSUME ClientInv, NEW s \in Socks, NEW c \in Clients, Connects(s, c),
         conn[s][c] \in {"none", "closed"}
  PROVE  Service!Next
<1>1. /\ conn \in [Socks -> [Clients -> {"none", "waiting", "accepted", "closed"}]]
      /\ open \in [Socks -> [Clients -> BOOLEAN]] /\ backlog \in [Socks -> Seq(Clients)]
  BY DEF ClientInv, TypeOK, SocketsTypeOK
<1>2. /\ alive /\ conn' = [conn EXCEPT ![s][c] = "waiting"]
      /\ open' = [open EXCEPT ![s][c] = TRUE]
      /\ backlog' = [backlog EXCEPT ![s] = Append(@, c)] /\ UNCHANGED alive
  BY DEF Connects, Reachable, machinery
<1>3. UNCHANGED Serving
  <2>1. \A r \in Socks, d \in Clients : conn'[r][d] = "accepted" <=> conn[r][d] = "accepted"
    BY <1>1, <1>2
  <2> QED
    BY <2>1 DEF Serving
<1>4. Present' = [Present EXCEPT ![s] = @ \cup {c}]
  <2>1. \A r \in Socks, d \in Clients : open'[r][d] <=> open[r][d] \/ (r = s /\ d = c)
    BY <1>1, <1>2
  <2>2. \A r \in Socks : {d \in Clients : open'[r][d]} =
          IF r = s THEN {d \in Clients : open[r][d]} \cup {c} ELSE {d \in Clients : open[r][d]}
    BY <2>1
  <2> QED
    BY <2>2 DEF Present
<1>5. c \notin Serving[s] /\ \A i \in DOMAIN backlog[s] : backlog[s][i] # c
  <2>1. Serving[s] = {d \in Clients : conn[s][d] = "accepted"}
    BY DEF Serving
  <2>2. backlog[s] \in Seq(Clients)
    BY <1>1
  <2>3. \A i \in 1..Len(backlog[s]) : conn[s][backlog[s][i]] = "waiting"
    BY DEF ClientInv, Served, Waits
  <2>4. DOMAIN backlog[s] = 1..Len(backlog[s])
    BY <2>2
  <2>5. \A i \in DOMAIN backlog[s] : backlog[s][i] # c
    BY <2>3, <2>4
  <2> QED
    BY <2>1, <2>5
<1>6. Service!Join(s, c)
  BY <1>2, <1>3, <1>4, <1>5, ServiceSees
<1> QED
  BY <1>6 DEF Service!Next

(* listenCallback takes the first that waits, and nobody is served then. *)
LEMMA AcceptTakes ==
  ASSUME ClientInv, NEW s \in Socks, Accept(s)
  PROVE  Service!Next
<1> DEFINE c == Head(backlog[s])
<1>1. /\ conn \in [Socks -> [Clients -> {"none", "waiting", "accepted", "closed"}]]
      /\ backlog \in [Socks -> Seq(Clients)]
  BY DEF ClientInv, TypeOK, SocketsTypeOK
<1>2. /\ alive /\ listening[s] /\ backlog[s] # <<>>
      /\ conn' = [conn EXCEPT ![s][c] = "accepted"]
      /\ backlog' = [backlog EXCEPT ![s] = Tail(@)] /\ UNCHANGED <<alive, open>>
  BY DEF Accept
<1>3. c \in Clients
  BY <1>1, <1>2
<1>4. \A d \in Clients : conn[s][d] # "accepted"
  BY <1>2, OneServed DEF ClientInv
<1> HIDE DEF c
<1>5. Serving[s] = {} /\ Serving' = [Serving EXCEPT ![s] = {c}]
  <2>1. \A r \in Socks, d \in Clients :
          conn'[r][d] = "accepted" <=> conn[r][d] = "accepted" \/ (r = s /\ d = c)
    BY <1>1, <1>2, <1>3
  <2>2. \A r \in Socks : {d \in Clients : conn'[r][d] = "accepted"} =
          IF r = s THEN {c} ELSE {d \in Clients : conn[r][d] = "accepted"}
    BY <1>3, <1>4, <2>1
  <2> QED
    BY <1>4, <2>2 DEF Serving
<1>6. UNCHANGED Present
  BY <1>2 DEF Present
<1>7. Service!Take(s)
  BY <1>2, <1>5, <1>6, ServiceSees DEF c
<1> QED
  BY <1>7 DEF Service!Next

(* The end of a stream releases the client that was served: it has hung up. *)
LEMMA DisconnectedReleases ==
  ASSUME ClientInv, NEW s \in Socks, NEW c \in Clients, Disconnected(s, c)
  PROVE  Service!Next
<1>1. /\ conn \in [Socks -> [Clients -> {"none", "waiting", "accepted", "closed"}]]
      /\ open \in [Socks -> [Clients -> BOOLEAN]]
  BY DEF ClientInv, TypeOK, SocketsTypeOK
<1>2. /\ alive /\ conn[s][c] = "accepted" /\ ~open[s][c]
      /\ conn' = [conn EXCEPT ![s][c] = "closed"] /\ UNCHANGED <<alive, backlog, open>>
  BY DEF Disconnected
<1>3. \A d \in Clients : conn[s][d] = "accepted" => d = c
  BY <1>2, OneServed DEF ClientInv
<1>4. Serving[s] = {c} /\ Serving' = [Serving EXCEPT ![s] = {}]
  <2>1. \A r \in Socks, d \in Clients :
          conn'[r][d] = "accepted" <=> conn[r][d] = "accepted" /\ ~(r = s /\ d = c)
    BY <1>1, <1>2
  <2>2. \A r \in Socks : {d \in Clients : conn'[r][d] = "accepted"} =
          IF r = s THEN {} ELSE {d \in Clients : conn[r][d] = "accepted"}
    BY <1>3, <2>1
  <2>3. {d \in Clients : conn[s][d] = "accepted"} = {c}
    BY <1>2, <1>3
  <2> QED
    BY <2>2, <2>3 DEF Serving
<1>5. UNCHANGED Present /\ Present[s] = {d \in Clients : open[s][d]}
  BY <1>2 DEF Present
<1>6. Serving[s] # {} /\ Serving[s] \cap Present[s] = {}
  BY <1>2, <1>4, <1>5
<1>7. Service!Release(s)
  BY <1>2, <1>4, <1>5, <1>6, ServiceSees
<1> QED
  BY <1>7 DEF Service!Next

(* A client closes its side of some sockets, and nothing else changes for them. *)
Closes(S, c) ==
  /\ UNCHANGED <<alive, backlog, conn>>
  /\ \A s \in Socks, d \in Clients : open'[s][d] <=> open[s][d] /\ ~(s \in S /\ d = c)

(* That is a client's hanging up. *)
LEMMA ClosesHangsUp ==
  ASSUME NEW S \in SUBSET Socks, NEW c \in Clients, Closes(S, c)
  PROVE  Service!Next
<1> USE DEF Closes
<1>1. UNCHANGED Serving
  BY DEF Serving
<1>2. Present' = [s \in Socks |-> IF s \in S THEN Present[s] \ {c} ELSE Present[s]]
  <2>1. \A s \in Socks : {d \in Clients : open'[s][d]} =
          IF s \in S THEN {d \in Clients : open[s][d]} \ {c} ELSE {d \in Clients : open[s][d]}
    OBVIOUS
  <2> QED
    BY <2>1 DEF Present
<1>3. Service!HangUp(S, c)
  BY <1>1, <1>2, ServiceSees
<1> QED
  BY <1>3 DEF Service!Next

(* Every step of the daemon and of the clients is a step of the service or is not
   seen by it. *)
LEMMA ServiceStep ==
  ASSUME ClientInv, [Next]_vars
  PROVE  [Service!Next]_Service!ssVars
<1>1. CASE UNCHANGED <<alive, backlog, conn, open>>
  BY <1>1, Unseen
<1>2. CASE alive /\ Die
  BY <1>2, DieEnds
<1>3. CASE Loop \/ Breaks
  <2>1. ASSUME NEW c \in Clients, ProcessCommand(c) PROVE [Service!Next]_Service!ssVars
    BY <1>1, <1>2, <2>1 DEF ProcessCommand, links
  <2>2. ASSUME NEW s \in Socks, SetupSocket(s) \/ SetupFails(s)
        PROVE  [Service!Next]_Service!ssVars
    BY <1>1, <2>2 DEF SetupSocket, SetupFails
  <2>3. ASSUME NEW s \in Socks, AcceptFails(s) PROVE [Service!Next]_Service!ssVars
    BY <1>2, <2>3 DEF AcceptFails
  <2> QED
    BY <1>3, <2>1, <2>2, <2>3, AcceptTakes, DisconnectedReleases DEF Loop, MainLoop, Breaks
<1>4. CASE Machine
  <2>1. ASSUME NEW e, NEW rest, alive, Sends(e, rest) PROVE [Service!Next]_Service!ssVars
    BY <1>1, <1>2, <2>1 DEF Sends, links
  <2> QED
    BY <1>1, <1>4, <2>1 DEF Machine, TakeMessage, PhoneEvent, links
<1>5. ASSUME NEW c \in Clients, MainThread(c) \/ Reader(c) \/ User(c)
      PROVE  [Service!Next]_Service!ssVars
  <2>0. open \in [Socks -> [Clients -> BOOLEAN]]
    BY DEF ClientInv, TypeOK, SocketsTypeOK
  <2>1. CASE ConnectCtrl(c)
    BY <2>1, ConnectsJoins DEF ConnectCtrl, Socks, ClientInv, Served, Waits
  <2>2. CASE ConnectMonitor(c)
    BY <2>2, ConnectsJoins DEF ConnectMonitor, Socks, ClientInv, Served, Waits
  <2>3. CASE Exit(c)
    <3>1. /\ alive' = alive /\ backlog' = backlog /\ conn' = conn
          /\ open' = [s \in Socks |-> [open[s] EXCEPT ![c] = FALSE]]
      BY <2>3 DEF Exit, machinery
    <3>2. Closes(Socks, c)
      BY <2>0, <3>1 DEF Closes
    <3>3. Socks \in SUBSET Socks
      OBVIOUS
    <3>4. Service!Next
      BY <3>2, <3>3, ClosesHangsUp, Zenon
    <3> QED
      BY <3>4
  <2>4. CASE SendRequest(c)
    BY <1>1, <2>3, <2>4 DEF SendRequest, machinery
  <2>5. CASE Returns(c) \/ ReceiveEvents(c)
    BY <1>1, <2>5 DEF Returns, ReceiveEvents, machinery
  <2>6. CASE Disconnect(c)
    <3>1. /\ alive' = alive /\ backlog' = backlog /\ conn' = conn
          /\ open' = [open EXCEPT !["cmd"][c] = FALSE, !["evt"][c] = open["evt"][c]]
      BY <2>6 DEF Disconnect, AfterMonitorDisconnect, machinery
    <3>2. Closes({"cmd"}, c)
      BY <2>0, <3>1 DEF Closes, Socks
    <3>3. {"cmd"} \in SUBSET Socks
      BY DEF Socks
    <3>4. Service!Next
      BY <3>2, <3>3, ClosesHangsUp, Zenon
    <3> QED
      BY <3>4
  <2> QED
    BY <1>5, <2>1, <2>2, <2>3, <2>4, <2>5, <2>6
       DEF MainThread, Reader, User, ConnectFails, ReturnFromMain, KillSelf,
           ReceiveReply, ReceiveEnd, RequestTimesOut
<1>6. CASE UNCHANGED vars
  BY <1>1, <1>6 DEF vars, daemon, links
<1> QED
  BY <1>3, <1>4, <1>5, <1>6 DEF Next

(* The daemon's sockets and their clients implement SocketService: each socket serves
   one client at a time, in the order in which they connected, until it hangs up or
   the daemon ends (listenCallback, processCommandsCallback, event_monitor_cb). *)
THEOREM ImplementsSocketService == Spec => SocketServiceSpec
<1>1. Init => Service!Init
  BY DEF Init, SocketsInit, Service!Init
<1>2. ClientInv /\ [Next]_vars => [Service!Next]_Service!ssVars
  BY ServiceStep
<1> QED
  BY <1>1, <1>2, ClientInvariant, PTL DEF Spec, SocketServiceSpec, Service!Spec
=============================================================================
