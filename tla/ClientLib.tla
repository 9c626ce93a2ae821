----------------------------- MODULE ClientLib ------------------------------
(***************************************************************************)
(* The client library, upil_ctrl.c, in the program that comes with it,     *)
(* upil_client.c: the main thread connects and sends requests, each with   *)
(* three seconds for its reply, and a second thread receives the events    *)
(* and kills the process when it cannot.                                   *)
(***************************************************************************)
EXTENDS DaemonSockets

CONSTANTS
  Requests,      \* what the user types
  MaxRequests    \* bound on the requests of all clients

ASSUME ClientAssumption ==
  /\ Requests \subseteq Ops
  /\ MaxRequests \in Nat

VARIABLES
  main,      \* main[c]: where the main thread of client c is
  reads,     \* reads[c]: readLoop runs
  asked,     \* asked[c]: the request that waits for its reply
  view,      \* view[c]: the last state readLoop has printed
  sent,      \* requests so far
  gaveUp     \* history: clients one of whose requests timed out

program == <<main, reads, asked, view, sent, gaveUp>>
vars == <<daemon, program>>

TypeOK ==
  /\ SocketsTypeOK
  /\ main \in [Clients -> {"start", "half", "ready", "waiting", "closing", "gone"}]
  /\ reads \in [Clients -> BOOLEAN]
  /\ asked \in [Clients -> Ops]
  /\ view \in [Clients -> States \cup {"unknown"}]
  /\ sent \in 0..MaxRequests
  /\ gaveUp \subseteq Clients

Init ==
  /\ SocketsInit
  /\ main = [c \in Clients |-> "start"]
  /\ reads = [c \in Clients |-> FALSE]
  /\ asked = [c \in Clients |-> "OTHER"]
  /\ view = [c \in Clients |-> "unknown"]
  /\ sent = 0
  /\ gaveUp = {}

machinery == <<alive, bound, listening, fd, s_fdMonitor, machine, faults>>
reading == <<reads, view>>

\* The process ends: the kernel closes what it has open.
Exit(c) ==
  /\ main' = [main EXCEPT ![c] = "gone"]
  /\ reads' = [reads EXCEPT ![c] = FALSE]
  /\ open' = [s \in Socks |-> [open[s] EXCEPT ![c] = FALSE]]
  /\ rep' = [rep EXCEPT ![c] = <<>>]
  /\ evts' = [evts EXCEPT ![c] = <<>>]
  /\ asked' = [asked EXCEPT ![c] = "OTHER"]
  /\ view' = [view EXCEPT ![c] = "unknown"]
  /\ did' = [did EXCEPT ![c] = FALSE]
  /\ were' = [were EXCEPT ![c] = {}]
  /\ since' = [since EXCEPT ![c] = FALSE]
  /\ misled' = misled \ {c}
  /\ gaveUp' = gaveUp \ {c}
  /\ UNCHANGED <<machinery, backlog, conn, req, sent>>

\* connect() joins the backlog of socket s.
Connects(s, c) ==
  /\ Reachable(s)
  /\ conn' = [conn EXCEPT ![s][c] = "waiting"]
  /\ open' = [open EXCEPT ![s][c] = TRUE]
  /\ backlog' = [backlog EXCEPT ![s] = Append(@, c)]
  /\ UNCHANGED <<machinery, streams, history>>

\* upil_ctrl_connect.
ConnectCtrl(c) ==
  /\ main[c] = "start"
  /\ Connects("cmd", c)
  /\ main' = [main EXCEPT ![c] = "half"]
  /\ UNCHANGED <<reading, asked, sent, gaveUp>>

\* upil_monitor_connect; with both, main starts readLoop.
ConnectMonitor(c) ==
  /\ main[c] = "half"
  /\ Connects("evt", c)
  /\ main' = [main EXCEPT ![c] = "ready"]
  /\ reads' = [reads EXCEPT ![c] = TRUE]
  /\ UNCHANGED <<view, asked, sent, gaveUp>>

\* upil_connect fails, for the second socket after upil_ctrl_disconnect: the program
\* ends.
ConnectFails(c, step, s) ==
  /\ main[c] = step
  /\ ~Reachable(s)
  /\ Exit(c)

\* The send() of upil_ctrl_request; the program does not ignore SIGPIPE either.
SendRequest(c) ==
  /\ main[c] = "ready"
  /\ sent < MaxRequests
  /\ \E op \in Requests :
       IF ~alive THEN Exit(c)
       ELSE /\ req' = [req EXCEPT ![c] = Append(@, op)]
            /\ main' = [main EXCEPT ![c] = "waiting"]
            /\ asked' = [asked EXCEPT ![c] = op]
            /\ sent' = sent + 1
            /\ did' = [did EXCEPT ![c] = FALSE]
            /\ were' = [were EXCEPT ![c] = IF op = "GET_STATE" THEN {phone} ELSE {}]
            /\ UNCHANGED <<machinery, backlog, conn, open, rep, evts, since, misled,
                           reading, gaveUp>>

\* upil_ctrl_request returns; the wrappers know no more than zero or not.
Returns(c) ==
  /\ main' = [main EXCEPT ![c] = "ready"]
  /\ asked' = [asked EXCEPT ![c] = "OTHER"]
  /\ did' = [did EXCEPT ![c] = FALSE]
  /\ were' = [were EXCEPT ![c] = {}]
  /\ UNCHANGED <<machinery, backlog, conn, open, req, evts, since, misled, reading, sent>>

\* The reply decides on the result; an event in its place counts as a failure.
Outcome(r) == IF r.head = "SUCCESS" THEN 0 ELSE -3

\* recv() takes all that is there, and the first reply decides.
ReceiveReply(c) ==
  /\ main[c] = "waiting"
  /\ rep[c] # <<>>
  /\ Returns(c)
  /\ rep' = [rep EXCEPT ![c] = <<>>]
  /\ UNCHANGED gaveUp

\* The daemon has gone: recv() fails or returns 0, an empty reply.
ReceiveEnd(c) ==
  /\ main[c] = "waiting"
  /\ rep[c] = <<>>
  /\ ~alive
  /\ Returns(c)
  /\ UNCHANGED <<rep, gaveUp>>

\* select() returns after three seconds.
RequestTimesOut(c) ==
  /\ main[c] = "waiting"
  /\ rep[c] = <<>>
  /\ alive
  /\ Returns(c)
  /\ gaveUp' = gaveUp \cup {c}
  /\ UNCHANGED rep

\* upil_monitor_disconnect closes s_fd_monitor, which upil_ctrl_disconnect has set
\* to -1 by then: the socket stays as it is until the process ends.
AfterMonitorDisconnect(c) == open["evt"][c]

\* EXIT and upil_disconnect: upil_ctrl_disconnect closes the command socket.
Disconnect(c) ==
  /\ main[c] = "ready"
  /\ open' = [open EXCEPT !["cmd"][c] = FALSE, !["evt"][c] = AfterMonitorDisconnect(c)]
  /\ main' = [main EXCEPT ![c] = "closing"]
  /\ UNCHANGED <<machinery, backlog, conn, streams, history, reading, asked, sent, gaveUp>>

ReturnFromMain(c) ==
  /\ main[c] = "closing"
  /\ Exit(c)

\* What is known when all of s has been printed.
LastState(known, s) == IF s = <<>> THEN known ELSE s[Len(s)]

\* upil_monitor_recv in readLoop: everything there is, without separators.
ReceiveEvents(c) ==
  /\ reads[c]
  /\ evts[c] # <<>>
  /\ view' = [view EXCEPT ![c] = LastState(@, evts[c])]
  /\ evts' = [evts EXCEPT ![c] = <<>>]
  /\ UNCHANGED <<machinery, backlog, conn, open, req, rep, history, main, reads, asked,
                 sent, gaveUp>>

\* Variant: the end of the stream is no error.
ReadEndsNever(c) == FALSE
ReadEnds(c) == reads[c] /\ evts[c] = <<>> /\ ~alive

\* upil_monitor_recv fails: kill(0, SIGKILL).
KillSelf(c) ==
  /\ ReadEnds(c)
  /\ Exit(c)

\* What the program does of itself, and what its user does.
MainThread(c) ==
  \/ ConnectMonitor(c) \/ ConnectFails(c, "half", "evt") \/ ReturnFromMain(c)
  \/ ReceiveReply(c) \/ ReceiveEnd(c) \/ RequestTimesOut(c)
Reader(c) == ReceiveEvents(c) \/ KillSelf(c)
User(c) == ConnectCtrl(c) \/ ConnectFails(c, "start", "cmd") \/ SendRequest(c) \/ Disconnect(c)

Machine == (TakeMessage \/ PhoneEvent) /\ UNCHANGED program
Loop == MainLoop /\ UNCHANGED program
Breaks == (\E s \in Socks : SetupFails(s) \/ AcceptFails(s)) /\ UNCHANGED program

Next ==
  \/ Loop
  \/ Machine
  \/ Breaks
  \/ \E c \in Clients : MainThread(c) \/ Reader(c) \/ User(c)

\* The threads of the daemon and of the clients go on; users and faults need not.
Fairness ==
  /\ WF_vars(Loop)
  /\ \A c \in Clients : WF_vars(MainThread(c)) /\ WF_vars(Reader(c))

Spec == Init /\ [][Next]_vars /\ Fairness

-----------------------------------------------------------------------------
(* What a client can rely on.                                              *)

\* Unless one of its requests has timed out or an event came in place of a reply,
\* a client that is told of success has been served by the daemon since it asked,
\* and the state it gets is one the phone has been in since then
\* (upil_ctrl_request, processCommandBuffer, process_reply).
AnswerIsOwn ==
  [][\A c \in Clients \ (misled \cup gaveUp) :
       (ReceiveReply(c) /\ Outcome(Head(rep[c])) = 0)
         => did[c] /\ (asked[c] = "GET_STATE" => Head(rep[c]).text \in were[c])]_vars

\* What the daemon's monitor has printed and is about to print ends with the
\* phone's state once that has changed under its eyes, although the descriptor is
\* replaced by another thread (sendto_monitor, listenCallback of upil_monitor.c).
MonitorInStep ==
  \A c \in Clients :
    (alive /\ conn["evt"][c] = "accepted" /\ main[c] \in {"ready", "waiting"} /\ since[c])
      => LastState(view[c], evts[c]) = phone

\* The daemon and its clients implement SocketService: a client is served while the
\* daemon has accepted it, and present while its own side is open.
Service == INSTANCE SocketService WITH
  up <- alive,
  waiting <- backlog,
  serving <- [s \in Socks |-> {c \in Clients : conn[s][c] = "accepted"}],
  present <- [s \in Socks |-> {c \in Clients : open[s][c]}]

\* Each socket serves one client at a time, in the order in which they connected and
\* until it hangs up (listenCallback takes s_listen_event off the loop, the end of the
\* stream puts it back).
SocketServiceSpec == Service!Spec

\* Clients never wait for good while nobody is served: when one leaves, however
\* it does, the next is accepted (processCommandsCallback and event_monitor_cb
\* listen again; while it is served a client may stay as long as it likes).
Occupied(s) == \E c \in Clients : conn[s][c] = "accepted" /\ open[s][c]
NextClientServed == \A s \in Socks : []<>(backlog[s] = <<>> \/ Occupied(s))

\* When the daemon is gone every client program ends (readLoop).
ClientNotices ==
  \A c \in Clients : []<>(alive \/ main[c] \in {"start", "gone"})
=============================================================================
