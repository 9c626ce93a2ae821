--------------------------- MODULE SocketService ----------------------------
(***************************************************************************)
(* What upil_command.c and upil_monitor.c promise to the programs that     *)
(* connect: on each socket one client is served at a time, the clients     *)
(* come in the order in which they connected, and a client that is served  *)
(* keeps its place until it hangs up or the daemon ends.  ClientLib with   *)
(* DaemonSockets implements this specification (descriptors, listening,    *)
(* requests and events are not visible here).                              *)
(***************************************************************************)
EXTENDS Integers, Sequences

CONSTANTS Socks, Clients

VARIABLES
  up,       \* the daemon runs
  waiting,  \* waiting[s]: the clients that wait at socket s, in order
  serving,  \* serving[s]: the client that is served, if any
  present   \* present[s]: the clients that have connected and not hung up

ssVars == <<up, waiting, serving, present>>

Init ==
  /\ up = TRUE
  /\ waiting = [s \in Socks |-> <<>>]
  /\ serving = [s \in Socks |-> {}]
  /\ present = [s \in Socks |-> {}]

\* c connects, and waits behind those that wait already.
Join(s, c) ==
  /\ up
  /\ c \notin serving[s]
  /\ \A i \in DOMAIN waiting[s] : waiting[s][i] # c
  /\ waiting' = [waiting EXCEPT ![s] = Append(@, c)]
  /\ present' = [present EXCEPT ![s] = @ \cup {c}]
  /\ UNCHANGED <<up, serving>>

\* Nobody is served, so the first that waits is.
Take(s) ==
  /\ up
  /\ serving[s] = {}
  /\ waiting[s] # <<>>
  /\ serving' = [serving EXCEPT ![s] = {Head(waiting[s])}]
  /\ waiting' = [waiting EXCEPT ![s] = Tail(@)]
  /\ UNCHANGED <<up, present>>

\* The client that was served has hung up.
Release(s) ==
  /\ up
  /\ serving[s] # {}
  /\ serving[s] \cap present[s] = {}
  /\ serving' = [serving EXCEPT ![s] = {}]
  /\ UNCHANGED <<up, waiting, present>>

\* c closes its side of the sockets S.
HangUp(S, c) ==
  /\ present' = [s \in Socks |-> IF s \in S THEN present[s] \ {c} ELSE present[s]]
  /\ UNCHANGED <<up, waiting, serving>>

\* The daemon ends, and with it every connection.
End ==
  /\ up
  /\ up' = FALSE
  /\ waiting' = [s \in Socks |-> <<>>]
  /\ serving' = [s \in Socks |-> {}]
  /\ UNCHANGED present

Next ==
  \/ \E s \in Socks : Take(s) \/ Release(s) \/ \E c \in Clients : Join(s, c)
  \/ \E S \in SUBSET Socks, c \in Clients : HangUp(S, c)
  \/ End

Spec == Init /\ [][Next]_ssVars
=============================================================================
