----------------------------- MODULE RilDriver ------------------------------
(***************************************************************************)
(* The RIL driver, ril-telephone/ril-telephone.c, with its AT channel and  *)
(* the daemon at the other end.  The RIL library is external: it calls     *)
(* onRequest and the timed callbacks from one thread, one after the other, *)
(* and looks at the calls again when it is told that they changed or when  *)
(* a call request completes.                                               *)
(***************************************************************************)
EXTENDS AtChannel, RilSocket, AtTok

CONSTANTS
  Requests,     \* the requests the framework makes
  MaxRequests,  \* bound on their number
  MaxTotal      \* bound on requests, events and faults together

ASSUME RequestAssumption == {MaxRequests, MaxTotal} \subseteq Nat

VARIABLES
  sState, s_closed,
  mn,       \* mainLoop: "connect", "sleep" or "wait"
  late,     \* closed readers that have yet to call setRadioState
  inits,    \* initializeCallbacks requested
  repoll,   \* whether sendCallStateChanged was requested
  requests, \* requests so far
  overtaken \* history: mainLoop went on before the reader had called setRadioState

driver == <<sState, s_closed, mn, late, inits, repoll, requests, overtaken>>
vars == <<wire, channel, daemon, driver>>

RadioStates == {"UNAVAILABLE", "OFF", "SIM_NOT_READY", "SIM_READY"}

TypeOK ==
  /\ WireTypeOK
  /\ ChannelTypeOK
  /\ DaemonTypeOK
  /\ sState \in RadioStates
  /\ s_closed \in {0, 1}
  /\ mn \in {"connect", "sleep", "wait"}
  /\ late \in 0..MaxFaults
  /\ inits \in Nat
  /\ repoll \in BOOLEAN
  /\ requests \in 0..MaxRequests
  /\ overtaken \in BOOLEAN

Init ==
  /\ link = "down"
  /\ down = <<>>
  /\ up = <<>>
  /\ ChannelInit
  /\ DaemonInit
  /\ sState = "UNAVAILABLE"
  /\ s_closed = 0
  /\ mn = "connect"
  /\ late = 0
  /\ inits = 0
  /\ repoll = FALSE
  /\ requests = 0
  /\ overtaken = FALSE

Budget == events + requests + faults < MaxTotal

-----------------------------------------------------------------------------
(* setRadioState.                                                          *)

\* Variant: a closed channel does not force the state.
RadioAsAsked(s) == s

\* The state setRadioState(s) really sets.
RadioFor(s) == IF s_closed > 0 THEN "UNAVAILABLE" ELSE s

\* Variant: only a change wakes waitForClose.
SetRadioStateChange(s) ==
  /\ sState' = RadioFor(s)
  /\ mn' = IF mn = "wait" /\ s_closed = 1 /\ RadioFor(s) # sState THEN "connect" ELSE mn

\* It wakes waitForClose whenever the state changes or the channel is closed.
SetRadioState(s) ==
  /\ sState' = RadioFor(s)
  /\ mn' = IF mn = "wait" /\ s_closed = 1 THEN "connect" ELSE mn

-----------------------------------------------------------------------------
(* The reader thread's callbacks.                                          *)

\* onUnsolicited.
OnUnsolicited(l) ==
  told' = (told \/ (sState # "UNAVAILABLE" /\ l.t \in {"RING", "NO_CARRIER"}))

ReaderReads ==
  /\ ReadLine
  /\ UNCHANGED <<daemon, driver>>

ReaderLine ==
  /\ ProcessLine
  /\ IF IsUnsolicited(Head(s_ATBuffer)) THEN OnUnsolicited(Head(s_ATBuffer))
     ELSE UNCHANGED told
  /\ UNCHANGED <<socket, machine, driver>>

ReaderEnd ==
  /\ OnReaderClosed
  /\ UNCHANGED <<daemon, driver>>

\* onATReaderClosed, up to the call of setRadioState.
OnATReaderClosed ==
  /\ AtClose
  /\ s_closed' = 1
  /\ late' = late + 1
  /\ UNCHANGED <<sState, mn, inits, repoll, requests, overtaken, daemon>>

ReaderRadio ==
  /\ late > 0
  /\ late' = late - 1
  /\ SetRadioState("UNAVAILABLE")
  /\ UNCHANGED <<wire, channel, daemon, s_closed, inits, repoll, requests, overtaken>>

-----------------------------------------------------------------------------
(* mainLoop.                                                               *)

\* Variant: s_closed is not reset.
MainConnectClosed ==
  /\ mn = "connect"
  /\ AtOpen
  /\ Accept
  /\ dropped' = FALSE
  /\ spoiled' = (s_wait_response # "no")
  /\ inits' = inits + 1
  /\ mn' = "sleep"
  /\ overtaken' = (late > 0)
  /\ UNCHANGED <<sState, s_closed, late, repoll, requests, told>>

\* Connecting succeeds when the daemon listens; at_open and the timed callback.
MainConnect ==
  /\ mn = "connect"
  /\ AtOpen
  /\ Accept
  /\ dropped' = FALSE
  /\ spoiled' = (s_wait_response # "no")
  /\ s_closed' = 0
  /\ inits' = inits + 1
  /\ mn' = "sleep"
  /\ overtaken' = (late > 0)
  /\ UNCHANGED <<sState, late, repoll, requests, told>>

\* sleep(1), then waitForClose looks at s_closed for the first time.
MainSleeps ==
  /\ mn = "sleep"
  /\ mn' = IF s_closed = 1 THEN "connect" ELSE "wait"
  /\ UNCHANGED <<wire, channel, daemon, sState, s_closed, late, inits, repoll, requests,
                 overtaken>>

-----------------------------------------------------------------------------
(* The request thread.                                                     *)

\* initializeCallback, up to at_handshake.
InitializeCallback ==
  /\ rq = "idle"
  /\ inits > 0
  /\ inits' = inits - 1
  /\ SetRadioState("OFF")
  /\ AtSend("ATE0")
  /\ UNCHANGED <<wire, s_fd, s_readerClosed, sp_response, rd, s_ATBuffer, faults, dropped,
                 spoiled, daemon, s_closed, late, repoll, requests, overtaken>>

\* sendCallStateChanged.
SendCallStateChanged ==
  /\ rq = "idle"
  /\ repoll
  /\ repoll' = FALSE
  /\ told' = TRUE
  /\ UNCHANGED <<wire, channel, socket, machine, sState, s_closed, mn, late, inits, requests,
                 overtaken>>

\* The command onRequest sends for a request, "none" if it sends none.
CommandOf(r) ==
  CASE r = "GET_CURRENT_CALLS" -> "CLCC"
    [] r = "DIAL" -> "ATD"
    [] r \in {"HANGUP", "HANGUP_WAITING", "HANGUP_FOREGROUND"} -> "CHLD"
    [] r = "ANSWER" -> "ATA"
    [] r = "UDUB" -> "ATH"
    [] OTHER -> "none"

\* onRequest's early returns.
Refused(r) ==
  \/ sState = "UNAVAILABLE" /\ r # "GET_SIM_STATUS"
  \/ sState = "OFF" /\ r \notin {"RADIO_ON", "RADIO_OFF", "GET_SIM_STATUS"}

\* requestRadioPower.
RadioPower(r) ==
  CASE r = "RADIO_OFF" /\ sState # "OFF" -> SetRadioState("OFF") /\ UNCHANGED rq
    [] r = "RADIO_ON" /\ sState = "OFF" -> UNCHANGED <<sState, mn>> /\ rq' = "radio"
    [] OTHER -> UNCHANGED <<sState, mn, rq>>

\* onRequest, for a request that needs no command.
RequestLocal(r) ==
  /\ rq = "idle"
  /\ requests < MaxRequests
  /\ Refused(r) \/ CommandOf(r) = "none"
  /\ requests' = requests + 1
  /\ IF Refused(r) THEN UNCHANGED <<sState, mn, rq>> ELSE RadioPower(r)
  /\ UNCHANGED <<wire, cmd, tries, s_fd, s_readerClosed, sp_response, rd, s_ATBuffer, faults,
                 dropped, spoiled, daemon, s_closed, late, inits, repoll, overtaken>>

\* onRequest for a request that sends a command.
RequestCommand(r) ==
  /\ rq = "idle"
  /\ requests < MaxRequests
  /\ ~Refused(r)
  /\ CommandOf(r) # "none"
  /\ requests' = requests + 1
  /\ AtSend(CommandOf(r))
  /\ UNCHANGED <<wire, s_fd, s_readerClosed, sp_response, rd, s_ATBuffer, faults, dropped,
                 spoiled, daemon, sState, s_closed, mn, late, inits, repoll, overtaken>>

SendStep ==
  /\ WriteText \/ WriteCR \/ HandshakePause
  /\ UNCHANGED <<daemon, driver>>

\* The call that requestGetCurrentCalls reads in a line the daemon wrote.
StateOf(t) == CASE t = "+CLCC:0" -> "0" [] t = "+CLCC:2" -> "2" [] OTHER -> "4"
CallOf(t, dir, number) == callFromCLCCLine(ClccLine(dir, StateOf(t), number))

\* What the caller of at_send_command does with its result.  needRepoll is read
\* off the line here; ClccUnderstood is what makes that right.
Completes(failed) ==
  LET good == ~failed /\ isFinalResponseSuccess(sp_response.final)
      ringing == \E i \in DOMAIN sp_response.calls : sp_response.calls[i] # "+CLCC:0"
  IN  IF cmd = "ATE0" THEN HandshakeTry(failed) /\ UNCHANGED <<told, repoll>>
      ELSE /\ rq' = IF cmd = "ATC" THEN "radio" ELSE "idle"
           /\ cmd' = "none"
           /\ tries' = 0
           /\ told' = (told \/ (IF cmd = "CLCC" THEN ~good ELSE cmd # "ATC"))
           /\ repoll' = (repoll \/ (cmd = "CLCC" /\ good /\ ringing))

\* at_send_command_full_nolock returns.
SendFails ==
  /\ WriteFails
  /\ ClearPending(FALSE)
  /\ Completes(TRUE)
  /\ UNCHANGED <<link, s_fd, s_readerClosed, rd, faults, dropped, socket, machine, sState,
                 s_closed, mn, late, inits, requests, overtaken>>

\* The marks of what the daemon still owes.
DaemonStray == posted' = Stray(posted) /\ s_wait_response' = Stray(s_wait_response)

SendReturns ==
  /\ Answered
  /\ ClearPending(sp_response.by # "own")
  /\ DaemonStray
  /\ Completes(s_readerClosed = 1)
  /\ UNCHANGED <<link, s_fd, s_readerClosed, rd, faults, dropped, listening, replying, machine, sState,
                 s_closed, mn, late, inits, requests, overtaken>>

SendTimesOut ==
  /\ Budget
  /\ TimesOut
  /\ ClearPending(TRUE)
  /\ DaemonStray
  /\ Completes(TRUE)
  /\ UNCHANGED <<link, s_fd, s_readerClosed, rd, dropped, listening, replying, machine, sState,
                 s_closed, mn, late, inits, requests, overtaken>>

\* setRadioState(RADIO_STATE_SIM_NOT_READY), then onRadioPowerOn.
RadioOn ==
  /\ rq = "radio"
  /\ SetRadioState("SIM_NOT_READY")
  /\ rq' = IF sState' # sState /\ sState' = "SIM_NOT_READY" THEN "poll" ELSE "idle"
  /\ UNCHANGED <<wire, cmd, tries, s_fd, s_readerClosed, sp_response, rd, s_ATBuffer, faults,
                 dropped, spoiled, daemon, s_closed, late, inits, repoll, requests, overtaken>>

\* pollSIMState; the framework polls everything when the radio comes up.
PollSIMState ==
  /\ rq = "poll"
  /\ rq' = "idle"
  /\ IF sState = "SIM_NOT_READY"
     THEN SetRadioState("SIM_READY") /\ told' = (told \/ sState' = "SIM_READY")
     ELSE UNCHANGED <<sState, mn, told>>
  /\ UNCHANGED <<wire, cmd, tries, s_fd, s_readerClosed, sp_response, rd, s_ATBuffer, faults,
                 dropped, spoiled, socket, machine, s_closed, late, inits, repoll, requests,
                 overtaken>>

-----------------------------------------------------------------------------
(* The ends of the two processes; init starts them again.                  *)

\* The driver's process ends, by itself or on the response at_open took away.
RildRestart ==
  /\ link' = IF link = "up" THEN "gone" ELSE IF link = "eof" THEN "down" ELSE link
  /\ down' = StrayAll(down)
  /\ up' = <<>>
  /\ rq' = "idle"
  /\ cmd' = "none"
  /\ tries' = 0
  /\ s_fd' = "none"
  /\ s_readerClosed' = 0
  /\ sp_response' = NoResponse
  /\ rd' = "none"
  /\ s_ATBuffer' = <<>>
  /\ dropped' = FALSE
  /\ spoiled' = FALSE
  /\ DaemonStray
  /\ sState' = "UNAVAILABLE"
  /\ s_closed' = 0
  /\ mn' = "connect"
  /\ late' = 0
  /\ inits' = 0
  /\ repoll' = FALSE
  /\ overtaken' = FALSE
  /\ UNCHANGED <<listening, replying, machine, told, requests>>

RildDies ==
  /\ faults < MaxFaults
  /\ faults' = faults + 1
  /\ RildRestart

RildFaults ==
  /\ NullResponse
  /\ RildRestart
  /\ UNCHANGED faults

DaemonDies ==
  /\ faults < MaxFaults
  /\ faults' = faults + 1
  /\ DaemonRestart
  /\ UNCHANGED <<up, events, rq, cmd, tries, s_fd, s_readerClosed, sp_response, rd, s_ATBuffer,
                 dropped, spoiled, driver>>

-----------------------------------------------------------------------------

ReaderNext == ReaderReads \/ ReaderLine \/ ReaderEnd \/ OnATReaderClosed \/ ReaderRadio
MainNext == MainConnect \/ MainSleeps
SendNext == SendStep \/ SendFails \/ SendReturns \/ SendTimesOut
RequestNext == InitializeCallback \/ SendCallStateChanged \/ SendNext \/ RadioOn \/ PollSIMState

SocketNext ==
  /\ ProcessCommands \/ SetWait \/ WriteResult \/ Disconnected
  /\ UNCHANGED <<channel, driver>>

MachineNext ==
  /\ TakeHandfree \/ HookMoved \/ PhoneTimer
  /\ UNCHANGED <<channel, driver>>

WorldNext ==
  /\ Budget
  /\ \/ PhoneEvent /\ UNCHANGED <<channel, driver>>
     \/ \E r \in Requests : RequestLocal(r) \/ RequestCommand(r)
     \/ RildDies
     \/ DaemonDies

Next ==
  \/ ReaderNext
  \/ MainNext
  \/ RequestNext
  \/ RildFaults
  \/ SocketNext
  \/ MachineNext
  \/ WorldNext

Spec ==
  /\ Init
  /\ [][Next]_vars
  /\ WF_vars(ReaderNext)
  /\ WF_vars(MainNext)
  /\ WF_vars(RequestNext)
  /\ WF_vars(RildFaults)
  /\ WF_vars(SocketNext)
  /\ WF_vars(MachineNext)

-----------------------------------------------------------------------------
(* Properties.                                                             *)

\* A command ends with the final response of another command only after an
\* earlier command ended without its own: by the handshake's timeout, which keeps
\* the lock through the pause meant to drain such answers, or by a NO CARRIER that
\* came while the daemon was still to answer.
AnswersMatch == sp_response.by = "stray" => spoiled

\* Nothing is on its way in either direction and the request thread has nothing
\* to do.
Quiet ==
  /\ link = "up"
  /\ down = <<>> /\ up = <<>> /\ s_ATBuffer = <<>>
  /\ posted = "no" /\ smq = <<>>
  /\ rq = "idle" /\ inits = 0 /\ ~repoll

\* Once all is quiet the framework has been told of the last ring and of the end
\* of the last call, unless a read threw lines away behind a NUL byte, a NO CARRIER
\* was taken as the answer to a command, or an answer to one given up was sent in
\* place of NO CARRIER.
CallsReported ==
  Quiet /\ sState = "SIM_READY" /\ phone # "INIT" => told \/ dropped \/ spoiled

\* Every line the daemon can write, as the driver reads it.
Callers == {<<>>, <<1>>, <<5, 0, 1>>}
CallRead == [t \in ClccTexts |-> [dir \in {"0", "1"} |-> [digits \in Callers |->
               CallOf(t, dir, fsk_to_string(digits \o <<15>>))]]]

\* The driver reads every +CLCC line under way as the call it was written for,
\* whatever its direction, and with the number the telephone has reported, if any: the
\* daemon's decoding and format and the driver's tokenizer agree.
ClccUnderstood ==
  \A i \in DOMAIN up, dir \in {"0", "1"}, digits \in Callers :
    up[i].t \in ClccTexts =>
      LET c == CallRead[up[i].t][dir][digits]
      IN  /\ c.ok
          /\ c.isMT = Value[dir]
          /\ [j \in DOMAIN c.number |-> Value[c.number[j]]] = digits
          /\ c.state = CASE up[i].t = "+CLCC:0" -> "ACTIVE"
                         [] up[i].t = "+CLCC:2" -> "DIALING"
                         [] OTHER -> "INCOMING"

\* While the channel is closed, and once its reader is through, the radio is
\* unavailable whatever the request thread is about to set.
ClosedRadio == s_closed = 1 /\ late = 0 => sState = "UNAVAILABLE"

\* A channel that is open and initialised has its radio available, unless
\* mainLoop, out of its first second, opened it before the reader of the old one
\* had made the radio unavailable.
OpenRadio == Quiet /\ late = 0 => sState # "UNAVAILABLE" \/ overtaken

\* A command that the daemon answers at once returns, unless its answer was
\* thrown away behind a NUL byte or the command itself behind one given up, which
\* a recv() returned together with it.
PromptReturns ==
  (rq = "wait" /\ cmd \notin {"ATD", "CHLD"}) ~> (rq # "wait" \/ dropped \/ spoiled)

\* When the daemon goes, a command in its wait comes back, also one with no
\* timeout.
CloseEndsWait == (link = "eof" /\ rq = "wait") ~> (rq \notin {"wait", "woken"})

\* After the end of either process the driver connects again: neither the lock
\* nor the two condition variables keep the reader or mainLoop from it.
Reconnects == []<>(link = "up")
=============================================================================
