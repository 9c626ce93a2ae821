----------------------------- MODULE RilSocket ------------------------------
(***************************************************************************)
(* The daemon's RIL socket, upil_ril.c, and the phone as it appears there. *)
(* The main loop's thread receives commands and posts to the state         *)
(* machine; the state machine's thread reports its states through          *)
(* sendto_monitor and upil_ril_unsolicited.                                *)
(*                                                                         *)
(* The phone is the state machine of UpilSM without its timers and         *)
(* devices: the hook follows a HANDFREE command when the device gets to    *)
(* it, and the line and the user do what they like.  INIT stands for       *)
(* OFFLINE and SYNCING, CONVERSATION for MEMO too.  The daemon does not    *)
(* ignore SIGPIPE: a line sent to a driver that has gone, before its end   *)
(* was noticed, ends it.                                                   *)
(***************************************************************************)
EXTENDS AtWire

CONSTANT MaxEvents   \* bound on what the line, the user and the plug do

ASSUME EventAssumption == MaxEvents \in Nat

VARIABLES
  listening,        \* whether s_listen_event is on the loop
  posted,           \* the mark of the command processCommandBuffer has not done with
  replying,         \* what is left of it: the result, or else to set s_wait_response
  s_wait_response,  \* the mark of the command that waits for a state, or "no"
  phone,            \* the state of the state machine
  smq,              \* HANDFREE messages posted to it
  hook,             \* the HANDFREE command the device has not carried out
  events,           \* events of the line, the user and the plug so far
  told              \* history: the framework was told of the last ring or end

socket == <<listening, posted, replying, s_wait_response>>
machine == <<phone, smq, hook, events>>
daemon == <<socket, machine, told>>

CallStates == {"DIALING", "INCOMING", "CONVERSATION"}

DaemonTypeOK ==
  /\ listening \in BOOLEAN
  /\ posted \in Marks \cup {"no"}
  /\ replying \in BOOLEAN
  /\ s_wait_response \in Marks \cup {"no"}
  /\ phone \in CallStates \cup {"INIT", "IDLE"}
  /\ smq \in Seq({"ON", "OFF"})
  /\ hook \in {"none", "on", "off"}
  /\ events \in 0..MaxEvents
  /\ told \in BOOLEAN

DaemonInit ==
  /\ listening = TRUE
  /\ posted = "no"
  /\ replying = FALSE
  /\ s_wait_response = "no"
  /\ phone = "INIT"
  /\ smq = <<>>
  /\ hook = "none"
  /\ events = 0
  /\ told = TRUE

\* A new process: everything the old one had not written is gone.
DaemonRestart ==
  /\ listening' = TRUE
  /\ posted' = "no"
  /\ replying' = FALSE
  /\ s_wait_response' = "no"
  /\ phone' = "INIT"
  /\ smq' = <<>>
  /\ hook' = "none"
  /\ told' = (told /\ phone \notin CallStates)
  /\ down' = <<>>
  /\ link' = IF link \in {"up", "eof"} THEN "eof" ELSE "down"

-----------------------------------------------------------------------------
(* The main loop's thread.                                                 *)

\* upil_ril_setup and listenCallback: one driver at a time.
Accept ==
  /\ listening
  /\ listening' = FALSE
  /\ UNCHANGED <<posted, replying, s_wait_response, machine>>

\* processCommandBuffer on the whole of what recv() returned; the first bytes
\* decide.  The "\r" of an earlier command in front of a command hides it.
Executes(b) == IF Head(b).k = "text" THEN Head(b).cmd ELSE "none"

\* Variant: whatever starts with "\r" is ignored.
StartsWithCR(b) == Head(b).k = "cr"
OnlyCR(b) == Len(b) = 1 /\ Head(b).k = "cr"
AnswerMark(b) == IF Head(b).k = "text" THEN Head(b).mark ELSE b[2].mark

\* upil_sm_start_dail and upil_sm_hangup post a message, which a full pool refuses;
\* ok is whether it was taken.
Posts(c) == c \in {"ATD", "CHLD", "ATA"}

Result(c, ok) == IF ~ok \/ (c = "ATE0" /\ phone = "INIT") THEN "ERROR" ELSE "OK"

\* A call is listed: process_reply writes its line first and the result with a write
\* of its own.
Lists(c) == c = "CLCC" /\ phone \in CallStates

\* The first, or only, line of the answer.
Reply(c, ok, m) ==
  IF Lists(c)
  THEN Line(CASE phone = "DIALING" -> "+CLCC:2"
              [] phone = "INCOMING" -> "+CLCC:4"
              [] OTHER -> "+CLCC:0", m)
  ELSE Line(Result(c, ok), m)

\* The commands that are answered by the phone's next state.
Waits(c) == c \in {"ATD", "CHLD"}

\* Variant: result stays 0, so that these are answered at once as well.
WaitsNot(b, ok) == OnlyCR(b)
Unanswered(b, ok) == OnlyCR(b) \/ (Waits(Executes(b)) /\ ok)

\* processCommandBuffer up to where it waits or has written its first line.  A
\* driver that is gone cannot be answered.
ProcessCommand(c, ok) ==
  IF link = "gone" /\ ~Unanswered(down, ok)
  THEN DaemonRestart /\ up' = <<>>
  ELSE /\ down' = <<>>
       /\ up' = IF Unanswered(down, ok) THEN up ELSE Append(up, Reply(c, ok, AnswerMark(down)))
       /\ posted' = IF (Waits(c) /\ ok) \/ Lists(c) THEN AnswerMark(down) ELSE "no"
       /\ replying' = Lists(c)
       /\ smq' = CASE ok /\ c \in {"ATD", "ATA"} -> Append(smq, "ON")
                   [] ok /\ c = "CHLD" -> Append(smq, "OFF")
                   [] OTHER -> smq
       /\ UNCHANGED <<link, listening, s_wait_response, phone, hook, told>>

\* processCommandsCallback with data.
ProcessCommands ==
  /\ link \in {"up", "gone"}
  /\ posted = "no"
  /\ down # <<>>
  /\ \E ok \in BOOLEAN :
       /\ ok \/ Posts(Executes(down))
       /\ ProcessCommand(Executes(down), ok)
  /\ UNCHANGED events

\* s_wait_response = 1, once the message is on its way.
SetWait ==
  /\ posted # "no"
  /\ ~replying
  /\ s_wait_response' = posted
  /\ posted' = "no"
  /\ UNCHANGED <<wire, listening, replying, machine, told>>

\* The second write of process_reply.
WriteResult ==
  /\ posted # "no"
  /\ replying
  /\ IF link = "gone" THEN DaemonRestart /\ up' = <<>>
     ELSE /\ up' = Append(up, Line("OK", posted))
          /\ posted' = "no"
          /\ replying' = FALSE
          /\ UNCHANGED <<link, down, listening, s_wait_response, phone, smq, hook, told>>
  /\ UNCHANGED events

\* processCommandsCallback at the end of the stream.
Disconnected ==
  /\ link = "gone"
  /\ posted = "no"
  /\ down = <<>>
  /\ link' = "down"
  /\ UNCHANGED down
  /\ up' = <<>>
  /\ listening' = TRUE
  /\ UNCHANGED <<posted, replying, s_wait_response, machine, told>>

-----------------------------------------------------------------------------
(* The state machine's thread.                                             *)

\* upil_ril_unsolicited: the line that entering state s sends.
News(s) ==
  CASE s = "INCOMING" -> <<Line("RING", "news")>>
    [] s = "IDLE" /\ s_wait_response = "no" -> <<Line("NO_CARRIER", "news")>>
    [] s \in {"IDLE", "DIALING"} /\ s_wait_response # "no" -> <<Line("OK", s_wait_response)>>
    [] OTHER -> <<>>

\* Variant: the wait goes on after its answer.
EnterStillWaiting(s) ==
  /\ phone' = s
  /\ up' = IF link = "up" THEN up \o News(s) ELSE up
  /\ UNCHANGED <<s_wait_response, link, down, posted, replying, listening>>
  /\ told' = (told /\ s # "INCOMING" /\ ~(s = "IDLE" /\ phone \in CallStates))

\* Entering s: its enter function calls sendto_monitor first.
Enter(s) ==
  /\ phone' = s
  /\ up' = IF link = "up" THEN up \o News(s) ELSE up
  /\ s_wait_response' = IF s \in {"IDLE", "DIALING"} THEN "no" ELSE s_wait_response
  /\ told' = (told /\ s # "INCOMING" /\ ~(s = "IDLE" /\ phone \in CallStates))
  /\ UNCHANGED <<link, down, posted, replying, listening>>

\* The line goes to a driver that is gone: SIGPIPE.
SigPipe(s) ==
  /\ link = "gone"
  /\ News(s) # <<>>

EnterOrDie(s) ==
  IF SigPipe(s) THEN DaemonRestart /\ up' = <<>>
  ELSE Enter(s) /\ UNCHANGED <<smq, hook>>

\* The HANDFREE messages, as the process functions of the states take them.
TakeHandfree ==
  /\ smq # <<>>
  /\ hook' = CASE Head(smq) = "ON" /\ phone \in {"IDLE", "INCOMING"} -> "on"
               [] Head(smq) = "OFF" /\ phone \in CallStates -> "off"
               [] OTHER -> hook
  /\ smq' = Tail(smq)
  /\ UNCHANGED <<wire, socket, phone, events, told>>

\* Where a hook report takes the phone.
AfterHook(h, s) ==
  CASE h = "on" /\ s = "IDLE" -> "DIALING"
    [] h = "on" /\ s = "INCOMING" -> "CONVERSATION"
    [] h = "off" /\ s = "CONVERSATION" -> "IDLE"
    [] OTHER -> s

\* The device reports the hook it was told to move.
HookMoved ==
  /\ hook # "none"
  /\ LET s == AfterHook(hook, phone)
     IN  IF s = phone THEN hook' = "none" /\ UNCHANGED <<wire, socket, phone, smq, told>>
         ELSE IF SigPipe(s) THEN DaemonRestart /\ up' = <<>>
         ELSE Enter(s) /\ hook' = "none" /\ UNCHANGED smq
  /\ UNCHANGED events

\* What the timers of the state machine do: SYNC_TIMEOUT, DIAL_END_CHECK,
\* RING_TIMEOUT, RECORD_START.
TimerNext(s) ==
  CASE s = "INIT" -> {"IDLE"}
    [] s = "DIALING" -> {"CONVERSATION"}
    [] s = "INCOMING" -> {"IDLE", "CONVERSATION"}
    [] OTHER -> {}

PhoneTimer ==
  /\ \E s \in TimerNext(phone) : EnterOrDie(s)
  /\ UNCHANGED events

\* The user's handset, a call on the line, BUSY_ON, the plug.
PhoneEvent ==
  /\ events < MaxEvents
  /\ events' = events + 1
  /\ \/ phone = "IDLE" /\ (EnterOrDie("DIALING") \/ EnterOrDie("INCOMING"))
     \/ phone = "INCOMING" /\ EnterOrDie("CONVERSATION")
     \/ phone = "CONVERSATION" /\ EnterOrDie("IDLE")
     \/ /\ phone = "CONVERSATION"
        /\ smq' = Append(smq, "OFF")
        /\ UNCHANGED <<wire, socket, phone, hook, told>>
     \/ /\ phone # "INIT"
        /\ phone' = "INIT"
        /\ hook' = "none"
        /\ told' = (told /\ phone \notin CallStates)
        /\ UNCHANGED <<wire, socket, smq>>
=============================================================================
