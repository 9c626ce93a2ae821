----------------------------- MODULE AtChannel ------------------------------
(***************************************************************************)
(* The AT channel, ril-telephone/atchannel.c: one command at a time, sent  *)
(* by the request thread, and a reader thread that matches the lines of    *)
(* the daemon with it.  Each operator is a step of one of the two threads  *)
(* and leaves the variables of the driver (RilDriver) to its caller.       *)
(*                                                                         *)
(* s_commandmutex is held by the request thread from the lock of           *)
(* at_send_command_full to pthread_cond_wait; the reader takes it for the  *)
(* length of one step, so only the request thread's hold is recorded.  A   *)
(* write() into a socket whose other end is gone fails.  Of the types of   *)
(* command the driver uses NO_RESULT and MULTILINE.                        *)
(***************************************************************************)
EXTENDS AtWire

CONSTANTS
  HANDSHAKE_RETRY_COUNT,
  MaxFaults   \* bound on the handshake's timeouts and the ends of a process

ASSUME HandshakeAssumption ==
  /\ HANDSHAKE_RETRY_COUNT \in Nat \ {0}
  /\ MaxFaults \in Nat

VARIABLES
  rq,             \* the request thread: where it is in at_send_command_full
  cmd,            \* its command
  tries,          \* at_handshake's i
  s_fd,           \* the channel's descriptor: "open" or "none"
  s_readerClosed,
  sp_response,    \* the pending response, or NoResponse
  rd,             \* the reader thread: "none", "read" or "closed"
  s_ATBuffer,     \* lines read and not yet processed
  faults,         \* timeouts of the handshake and ends of a process so far
  dropped,        \* history: a read threw away lines behind a NUL
  spoiled         \* history: a command ended without, or before, its own answer

channel == <<rq, cmd, tries, s_fd, s_readerClosed, sp_response, rd, s_ATBuffer,
             faults, dropped, spoiled>>

NoResponse == [final |-> "null", by |-> "none", calls |-> <<>>]
NewResponse == [final |-> "none", by |-> "none", calls |-> <<>>]

ChannelTypeOK ==
  /\ rq \in {"idle", "lock", "text", "cr", "wait", "woken", "sleep", "radio", "poll"}
  /\ cmd \in Commands \cup {"none"}
  /\ tries \in 0..HANDSHAKE_RETRY_COUNT
  /\ s_fd \in {"open", "none"}
  /\ s_readerClosed \in {0, 1}
  /\ sp_response \in [final : LineTexts \cup {"null", "none"},
                      by : Marks \cup {"none"}, calls : Seq(LineTexts)]
  /\ rd \in {"none", "read", "closed"}
  /\ s_ATBuffer \in Seq(Lines)
  /\ faults \in 0..MaxFaults
  /\ dropped \in BOOLEAN
  /\ spoiled \in BOOLEAN

ChannelInit ==
  /\ rq = "idle"
  /\ cmd = "none"
  /\ tries = 0
  /\ s_fd = "none"
  /\ s_readerClosed = 0
  /\ sp_response = NoResponse
  /\ rd = "none"
  /\ s_ATBuffer = <<>>
  /\ faults = 0
  /\ dropped = FALSE
  /\ spoiled = FALSE

\* Whether the request thread holds s_commandmutex.
Locked == rq \in {"text", "cr", "sleep"}

-----------------------------------------------------------------------------
(* The reader thread.                                                      *)

isFinalResponseSuccess(t) == t = "OK"
isFinalResponseError(t) == t \in {"ERROR", "NO_CARRIER"}

\* readline: a NUL ends the buffer, and the next read starts it over again.
ReadLine ==
  /\ rd = "read"
  /\ s_ATBuffer = <<>>
  /\ up # <<>>
  /\ LET n == IF \E i \in DOMAIN up : EndsInNul(up[i])
              THEN CHOOSE i \in DOMAIN up :
                     EndsInNul(up[i]) /\ \A j \in 1..(i - 1) : ~EndsInNul(up[j])
              ELSE Len(up)
     IN  /\ s_ATBuffer' = SubSeq(up, 1, n)
         /\ dropped' = (dropped \/ n < Len(up))
  /\ up' = <<>>
  /\ UNCHANGED <<link, down, rq, cmd, tries, s_fd, s_readerClosed, sp_response,
                 rd, faults, spoiled>>

\* Variant: nobody is signalled.
SignalNobody == UNCHANGED rq

\* pthread_cond_signal(&s_commandcond).
Signal == rq' = IF rq = "wait" THEN "woken" ELSE rq

\* Whether processLine hands line l to the unsolicited handler.
IsUnsolicited(l) ==
  \/ sp_response = NoResponse
  \/ /\ ~isFinalResponseSuccess(l.t)
     /\ ~isFinalResponseError(l.t)
     /\ cmd # "CLCC" \/ l.t \notin ClccTexts

\* addIntermediate.
AddIntermediate(l) == [sp_response EXCEPT !.calls = Append(@, l.t)]

\* processLine and handleFinalResponse; a second final response that comes
\* before the request thread is awake replaces the first.
ProcessLine ==
  /\ rd = "read"
  /\ s_ATBuffer # <<>>
  /\ ~Locked
  /\ LET l == Head(s_ATBuffer)
         final == ~IsUnsolicited(l)
                  /\ (isFinalResponseSuccess(l.t) \/ isFinalResponseError(l.t))
     IN  /\ sp_response' =
              CASE IsUnsolicited(l) -> sp_response
                [] final -> [sp_response EXCEPT !.final = l.t,
                                                   !.by = IF @ = "none" THEN l.mark ELSE @]
                [] OTHER -> AddIntermediate(l)
         /\ IF final THEN Signal ELSE UNCHANGED rq
  /\ s_ATBuffer' = Tail(s_ATBuffer)
  /\ UNCHANGED <<wire, cmd, tries, s_fd, s_readerClosed, rd, faults, dropped, spoiled>>

\* readline returns NULL: onReaderClosed up to the call of its callback.
OnReaderClosed ==
  /\ rd = "read"
  /\ s_ATBuffer = <<>>
  /\ up = <<>>
  /\ link = "eof"
  /\ s_readerClosed = 0
  /\ ~Locked
  /\ s_readerClosed' = 1
  /\ Signal
  /\ rd' = "closed"
  /\ UNCHANGED <<wire, cmd, tries, s_fd, sp_response, s_ATBuffer, faults, dropped, spoiled>>

\* at_close, from the reader's callback.  The descriptor is not closed; the
\* daemon's end of it is gone.
AtClose ==
  /\ rd = "closed"
  /\ ~Locked
  /\ s_fd' = "none"
  /\ s_readerClosed' = 1
  /\ Signal
  /\ rd' = "none"
  /\ link' = "down"
  /\ down' = <<>>
  /\ up' = <<>>
  /\ UNCHANGED <<cmd, tries, sp_response, s_ATBuffer, faults, dropped, spoiled>>

-----------------------------------------------------------------------------
(* The main thread's at_open: s_commandmutex is not taken.                 *)

AtOpen ==
  /\ link = "down"
  /\ link' = "up"
  /\ down' = <<>>
  /\ up' = <<>>
  /\ s_fd' = "open"
  /\ s_readerClosed' = 0
  /\ sp_response' = NoResponse
  /\ rd' = "read"
  /\ UNCHANGED <<rq, cmd, tries, s_ATBuffer, faults>>

-----------------------------------------------------------------------------
(* The request thread in at_send_command_full.                             *)

\* at_send_command and at_send_command_multiline, up to the lock.
AtSend(c) ==
  /\ rq' = "lock"
  /\ cmd' = c
  /\ tries' = 0

\* The lock and writeline up to the text.
WriteText ==
  /\ rq \in {"lock", "text"}
  /\ s_fd = "open"
  /\ s_readerClosed = 0
  /\ link = "up"
  /\ down' = Append(down, Text(cmd))
  /\ rq' = "cr"
  /\ UNCHANGED <<link, up, cmd, tries, s_fd, s_readerClosed, sp_response, rd, s_ATBuffer,
                 faults, dropped, spoiled>>

\* The rest of writeline, the new response and the wait.
WriteCR ==
  /\ rq = "cr"
  /\ link = "up"
  /\ down' = Append(down, CR)
  /\ sp_response' = NewResponse
  /\ rq' = IF s_readerClosed = 0 THEN "wait" ELSE "woken"
  /\ UNCHANGED <<link, up, cmd, tries, s_fd, s_readerClosed, rd, s_ATBuffer,
                 faults, dropped, spoiled>>

\* writeline fails: the channel is closed, or write() does.
WriteFails ==
  \/ rq \in {"lock", "text"} /\ (s_fd = "none" \/ s_readerClosed = 1 \/ link # "up")
  \/ rq = "cr" /\ link # "up"

\* The wait is over: a final response or a closed channel.
Answered ==
  /\ rq = "woken"
  /\ sp_response # NoResponse
  /\ sp_response.final # "none" \/ s_readerClosed = 1

\* at_open has taken the response away from a thread not yet awake.
NullResponse == rq = "woken" /\ sp_response = NoResponse

\* The deadline passes.  The lock is taken again first: a final response that
\* comes until then is not looked at.
TimesOut ==
  /\ rq \in {"wait", "woken"}
  /\ cmd = "ATE0"
  /\ faults < MaxFaults
  /\ faults' = faults + 1

\* clearPendingCommand.  What is owed to the command is stray from here on.
ClearPending(givenUp) ==
  /\ sp_response' = NoResponse
  /\ down' = StrayAll(down)
  /\ up' = StrayAll(up)
  /\ s_ATBuffer' = StrayAll(s_ATBuffer)
  /\ spoiled' = (spoiled \/ givenUp)

\* Variant: one try too many.
HandshakeTryMore(failed) ==
  /\ tries' = tries + 1
  /\ rq' = CASE ~failed -> "sleep"
             [] failed /\ tries < HANDSHAKE_RETRY_COUNT -> "text"
             [] OTHER -> "lock"
  /\ cmd' = IF failed /\ tries >= HANDSHAKE_RETRY_COUNT THEN "ATC" ELSE cmd

\* at_handshake: the next try, the pause with the lock held, or its end and
\* the lock of the next command.
HandshakeTry(failed) ==
  /\ tries' = tries + 1
  /\ rq' = CASE ~failed -> "sleep"
             [] failed /\ tries + 1 < HANDSHAKE_RETRY_COUNT -> "text"
             [] OTHER -> "lock"
  /\ cmd' = IF failed /\ tries + 1 >= HANDSHAKE_RETRY_COUNT THEN "ATC" ELSE cmd

HandshakePause ==
  /\ rq = "sleep"
  /\ AtSend("ATC")
  /\ UNCHANGED <<wire, s_fd, s_readerClosed, sp_response, rd, s_ATBuffer,
                 faults, dropped, spoiled>>
=============================================================================
