# A TLA+ model of UPIL

UPIL is a daemon that makes an Android device into a telephone: it drives a USB
telephone (a HID device with sound), runs the state machine of the phone, plays
and records voice, and serves commands, a monitor socket and a RIL driver. This
directory holds TLA+ modules for its core, the TLC configurations that check
them, and proofs that TLAPS checks. `PROJECT.json` lists the components, the
runs, the mutants, the source lines behind every definition, the findings, the
hazards and the theorems.

## The system

### Threads

| thread | code | what it does |
| --- | --- | --- |
| main loop | `upil_event_wrapper.c`, `upil_event.c` | `select()` on the device, the listening sockets and the clients; runs `tpp_recv_event_cb`, the socket callbacks |
| state machine | the same code, a second loop | one timer per message; runs `sm_process_message`, sends requests to the device |
| audio in, out, play, record | `upil_audio.cpp` | copy sound; play and record post a message when they end |
| main | `upil.c` | starts the others, sets up the sockets, waits for the device, posts `USB_ATTACH` |
| a client's main thread and `readLoop` | `upil_client.c`, `upil_ctrl.c` | sends requests and waits for replies; receives events |
| the driver's `mainLoop`, reader and request thread | `ril-telephone/` | connects and reconnects; reads lines; sends AT commands for the RIL library |

### Components, their state, operations and what makes them correct

- **Event loop** (`upil_event/`). State: `timer_list` sorted by time,
  `pending_list`, `watch_table` with `readFds` and `nfds`, the wakeup pipe.
  Operations: add or delete a timer or a descriptor, from the loop's own
  callbacks or from other threads, and the loop itself. Hard: the loop reads its
  lists without the mutex before it sleeps, other threads write the pipe after
  they have released it, the pipe is created after the threads were told that
  the loop runs, and callbacks change the lists that are being walked. Correct:
  nothing is slept through, timers fire once, in order and not early.
- **Message handler and state machine framework** (`state_machine/`). State: the
  queue of messages with its limit `MAX_MSG_QUEUE_SIZE`, the current state.
  Operations: send (with a delay), remove by id, transition. Hard: a transition
  is itself a message, a handler may remove messages that are about to fire, a
  full queue refuses. Correct: exactly the messages that were sent and not
  removed are handled, in order.
- **Phone state machine** (`upil_sm.c`). State: OFFLINE, SYNCING, IDLE, DIALING,
  INCOMING, CONVERSATION, MEMO; the ring count, the last numbers. Operations: one
  process function and one enter function per state. Hard: timers that are put
  off by reports, reports that arrive while a handler waits for the device,
  stale timers. Correct: the keep-alive runs and is the only one, every state
  that waits has the message that ends it, an unanswered call does not ring for
  ever, an answered one is not recorded.
- **Telephone protocol** (`tp_protocol.c`). State: the bytes of an unfinished
  report, the condition variable of the answers. Operations: send a request
  line by line, receive a line. Hard: two threads, answers inside reports, reports
  that break off, lines of other kinds. Correct: one line at a time, every report
  sent in order is delivered once, a request comes to its end.
- **Voice threads** (`upil_audio.cpp`). State: `s_audio_running`, `s_track_ready`,
  four thread ids. Operations: start a call's voice, play, record, stop. Hard: one
  flag for four threads, a stop that gives up after three seconds, set-ups that
  fail half way, the end of the prompt that races with the start of the
  recording. Correct: a stop leaves nothing, a call has its voice, a prompt its
  recording, every thread an end.
- **USB sound** (`usb_audio_pcm.c`, `mixer.c`, `resampler.c`). State: who has the two
  substreams, the handles, three conversion buffers that all handles share.
  Hard: the buffers are used by two threads, failures are reported as success.
  Correct: what is delivered is the right sound in the right format.
- **Command and monitor sockets** (`upil_command.c`, `upil_monitor.c`) and the
  **client library** (`upil_ctrl.c`, `upil_client.c`). State: one client per socket,
  `s_fdMonitor`, requests, replies and events under way. Hard: a request given up
  and answered later, a descriptor number used by one thread and replaced by
  another, clients that leave at any moment. Correct: replies belong to their
  request, the monitor is in step, the next client is served.
- **RIL socket** (`upil_ril.c`). State: the driver's connection, `s_wait_response`.
  Hard: an answer that is sent by another thread when the phone changes.
- **RIL driver** (`ril-telephone/`). State: the AT channel's pending command and
  response, the radio state, the reader's buffer. Operations: send a command,
  handshake, receive a line, close, reconnect, call requests. Hard: three threads,
  a stream that keeps no boundaries, late answers, ends of either process.
  Correct: a command ends with its own answer, the framework learns of calls,
  the driver connects again.
- Not part of the daemon, or no logic of its own: see "Not modelled".

The components call each other like this: `tpp_recv_event_cb` (main loop) posts
to the state machine; its handlers call `tpp_send_cmd`, which waits for the main
loop to receive the answer; they start and stop audio threads, which post back;
they tell monitor and RIL clients about every state; the sockets' callbacks
post dial and hang-up messages.

## Modules

| module | models | extends |
| --- | --- | --- |
| `TimerService` | what a timer of the event loop promises | |
| `EventLoop` | `upil_event.c`, `upil_event_wrapper.c` | instance of `TimerService` |
| `EventLoopProofs` | theorems about `EventLoop`, the refinement among them | `EventLoop`, `ListLemmas` |
| `ListLemmas` | lemmas on sequences and minima that the proofs share | |
| `UpilSM` | `upil_sm.c`, `state_machine.c`, `handler.c`, and what the audio and device threads post | |
| `UpilSMProofs` | theorems about `UpilSM` | `UpilSM` |
| `TpService` | what the link to the telephone promises to the state machine | |
| `TpLink` | `tp_protocol.c` with the device at the other end | instance of `TpService` |
| `TpLinkProofs` | theorems about `TpLink`, the refinement among them | `TpLink` |
| `AtWire` | the socket between the RIL driver and the daemon | |
| `AtChannel` | `atchannel.c` | `AtWire` |
| `AtTok` | `at_tok.c`, `misc.c`, `callFromCLCCLine`, `fsk_to_string` and the daemon's `+CLCC` line, as functions | |
| `AtTokProofs` | theorem about `AtTok`: what the driver reads in the daemon's line | `AtTok` |
| `RilSocket` | `upil_ril.c` with the phone's states | `AtWire` |
| `RilDriver` | `ril-telephone.c`; composes the four above | `AtChannel`, `RilSocket`, `AtTok` |
| `RilDriverProofs` | theorems about `RilDriver` with all that it composes | `RilDriver`, `AtTokProofs`, `ListLemmas` |
| `UsbSound` | `usb_audio_pcm.c`, `mixer.c`, `resampler.c` | |
| `VoiceThreads` | `upil_audio.cpp` with the state machine's calls | `UsbSound` |
| `VoiceThreadsProofs` | theorems about `VoiceThreads` | `VoiceThreads`, `ListLemmas` |
| `DaemonSockets` | `upil_command.c`, `upil_monitor.c`, their set-up in `main` | |
| `SocketService` | what the command and monitor sockets promise to their clients | |
| `ClientLib` | `upil_ctrl.c`, `upil_client.c`; composes clients and daemon | `DaemonSockets`, instance of `SocketService` |
| `ClientLibProofs` | theorems about `ClientLib`, the refinement among them | `ClientLib` |
| `MC...` | the specifications, for TLC | |

Operators whose comment begins with "Variant" are plausible mistakes in the
definition below them. They are not part of any specification; `PROJECT.json`
says which property each of them breaks.

### EventLoop

Each function that holds `listMutex` is one step; `processReadReadies` is one
step per slot with the mutex kept from other threads (`MutexFree`). The copy of
`readFds`, `calcNextTimeout` with the entry of `select()`, and each callback are
steps of their own, so other threads act between them. `pc` is the position of
the loop thread, `spc` that of each other thread: it has changed a list and not
yet written the pipe (`"trigger"`), or not (`"idle"`). The pipe is one bit, since
`processWakeupCallback` empties it. A timer event is identified with the
structure that holds it. Callbacks are whatever the callers of this code do:
timer callbacks add and delete timers, descriptor callbacks add descriptors and
delete their own, and any of them may return -1, which ends the process
(`"killed"`). A timer that a callback deletes is freed; when it is the one that
`firePending` has saved as `next`, the process faults (`FireFreed`).

`TimerService` has no lists and no loop: a set of armed timers with their
deadlines, and the timer whose callback runs. `EventLoop` implements it under
the mapping `armed <- Linked \cap Timers`, `running <- ev` while a timer's
callback runs.

### UpilSM

A message in the queue is a record: id, data, the time left, its place in the
order in which the loop will fire, and whether it is in the pending list. That
one order exists is what `EventLoop` shows (`TimersSorted`, `TimerServiceSpec`):
`UpilSM` uses the result and has no lists. A handler is two steps, because it
waits for the device's answers in between: `TakeMessage` (the message leaves the
queue, `remove_from_list`), `ProcessMessage` (all its effects). Data is what the
handlers tell apart: the target state of a transition, or whether a number came
along. `queue.lost` records that a send was refused; the code keeps no such
flag. `Posts` is the set of messages that other threads send in an instance, and
`MaxInput` bounds how many messages may be due when another arrives.

Assumptions: time is discrete and coarse. Of two messages that are due at the
same time the one sent first is first; in the code two sends never have the same
microsecond. A send from another thread is one step. `tpp_send_cmd` returns (see
`TpLink` for when it does not). The telephone reports rings only while it is on
hook, and busy, digits and the end of dialling only while it is off hook; its
hook may change at any time. `upil_audio_stop` has stopped the threads when it
returns. Nothing in the repository sends `UPIL_EVT_USB_DETACH`, so OFFLINE is
never entered again.

### TpLink

The sender (`pc`) writes a line, then waits, then is woken by `Broadcast`. The
receiver handles one line per step. `s_pdu` is what `s_pdu_buf` holds up to
`s_pdu_offset`: the report and the byte that come first (`check_tppdu` looks at that
byte and at the size behind it), how many bytes there are, and whether they are the
bytes of that one report in order. The bit 0x80 of a line is looked at before its
bytes: `Recv` signals the answer, clears the buffer (`Kept`) and hands the line on to
`hidpdu2event` like any other.

The device is external, and may do what the code is written for and more: it answers
each line once, with an empty line or with a line that carries bytes of a report, also
in the middle of a report; it cuts a report into lines of any number of bytes (a trace
in the source, `tp_protocol.c:69`, has lines of 2, 3 and 1); it breaks a report off and
begins the next; it sends lines of another protocol. Every line carries, as a history,
the device's state before it (`before`), and `dev.open` says whether the lines sent so
far leave a report open. The two histories `whole` and `doubt` tell the reports apart
of which something can be promised: a report is *whole* when its lines come one behind
the other and begin where nothing is open (behind a complete report, an answer or a
foreign line). A report that is broken off by the next one leaves its bytes in the
buffer, and the code joins the next report to them: both are *in doubt*, and so are
those that follow, until an answer or a foreign line clears the buffer. A report in
doubt may be lost, or be handed over with bytes of another. The clearing on an answer
is what the code has against this (its comment: an answer means that the last report
is over, and "there should still be a problem here"); `ReportsArrive` says how far it
goes, and without it (mutant `KeptOn`) a report inside which an answer lies costs the
whole ones after it.

Assumptions: hidraw returns one line per `read()`, a line carries at most
`TPPDU_LINE_BYTES` bytes, the first line of a report holds its flag and its size, only
the first byte of a report is `TP_FLAG`, a report fits into `s_pdu_buf`,
`pthread_cond_wait` without a mutex neither fails nor wakes up by itself (on a C
library that checks the mutex the call fails at once).

`TpService` has no lines, no buffer and no condition variable: a request line that is
asked, answered or neither, the reports that are due, those in doubt and those handed
over. A report may only become doubtful by being begun inside another, or while that
has not been ended (`torn`); the oldest report that is due is handed over before any
later one, as it was sent.

### AtWire, AtChannel, RilSocket, RilDriver

A stream is a sequence that one `read()` takes as a whole. The driver's request
thread is `rq` (`"lock"`, `"text"`, `"cr"`, `"wait"`, `"woken"`, then what the caller
does next); the two `write()`s of a command are two steps, so the daemon may
receive the text without its `"\r"`. `s_commandmutex` is `Locked` while the request
thread writes and during the pause of the handshake; the reader's steps that
take it wait. `AtOpen` does not take it, as in the code. Every command and every
answer carries a mark that no program reads: `"own"` while the driver waits for
it, `"stray"` from the moment the driver gives the command up
(`ClearPending`). `spoiled` and `dropped` remember that a command ended without its
own answer and that a read threw lines away.

The daemon answers most commands at once (`ProcessCommand`); ATD and AT+CHLD
are answered when the phone's state changes (`posted`, `SetWait`, `Enter`), or with
ERROR at once when the pool of messages is full and theirs is not taken (`ok`). A
`+CLCC` line and its OK are two writes (`posted` with `replying`, `WriteResult`), and the
driver may read, or go away, between them. The
phone is the state machine of `UpilSM` as far as the RIL socket sees it: INIT
stands for OFFLINE and SYNCING, CONVERSATION for MEMO too, timers may expire at
any moment. Either process may end and is started again; the daemon dies of
SIGPIPE when it writes to a driver that has gone. Requests that the driver
answers with constants change nothing and are not told apart.

Assumptions: the RIL library calls `onRequest` and the timed callbacks from one
thread, and looks at the calls when it is told of a change, when a call request
completes or when the radio comes up. `told` stands for that. A line and its NUL
arrive together.

`AtTok` is pure: a line is a sequence of symbols, a cursor is `NULL` or the rest of
the line. `ClccUnderstood` relates it to the daemon's side for every line under
way.

### UsbSound, VoiceThreads

A block of sound is its source, rate and channels; each stage of
`usb_audio_read` (`"resample"`, `"channels"` into `buffer_channels`, `"copy"` to the caller)
and of `usb_audio_write` is a step, because the buffers between the
stages are shared. `holder` is the thread whose descriptor has a substream; `open()`
waits for it, and `Lost` is a descriptor that nobody can close. A failed `pcm_open`
gives a handle with `fd = "bad"`, as in the code, where only NULL is looked for. A
thread is `pc[t]`; up to three exist at a time, which is one more than a session
starts. `late` are the threads that run on although no `s_tid` names them, and `outlived`
remembers that a thread has lived longer than its call or its memo: `late` ones, and
those of a call whose successor was entered without a stop in between. `hindered`
remembers, until the next stop, that a start found `s_audio_running` set by something
else than a thread of its own kind, or found threads or substreams left over; the
second `upil_audio_start` of a dialled call, in `conversation_enter`, finds the flag set
by its own voice and hinders nothing. `before` is the number of faults up to the last stop,
so that a call after a failure is looked at again.

The state machine's thread (`at`) is inside `upil_audio_start` while it waits for
the track and inside `upil_audio_stop` while it waits for the threads; its messages
and transitions are `inbox`. A call is dialled, or rings (INCOMING) and is answered, times
out or is taken by the memo. Assumptions: ids of threads that have ended are found
to be gone by `pthread_kill`; the host's sound opens and delivers or fails; a
recording's time limit may be reached with any block.

### DaemonSockets, ClientLib

`fd` says what each descriptor number of the daemon is open for, and numbers are
given out lowest first, so `s_fdMonitor`, which is never cleared, may come to
stand for a command connection. `connect()` succeeds while another client is
served; what the new one sends waits (`backlog`, `req`). `recv()` returns all that
has piled up and only its beginning is looked at. `Die` is SIGPIPE or the SIGKILL of
`eventLoop` after a callback that failed; the daemon is not started again, so that
what clients do then can be seen. The phone has two states; events that report
no state are left out.

The client is the program of the repository: it connects to both sockets, starts
`readLoop`, sends what its user types, each with three seconds, and ends with
`upil_disconnect`.

`SocketService` has no descriptors and no callbacks: for each socket the clients that
wait, in order, the one that is served, and those that have not hung up. `ClientLib`
implements it with the clients whose connection is accepted as the served ones.

## Runs

All runs use `CHECK_DEADLOCK FALSE`: an idle loop rightly sleeps until somebody
sends something, a killed process stops, and the bounds end every instance.

| run | states | what it shows |
| --- | --- | --- |
| `event_timers` | 113 thousand | three timers, two other threads, callbacks that add and delete: `NoTimerSleptThrough`, `TimersSorted`, `LinkedOnce`, `TimerServiceSpec` (refinement), `TypeOK` |
| `event_fds` | 521 thousand | two descriptors, one persistent, one that leaves the table when it fires, and the pipe in three slots: `NoWatchSleptThrough`, `NfdsCoversWatched`; under fairness every armed timer leaves the lists (`TimersFire`) |
| `sm_incoming` | 915 thousand | incoming calls with the memo, two messages at a time: `OneKeepAlive`, `TimedStatesEnd`, `OneTimerEach`, `TypeOK`; under fairness `IncomingEnds` |
| `sm_outgoing` | 2.0 million | synchronisation and outgoing calls: `OneKeepAlive`, `TimedStatesEnd` |
| `tp_link` | 2.3 million | requests of 1 and 2 lines; three reports of 1 to 3 lines that may break off, with answers anywhere and a foreign line: `AnswerBeforeNext`, `ReportsArrive`, `TpServiceSpec` (refinement), `TypeOK` |
| `ril_channel` | 393 thousand | the driver's three threads and the daemon's two: `AnswersMatch`, `CallsReported`, `ClosedRadio`, `OpenRadio`, `ClccUnderstood`, `TypeOK`; under fairness `PromptReturns`, `CloseEndsWait`, `Reconnects` |
| `voice` | 416 thousand | calls and memos one after another, with a failure anywhere: `StopLeavesNothing`, `MemoPure`, `TypeOK`; under fairness `CallHasVoice`, `PromptThenRecording`, `ThreadsEnd` |
| `clients` | 550 thousand | two client programs and the daemon: `MonitorInStep`, `AnswerIsOwn` (action property), `SocketServiceSpec` (refinement), `TypeOK`; under fairness `NextClientServed`, `ClientNotices` |
| `sm_full` | | violated: `KeepAliveRuns` |
| `sm_memo` | | violated: `MemoOnlyUnanswered` |
| `sm_removal` | | violated: `RemovalIsSafe` |
| `tp_wait` | | violated: `CommandCompletes` |

**Bounds.** Three timers are the fewest for a sorted list in which one is
inserted, one is pending and one is deleted; delays 0 and 1 and a clock to 3 give
equal, overdue and future timeouts. Two descriptors of different heights make
`nfds` shrink and grow. In `sm_incoming` and `sm_outgoing` the delays keep the
order of the real ones that matters (ringing times out before the memo starts,
unless it is put off), shortened so that the timers of one call meet the next;
the queue holds more messages than the instance needs, so nothing is lost there,
while `sm_full` has a queue of five. The inputs are split over the two runs by
the kind of call, not by property: the timers of both kinds are in both. In
`tp_link` lines have 3 bytes: parameters of 0 and 1 bytes make requests of one line that
is full and of two, reports of 2 and 4 bytes come in one line, two or three, and what
is left of a broken one of 4 bytes is filled up by the next one exactly, or too much.
Three reports are one that breaks off, one that runs into it and one behind an answer.
In `ril_channel` requests, events of the phone and faults are two together
(`MaxTotal`) and at most one fault and one event: that is enough for a command that
meets a ring, a hang-up, a time-out of the handshake (two tries) or the end of a
process, and for a second command behind one given up; the phone's timers are not
counted, so calls go on by themselves. In `voice` five events make a call,
dialled or answered, or a memo and the one after it, one fault hits any open, read, write, thread creation
or time limit; one message of the line waits at a time, besides those the threads
and transitions add. With two (`MaxInbox = 2`) and four events the same properties hold in 481 thousand
states; the theorems about the three invariants need no such
bound. A prompt and a recording of one block pass through every
stage. The two formats of the prompt need a conversion of rate and channels, and
none. In `clients` one client is served and one waits; two requests are a request
given up and the one that takes its answer; two descriptors are all the daemon
can have open for clients.

**Fairness.** The loop threads keep running (weak fairness of their steps),
callbacks return, time passes. `select()` may be interrupted, but not each time
it could have returned (strong fairness of `SelectReturns`). For `IncomingEnds`
the state machine's thread runs and time passes; rings may go on for ever. For
`CommandCompletes` both threads run and the device answers. In `ril_channel` each of
the driver's three threads, the daemon's main loop and its state machine go on;
requests, events and ends of processes need not happen. In `voice` every thread
goes on: devices return from their calls, with an error if need be, which holds
for a USB device that is unplugged too. In `clients` the daemon's main loop, each
client's main thread (`select()` returns after three seconds at the latest) and
each `readLoop` go on; users, the line and failures need not. Nothing is assumed
of the other party.

## Findings

1. `sm_full`: the keep-alive is only ever sent by its own handler and by
   `syncing_enter`, and neither looks at the result. When the device's reports
   fill the queue while `syncing_enter` waits for the answers to its eight
   commands, the keep-alive is refused and never comes back.
2. `sm_memo`: `sm_transition_to` posts a message. When a hook report and
   `RECORD_START` are due together, both are handled in INCOMING: the call is
   answered, and then moved to MEMO.
3. `sm_removal`: `firePending` saves the next event before it calls the handler,
   and a handler that removes messages by id may free it.
4. `tp_wait`: the answer may be broadcast before `tpp_send_cmd` waits. The state
   machine's thread then waits for ever.

Met while modelling, without a run of their own: the properties above name the
exceptions, or the models have the behaviour.

- Event loop. The comment of `processTimeouts` (`upil_event.c:165`, "see if now >=
  ev->timeout") and its log line (`:167`, "timers <=") take a timer for due in the instant
  of its timeout; line 168 compares with `>`, so it fires one clock tick later, and until
  then `select()` is called without waiting. `EventLoop` has line 168; `TimerService`
  promises only that a timer does not fire early, which both readings keep.
- RIL. A late OK of the handshake answers ATC, and from then on the answers are one
  off; the pause meant to drain such answers is made with the lock held, so the
  reader cannot. NO CARRIER ends whatever command is pending. A command received
  together with the `"\r"` of the one before is taken for an empty line. Lines behind
  a NUL in the same `read()` are lost. `at_open` clears `sp_response` without the lock,
  so a request thread that has been woken by the close and is slower than
  `mainLoop` dereferences NULL. `mainLoop` may connect before the old reader has called
  `setRadioState`, and the new channel's radio is then unavailable. `s_wait_response`
  outlives the connection: the next end of a call is reported as OK. `onATTimeout` is
  never called, because the only command with a time limit is sent by the
  function without the lock. `RIL_REQUEST_SET_NETWORK_SELECTION_AUTOMATIC` is never
  completed (`ril-telephone.c:588`).
- Voice. A transition to MEMO that is queued behind one to CONVERSATION enters the
  memo while the voice of the call runs, and both then use the same buffers:
  `MemoPure` needs the exception that `outlived` names. The prompt's end is
  posted before the flag is cleared, so the recording may be refused. A
  `RECORD_START` that is queued while a memo is stopped starts a recording that then
  blocks the call's voice. A thread that a stop gave up on clears the flag of the next
  session, or runs on in it. A set-up that fails leaves the flag set and, after the
  mixer or the other end has failed, the substream taken for ever. `hindered` names
  those of these that `CallHasVoice` and `PromptThenRecording` excuse. In a call both
  directions go through the same `buffer_resample`. `diff` is read before it is set
  when a recording fails at its first block.
- Clients. A request given up is executed later and its reply is taken for that of
  the next. What a second client sends waits until the first one leaves, and of
  several requests that pile up only the first is executed. An event may be
  written into a reply stream. `upil_ctrl_disconnect` clears `s_fd_monitor` and leaves
  `s_fd_sender`, so the monitor's socket is not closed. The daemon dies when a client
  leaves before its reply, and `main` runs on without a socket it could not set up.

## Proofs

TLAPS proves the following for every value of the constants that the named
assumptions allow: any number of timers, threads and clients, any delays, any
bound on requests, events and faults. A property that a run checks and the theorem
for it have the same definition. None of the safety properties is inductive as it
stands; each module states the invariant that is (`LoopInv`, `PhoneInv`, ...), which
TLC checked on the module's run before it was proved, and proves that `Init` implies
it, that every action keeps it, one lemma per action, and that it implies the
property.

| module | theorem | property |
| --- | --- | --- |
| `EventLoopProofs` | `TypeCorrect` | `TypeOK` |
| | `NfdsCovers` | `NfdsCoversWatched` |
| | `LinkedAtMostOnce` | `LinkedOnce` |
| | `SortedByTimeout` | `TimersSorted` |
| | `TimersNotSleptThrough`, `WatchesNotSleptThrough` | `NoTimerSleptThrough`, `NoWatchSleptThrough` |
| | `ImplementsTimerService` | `TimerServiceSpec` |
| `UpilSMProofs` | `TypeCorrect` | `TypeOK` |
| | `KeepAlive` | `OneKeepAlive` |
| | `TimedStates` | `TimedStatesEnd` |
| | `SingleTimers` | `OneTimerEach` |
| `TpLinkProofs` | `TypeCorrect` | `TypeOK` |
| | `AnswersFirst` | `AnswerBeforeNext` |
| | `ReportsArriveInOrder` | `ReportsArrive` |
| | `ImplementsTpService` | `TpServiceSpec` |
| | `LinesAreExact` | (an operator: `LineCount`) |
| `AtTokProofs` | `ClccReadBack` | (an operator: `callFromCLCCLine`) |
| `RilDriverProofs` | `TypeCorrect` | `TypeOK` |
| | `ClosedRadioHolds`, `OpenRadioHolds` | `ClosedRadio`, `OpenRadio` |
| | `AnswersAreMatched` | `AnswersMatch` |
| | `CallsAreReported` | `CallsReported` |
| | `ClccIsUnderstood` | `ClccUnderstood` |
| `VoiceThreadsProofs` | `TypeCorrect` | `TypeOK` |
| | `StopIsComplete` | `StopLeavesNothing` |
| | `MemoIsPure` | `MemoPure` |
| `ClientLibProofs` | `TypeCorrect` | `TypeOK` |
| | `MonitorIsInStep` | `MonitorInStep` |
| | `AnswersAreOwn` | `AnswerIsOwn` (action property) |
| | `ImplementsSocketService` | `SocketServiceSpec` |

The arguments:

- **EventLoop**, `LoopInv == TypeOK /\ Tables /\ Lists /\ TimersSorted /\ Sleep`.
  `Tables`: a descriptor has one slot, and `nfds` covers the watched ones; a slot can
  be found because there are fewer descriptors than slots. `Lists`: no event is linked twice, a
  descriptor that `processReadReadies` has yet to meet is not pending already, and
  `firePending`'s cursor is NULL only when nothing is left. `Sleep` is stronger than
  "not slept through": the pipe is in the set that `select()` is called with, and
  already between the copy of that set and the call a descriptor that is missing in
  it has a wakeup behind it.
  The lemmas on inserting, removing and moving events are about sequences only
  (`ListLemmas`: a list that is *thinned* keeps its order). The refinement maps each
  step of the loop to a step of `TimerService` or to a stutter; firing needs
  `TimersSorted`, since `TimerService` only lets the earliest timer fire.
- **UpilSM**, `PhoneInv == SMType /\ Chain /\ Timed`. `SMType` is `TypeOK` with the
  queue finite, which the operators that count messages need. `Chain` follows one token
  through its three forms, `USB_ATTACH`, the transition to SYNCING and `USB_ON`: at
  most one is queued, none while one is being handled, none before the device is
  attached, in OFFLINE it is not yet a `USB_ON`, outside OFFLINE it is nothing else,
  nobody asks for a transition to OFFLINE, and outside OFFLINE it exists unless a send
  was refused. `Timed`: each of the three timers is queued at most once, and not while
  it is being handled; what ends the current state is queued *or being handled*,
  because a handler waits for the device between taking its message and sending the
  next; SYNCING is entered only once, so its timer cannot be left from before. `Kept`,
  `Calm` and `Quiet` say what the queue operators leave alone; the few handlers that
  touch the token or a timer have a lemma each.
- **TpLink**. `AnswersFirst` rests on the invariant that lines without an answer and
  answers under way are never more than one together, and none while the sender is
  not waiting. `StreamInv` follows the lines from the receiver to the device: each
  line agrees with the device that sent it (`Sound`), the device after one line is the
  device before the next (`Chain`), and the device before the first line under way says
  what the buffer holds (`Holds`): nothing, the report that is open up to the last byte
  sent, or, when one was broken off, anything that is in doubt. So every clause is about
  one line and its neighbour, and no induction along the stream is needed. Besides,
  the numbers of the reports do not fall along the lines; no report is both whole and in
  doubt, and one that is open is neither; each whole report that is not posted has its
  last line under way; and what is posted is earlier than what is in the buffer and what
  is due. `Outcome` is the case analysis of `check_tppdu`: what a line makes of the
  buffer in each of these situations. The refinement rests on `StreamInv` and on the
  invariant of `AnswersFirst`. `LinesAreExact` needs no state:
  `make_cmd`'s lines hold the request, one fewer would not, and ten of them hold a speed
  and 56 digits.
- **AtTok**. `ClccReadBack` is for numbers of any length and needs no induction: the
  line of `ClccLine` is described by what stands at each position, every token is the
  part between two positions, and the cursor after each field is shown to be the rest of
  the line from the next position on (`at_tok_start` finds the colon, six fields follow, the
  sixth between quotes). `ClccIsUnderstood` adds that `fsk_to_string` turns digits into the
  symbols whose values they are (`FskDigits`).
- **RilDriver**, `DriverInv`, in three layers, each proved from the ones before.
  *Base*: the two sides agree on the link, each reader that has yet to report a
  closed channel stands for an end of the daemon (this bounds `late`, which `TypeOK`
  needs), the handshake has tries left while it tries, and the radio of a channel is
  unavailable or on its way up. *Match*: the answer to the driver's command is in one
  place at most (the command not yet read, the posted message, `s_wait_response`, a
  line under way, the response), except that the line of a call may be ahead of the
  result that is still to be written, so that what excludes one another is a final line
  and an answer still owed (`FinalIn`, `Owed`); only the last line of an answer is final
  (`FinalLast`), only ATD and AT+CHLD are left to the phone (`LeftToPhone`), RING and NO CARRIER and nothing else are news, and something owed to
  a command given up exists only on a channel that is `spoiled`. *Report*: as long as
  the framework does not know of the last ring or end, somebody will tell it: news in
  the stream, a NO CARRIER that was taken for a final response, a call command under
  way, or the initialisation still to come.
- **VoiceThreads**, `VoiceInv`. A living thread is named by an `s_tid` or `late`; the
  flag is clear while a stop waits, and nobody is named when the phone has settled
  in IDLE; only a thread between its set-up and its close holds a substream; its handle
  has the formats of its direction. While nothing has `outlived`, the one thread of a
  memo has all sound for itself (`Alone`), and only then is what it finds in the
  shared buffers at each stage what it has put there (`Stage`).
- **ClientLib**, `ClientInv == TypeOK /\ Table /\ Served`. `Table`: no descriptor number
  stands for two connections, every accepted connection has one, and `s_fdMonitor`
  is the accepted monitor's; a socket that is listened on therefore leaves a number
  free, and `accept()` returns it. `Served`: who waits in a backlog waits once and
  has no connection, a client that neither gave up nor was misled has at most one
  request or reply under way, the one it waits for, and a reply of success is for
  what the daemon has done since the client asked. The refinement uses `Table`, from
  which a socket serves at most one client and none while it is listened on
  (`OneServed`), and `Served`, from which a client that connects neither waits nor is
  served already.

**Assumptions.** Bounds and sizes are natural numbers; delays, line and report
sizes and the tries of the handshake are positive, a line holds at least the flag and
the size of a report; `Posts` and `Requests` are inputs
that the programs send; a timer is not a descriptor and NULL is neither; the
descriptors are finitely many and fewer than the slots (`RoomAssumption`: the daemon
uses eight of sixteen); `Nobody` is no client. TLC evaluates all of them on the
passing runs.

**Only model-checked.** Liveness under fairness: `TimersFire`, `IncomingEnds`,
`PromptReturns`, `CloseEndsWait`, `Reconnects`, `CallHasVoice`, `PromptThenRecording`,
`ThreadsEnd`, `NextClientServed`, `ClientNotices`; the installed provers have no rules for
`ENABLED` and fairness. Every invariant, action property
and refinement that a passing run checks is also proved. The
four violated properties are TLC's counterexamples.

## Not modelled

- `ril.h`: declarations of the platform's radio interface.
- `upil_audio/acap.cpp`, `aplay.cpp`, `uacap.c`, `uaplay.c`, `upil_tools/`, `upil_test/`: stand-alone
  programs, with copies of `usb_audio_pcm.c` and `mixer.c`; none is part of the daemon.
- `echo_reference.c`, the mmap transfer of `usb_audio_pcm.c`, the buffer provider of
  `resampler.c`, most of `mixer.c`: platform code that nothing in the daemon calls.
- `at_send_command_singleline`, `_numeric` and `_sms`, the deferred messages of `handler.c`,
  code under `#if 0`: no caller.
- Sample values, log output, options, the wait for the device node.

## What is left

Modelled, checked and proved: the event loop, the state machine on its queue, the
link to the telephone, the RIL driver with its socket, the voice threads, the sockets
with their clients. Left out on purpose, in the order of interest:

1. The unlocked counter and list of `handler.c` with reads and writes apart. Two sends
   that race may lose a message or break the list; nothing that could be stated of the
   pool survives that, and no document says that it should.
2. The bytes of a request and the dial parameters with the sizes of their buffers.
   `LinesAreExact` says which requests fit; no code refuses those that do not.
3. Liveness proofs, once a prover with rules for fairness is at hand.
