-------------------------------- MODULE UpilSM --------------------------------
(***************************************************************************)
(* The phone state machine: upil_sm.c on top of state_machine.c and        *)
(* handler.c.  One thread (the loop of the FSM's handler) takes messages   *)
(* from the handler's queue and runs the process or enter function of the  *)
(* current state; the device thread, the clients' thread and the audio     *)
(* threads only post messages.                                             *)
(*                                                                         *)
(* A queued message is a record: its id, its data, the time left until it  *)
(* is due, its place in the order the loop will fire it (TimerService is   *)
(* what makes that an order), and whether processTimeouts has moved it to  *)
(* the pending list.  Times are in units coarser than the clock: of two    *)
(* messages with the same time left, the one sent first is due first.      *)
(*                                                                         *)
(* A handler waits for the device's answer to each command it sends, so    *)
(* other threads post between the moment its message leaves the queue      *)
(* (TakeMessage) and its effects (ProcessMessage).  It runs to its end     *)
(* before the next one starts, and reads nothing that another thread       *)
(* writes except s_audio_running.                                          *)
(***************************************************************************)
EXTENDS Integers, FiniteSets

CONSTANTS
  MAX_MSG_QUEUE_SIZE,
  USB_KEEP_ALIVE_TIMER, SYNCING_TIMEOUT, DIAL_DELAY, DIALINGTIMEOUT,
  RING_TIMEOUT, RECORD_START_TIMEOUT,
  Posts,          \* the messages other threads post in this instance
  MaxInput        \* bound: other threads post while fewer messages are due

ASSUME QueueAssumption ==
  /\ MAX_MSG_QUEUE_SIZE \in Nat
  /\ MaxInput \in Nat

ASSUME DelayAssumption ==
  {USB_KEEP_ALIVE_TIMER, SYNCING_TIMEOUT, DIAL_DELAY, DIALINGTIMEOUT,
   RING_TIMEOUT, RECORD_START_TIMEOUT} \subseteq Nat \ {0}

\* UPIL_SM_*, the states of my_state_table.
States == {"OFFLINE", "SYNCING", "IDLE", "DIALING", "INCOMING",
           "CONVERSATION", "MEMO"}

\* What the device reports (tppdu2event maps every kind of hook to two
\* events); "OTHER" is every event that no state looks at.
DeviceEvents == {"PHONE_STATE", "HISTORY_FINISHED", "HFREE_HOOK_ON",
                 "HFREE_HOOK_OFF", "CALL_ID", "RING", "DIAL_END", "REDIAL",
                 "BUSY_ON", "OTHER"}

\* What the audio threads post.
AudioEvents == {"CTL_RECORD_START", "RECORD_END"}

Inputs == DeviceEvents \cup AudioEvents \cup
          {"USB_ATTACH", "HANDFREE_ON", "HANDFREE_OFF"}

\* What the state machine sends to itself.
Internal == {"SM_TRANSITION", "USB_ON", "SYNC_TIMEOUT", "ASK_DTMF_TX",
             "DIAL_END_CHECK", "RING_TIMEOUT", "RECORD_START"}

MsgIds == Inputs \cup Internal

ASSUME PostsAssumption == Posts \subseteq Inputs

\* msg->data: the target of a transition, whether a number came along, or NULL.
Data == States \cup {"number", "NULL"}

\* A transition carries a state and nothing else does.
Payload(m) == m.what = "SM_TRANSITION" <=> m.data \in States

Messages ==
  {m \in [what : MsgIds, data : Data, left : Nat, pos : Nat, pend : BOOLEAN] : Payload(m)}

Queues == [msgs : SUBSET Messages, lost : BOOLEAN]

\* The message a handler works on; it is in no list any more.
Taken == {m \in [what : MsgIds, data : Data] : Payload(m)}

VARIABLES
  cur,         \* fsm->cur_state
  queue,       \* msgs: the queued messages; lost: a send has failed (history)
  busy,        \* {m} while the handler of m runs, or {}
  ring_count,  \* s_ring_count
  outgoing,    \* fsm->last_outgoing_num: "number" or "NULL" (empty)
  audio,       \* s_audio_running and the threads that run: "off" is 0
  alive,       \* the process has not faulted
  attached,    \* setup_device has run
  offhook      \* the device: the line is off hook

smVars == <<cur, ring_count, outgoing>>
envVars == <<attached, offhook>>
vars == <<cur, queue, busy, ring_count, outgoing, audio, alive, attached, offhook>>

TypeOK ==
  /\ cur \in States
  /\ queue \in Queues
  /\ busy \in SUBSET Taken
  /\ ring_count \in Nat
  /\ outgoing \in {"number", "NULL"}
  /\ audio \in {"off", "talk", "play", "ending", "record"}
  /\ alive \in BOOLEAN
  /\ attached \in BOOLEAN
  /\ offhook \in BOOLEAN

-----------------------------------------------------------------------------
(* The message queue.  Each operator takes a queue to the queue afterwards. *)

Renumber(S) ==
  {[m EXCEPT !.pos = Cardinality({k \in S : k.pos <= m.pos})] : m \in S}

\* Variant: the delay is rounded down by one.
PostEarly(q, what, data, delay) ==
  [q EXCEPT !.msgs = @ \cup {[what |-> what, data |-> data, left |-> delay - 1,
                              pos |-> Cardinality(@) + 1, pend |-> FALSE]}]

\* upil_timer_add: the message goes behind everything that is due before it.
Place(S, delay) == Cardinality({k \in S : k.pend \/ k.left <= delay}) + 1

MakeRoom(S, p) == {IF k.pos < p THEN k ELSE [k EXCEPT !.pos = k.pos + 1] : k \in S}

\* obtain, which refuses the last message of the pool, then send_message_delay.
Post(q, what, data, delay) ==
  IF Cardinality(q.msgs) + 1 < MAX_MSG_QUEUE_SIZE
    THEN LET p == Place(q.msgs, delay)
             m == [what |-> what, data |-> data, left |-> delay, pos |-> p, pend |-> FALSE]
         IN [q EXCEPT !.msgs = MakeRoom(q.msgs, p) \cup {m}]
    ELSE [q EXCEPT !.lost = TRUE]

\* sm_remove_message_id: every message of that id leaves, wherever its event is.
Purge(q, what) == [q EXCEPT !.msgs = Renumber({k \in q.msgs : k.what # what})]

\* remove_from_list of the message that is about to be processed.
Take(m) == [queue EXCEPT !.msgs = Renumber(queue.msgs \ {m})]

\* sm_transition_to: the transition is a message too.
PostTransition(q, state) == Post(q, "SM_TRANSITION", state, 0)

\* The message whose event firePending calls.
Current(m) == /\ m \in queue.msgs
              /\ m.pend
              /\ \A k \in queue.msgs : m.pos <= k.pos

\* firePending has read ev->next before it called the handler: when the handler
\* frees that message the process faults (see EventLoop, FireFreed).
FreesNext(what) == \E k \in queue.msgs : Current(k) /\ k.what = what

Purges(ids) == alive' = ~(\E what \in ids : FreesNext(what))

Queued(what) == {k \in queue.msgs : k.what = what}

\* A timer that is put off: removed, then sent again.
RearmSync(q) ==
  Post(Purge(q, "SYNC_TIMEOUT"), "SYNC_TIMEOUT", "NULL", SYNCING_TIMEOUT)

\* Variant: the timer is removed and not sent again.
RearmDialEndForgotten(q) == Purge(q, "DIAL_END_CHECK")

RearmDialEnd(q) ==
  Post(Purge(q, "DIAL_END_CHECK"), "DIAL_END_CHECK", "NULL", DIALINGTIMEOUT)

\* Variants: not sent again; not removed first; the memo is put off as well.
RearmRingForgotten(q) == Purge(q, "RING_TIMEOUT")
RearmRingTwice(q) == Post(q, "RING_TIMEOUT", "NULL", RING_TIMEOUT)
RearmRingAndMemo(q) ==
  Post(Purge(Post(Purge(q, "RING_TIMEOUT"), "RING_TIMEOUT", "NULL", RING_TIMEOUT),
             "RECORD_START"), "RECORD_START", "NULL", RECORD_START_TIMEOUT)

RearmRing(q) ==
  Post(Purge(q, "RING_TIMEOUT"), "RING_TIMEOUT", "NULL", RING_TIMEOUT)

\* upil_audio_start, upil_audio_play_file and upil_audio_record_file: nothing
\* while s_audio_running is set; the thread may not start.  One that cannot set
\* up its devices returns and leaves s_audio_running set: it never does more.
StartAudio(kind) == audio' \in IF audio = "off" THEN {kind, "off"} ELSE {audio}

-----------------------------------------------------------------------------
(* The process functions.  Each handles message m in its own state; sends   *)
(* to the device and to the monitor change nothing that is modelled here.   *)

\* Variant: the keep-alive is answered and not sent again.
DefaultProcessOnce(m) == UNCHANGED <<queue, smVars, audio, alive, envVars>>

\* default_process outside OFFLINE: keep the device alive, ignore the rest.
\* Nothing posts UPIL_EVT_USB_DETACH.
DefaultProcess(m) ==
  /\ queue' = IF m.what = "USB_ON"
                THEN Post(queue, "USB_ON", "NULL", USB_KEEP_ALIVE_TIMER)
                ELSE queue
  /\ UNCHANGED <<smVars, audio, alive, envVars>>

OfflineProcess(m) ==
  /\ cur = "OFFLINE"
  /\ queue' = IF m.what = "USB_ATTACH"
                THEN PostTransition(queue, "SYNCING")
                ELSE queue
  /\ UNCHANGED <<smVars, audio, alive, envVars>>

SyncingProcess(m) ==
  /\ cur = "SYNCING"
  /\ \/ /\ m.what = "SYNC_TIMEOUT"
        /\ queue' = PostTransition(queue, "IDLE")
        /\ UNCHANGED <<smVars, audio, alive, envVars>>
     \/ /\ m.what = "PHONE_STATE"
        /\ queue' = RearmSync(queue)
        /\ Purges({"SYNC_TIMEOUT"})
        /\ UNCHANGED <<smVars, audio, envVars>>
     \/ /\ m.what = "HISTORY_FINISHED"
        /\ queue' = PostTransition(Purge(queue, "SYNC_TIMEOUT"), "IDLE")
        /\ Purges({"SYNC_TIMEOUT"})
        /\ UNCHANGED <<smVars, audio, envVars>>
     \/ /\ m.what \notin {"SYNC_TIMEOUT", "PHONE_STATE", "HISTORY_FINISHED"}
        /\ DefaultProcess(m)

IdleProcess(m) ==
  /\ cur = "IDLE"
  /\ \/ /\ m.what = "HANDFREE_ON"
        /\ outgoing' = m.data
        /\ UNCHANGED <<queue, cur, ring_count, audio, alive, envVars>>
     \/ /\ m.what = "HFREE_HOOK_ON"
        /\ queue' = PostTransition(queue, "DIALING")
        /\ UNCHANGED <<smVars, audio, alive, envVars>>
     \/ /\ m.what = "CALL_ID"
        /\ queue' = PostTransition(queue, "INCOMING")
        /\ UNCHANGED <<smVars, audio, alive, envVars>>
     \/ /\ m.what = "RING"
        /\ ring_count' = ring_count + 1
        /\ queue' = IF ring_count' >= 2 THEN PostTransition(queue, "INCOMING")
                                        ELSE queue
        /\ UNCHANGED <<cur, outgoing, audio, alive, envVars>>
     \/ /\ m.what \notin {"HANDFREE_ON", "HFREE_HOOK_ON", "CALL_ID", "RING"}
        /\ DefaultProcess(m)

\* A hook-off report is not looked at in this state.
DialingProcess(m) ==
  /\ cur = "DIALING"
  /\ \/ /\ m.what = "ASK_DTMF_TX"
        /\ queue' = Post(queue, "DIAL_END_CHECK", "NULL", DIALINGTIMEOUT)
        /\ UNCHANGED <<smVars, audio, alive, envVars>>
     \/ /\ m.what \in {"DIAL_END", "DIAL_END_CHECK"}
        /\ queue' = PostTransition(queue, "CONVERSATION")
        /\ UNCHANGED <<smVars, audio, alive, envVars>>
     \/ /\ m.what = "REDIAL"
        /\ queue' = RearmDialEnd(queue)
        /\ Purges({"DIAL_END_CHECK"})
        /\ UNCHANGED <<smVars, audio, envVars>>
     \/ /\ m.what \notin {"ASK_DTMF_TX", "DIAL_END", "DIAL_END_CHECK", "REDIAL"}
        /\ DefaultProcess(m)

IncomingProcess(m) ==
  /\ cur = "INCOMING"
  /\ \/ /\ m.what = "HFREE_HOOK_ON"
        /\ queue' = PostTransition(queue, "CONVERSATION")
        /\ UNCHANGED <<smVars, audio, alive, envVars>>
     \/ /\ m.what = "RING"
        /\ queue' = RearmRing(queue)
        /\ Purges({"RING_TIMEOUT"})
        /\ UNCHANGED <<smVars, audio, envVars>>
     \/ /\ m.what = "RING_TIMEOUT"
        /\ queue' = PostTransition(queue, "IDLE")
        /\ UNCHANGED <<smVars, audio, alive, envVars>>
     \/ /\ m.what = "RECORD_START"
        /\ queue' = PostTransition(queue, "MEMO")
        /\ UNCHANGED <<smVars, audio, alive, envVars>>
     \/ /\ m.what \notin {"HFREE_HOOK_ON", "RING", "RING_TIMEOUT", "RECORD_START"}
        /\ DefaultProcess(m)

ConversationProcess(m) ==
  /\ cur = "CONVERSATION"
  /\ \/ /\ m.what = "HFREE_HOOK_OFF"
        /\ queue' = PostTransition(queue, "IDLE")
        /\ UNCHANGED <<smVars, audio, alive, envVars>>
     \/ /\ m.what = "BUSY_ON"
        /\ queue' = Post(queue, "HANDFREE_OFF", "NULL", 0)
        /\ UNCHANGED <<smVars, audio, alive, envVars>>
     \/ /\ m.what \notin {"HFREE_HOOK_OFF", "BUSY_ON"}
        /\ DefaultProcess(m)

MemoProcess(m) ==
  /\ cur = "MEMO"
  /\ \/ /\ m.what = "HFREE_HOOK_ON"
        /\ StartAudio("play")
        /\ UNCHANGED <<queue, smVars, alive, envVars>>
     \/ /\ m.what = "HANDFREE_ON"
        /\ audio' = "off"
        /\ queue' = PostTransition(queue, "CONVERSATION")
        /\ UNCHANGED <<smVars, alive, envVars>>
     \/ /\ m.what = "HANDFREE_OFF"
        /\ audio' = "off"
        /\ UNCHANGED <<queue, smVars, alive, envVars>>
     \/ /\ m.what = "HFREE_HOOK_OFF"
        /\ audio' = "off"
        /\ queue' = PostTransition(queue, "IDLE")
        /\ UNCHANGED <<smVars, alive, envVars>>
     \/ /\ m.what = "BUSY_ON"
        /\ queue' = Post(queue, "HANDFREE_OFF", "NULL", 0)
        /\ UNCHANGED <<smVars, audio, alive, envVars>>
     \/ /\ m.what = "CTL_RECORD_START"
        /\ StartAudio("record")
        /\ UNCHANGED <<queue, smVars, alive, envVars>>
     \/ /\ m.what \notin {"HFREE_HOOK_ON", "HANDFREE_ON", "HANDFREE_OFF",
                          "HFREE_HOOK_OFF", "BUSY_ON", "CTL_RECORD_START"}
        /\ DefaultProcess(m)

-----------------------------------------------------------------------------
(* transition_to and the enter functions.  No state has an exit function,   *)
(* and nothing is ever deferred.                                            *)

SyncingEnter ==
  /\ queue' = Post(Post(queue, "USB_ON", "NULL", USB_KEEP_ALIVE_TIMER),
                   "SYNC_TIMEOUT", "NULL", SYNCING_TIMEOUT)
  /\ UNCHANGED <<ring_count, outgoing, audio, alive>>

\* Variant: every return to IDLE starts a keep-alive of its own.
IdleEnterKeepAlive ==
  /\ audio' = "off"
  /\ ring_count' = 0
  /\ queue' = Post(queue, "USB_ON", "NULL", USB_KEEP_ALIVE_TIMER)
  /\ UNCHANGED <<outgoing, alive>>

IdleEnter ==
  /\ audio' = "off"
  /\ ring_count' = 0
  /\ UNCHANGED <<queue, outgoing, alive>>

DialingEnter ==
  /\ queue' = IF outgoing = "number"
                THEN Post(queue, "ASK_DTMF_TX", "number", DIAL_DELAY)
                ELSE queue
  /\ StartAudio("talk")
  /\ UNCHANGED <<ring_count, outgoing, alive>>

IncomingEnter ==
  /\ queue' = Post(Purge(RearmRing(queue), "RECORD_START"),
                   "RECORD_START", "NULL", RECORD_START_TIMEOUT)
  /\ Purges({"RING_TIMEOUT", "RECORD_START"})
  /\ UNCHANGED <<ring_count, outgoing, audio>>

ConversationEnter ==
  /\ StartAudio("talk")
  /\ UNCHANGED <<queue, ring_count, outgoing, alive>>

MemoEnter ==
  /\ UNCHANGED <<queue, ring_count, outgoing, audio, alive>>

\* cur_state changes before the enter function runs; no other thread acts on
\* it in between.
TransitionTo(m) ==
  /\ m.what = "SM_TRANSITION"
  /\ cur' = m.data
  /\ \/ /\ m.data = cur
        /\ UNCHANGED <<queue, ring_count, outgoing, audio, alive>>
     \/ /\ m.data # cur
        /\ \/ m.data = "SYNCING" /\ SyncingEnter
           \/ m.data = "IDLE" /\ IdleEnter
           \/ m.data = "DIALING" /\ DialingEnter
           \/ m.data = "INCOMING" /\ IncomingEnter
           \/ m.data = "CONVERSATION" /\ ConversationEnter
           \/ m.data = "MEMO" /\ MemoEnter
  /\ UNCHANGED envVars

\* sm_process_message: the message leaves the queue ...
TakeMessage(m) ==
  /\ alive
  /\ busy = {}
  /\ Current(m)
  /\ queue' = Take(m)
  /\ busy' = {[what |-> m.what, data |-> m.data]}
  /\ UNCHANGED <<smVars, audio, alive, envVars>>

\* ... and is handled by the current state.  The result is always 0.
ProcessMessage(m) ==
  /\ alive
  /\ busy = {m}
  /\ busy' = {}
  /\ \/ TransitionTo(m)
     \/ /\ m.what # "SM_TRANSITION"
        /\ \/ OfflineProcess(m) \/ SyncingProcess(m) \/ IdleProcess(m)
           \/ DialingProcess(m) \/ IncomingProcess(m)
           \/ ConversationProcess(m) \/ MemoProcess(m)

-----------------------------------------------------------------------------
(* The loop around the handlers, and the other threads.                    *)

\* processTimeouts, once firePending has emptied the pending list.
ProcessTimeouts ==
  /\ alive
  /\ busy = {}
  /\ \A k \in queue.msgs : ~k.pend
  /\ \E k \in queue.msgs : k.left = 0
  /\ queue' = [queue EXCEPT !.msgs =
                 {[k EXCEPT !.pend = (k.left = 0)] : k \in @}]
  /\ UNCHANGED <<busy, smVars, audio, alive, envVars>>

Tick ==
  /\ alive
  /\ \E k \in queue.msgs : k.left > 0
  /\ queue' = [queue EXCEPT !.msgs =
                 {IF k.left > 0 THEN [k EXCEPT !.left = k.left - 1] ELSE k : k \in @}]
  /\ UNCHANGED <<busy, smVars, audio, alive, envVars>>

\* The bound: other threads post while few messages wait to be handled.
InputFits == Cardinality({k \in queue.msgs : k.left = 0}) + Cardinality(busy) < MaxInput

\* upil_sm_send_msg and its like, from another thread.
Send(what, data) ==
  /\ alive
  /\ what \in Posts
  /\ InputFits
  /\ queue' = Post(queue, what, data, 0)
  /\ UNCHANGED <<busy, smVars, alive>>

\* setup_device: once, from the main thread.
Attach ==
  /\ ~attached
  /\ attached' = TRUE
  /\ Send("USB_ATTACH", "NULL")
  /\ UNCHANGED <<audio, offhook>>

\* upil_sm_start_dail (with and without a number) and upil_sm_hangup.
Dial(number) ==
  /\ Send("HANDFREE_ON", number)
  /\ UNCHANGED <<audio, envVars>>

Hangup ==
  /\ Send("HANDFREE_OFF", "NULL")
  /\ UNCHANGED <<audio, envVars>>

\* The device (external): the hook changes by hand or on command, the line
\* rings while it is on hook, the rest is reported while it is off hook.
HookOn ==
  /\ attached /\ ~offhook
  /\ offhook' = TRUE
  /\ Send("HFREE_HOOK_ON", "NULL")
  /\ UNCHANGED <<audio, attached>>

HookOff ==
  /\ attached /\ offhook
  /\ offhook' = FALSE
  /\ Send("HFREE_HOOK_OFF", "NULL")
  /\ UNCHANGED <<audio, attached>>

Report(event) ==
  /\ attached
  /\ event \in {"RING", "CALL_ID"} => ~offhook
  /\ event \in {"DIAL_END", "REDIAL", "BUSY_ON"} => offhook
  /\ Send(event, "NULL")
  /\ UNCHANGED <<audio, envVars>>

\* file_to_usba at the end of the prompt: s_play_endfunc posts the message,
\* and only then s_audio_running is cleared.
PromptEnds ==
  /\ audio = "play"
  /\ audio' = "ending"
  /\ Send("CTL_RECORD_START", "NULL")
  /\ UNCHANGED envVars

\* An audio thread ends: the play thread after its message, the others on an
\* error of the sound devices.
AudioThreadExits ==
  /\ alive
  /\ audio \in {"ending", "talk", "record"}
  /\ audio' = "off"
  /\ UNCHANGED <<busy, smVars, queue, alive, envVars>>

\* usba_to_file after its time is up: s_audio_running, then s_record_endfunc.
RecordingEnds ==
  /\ audio = "record"
  /\ audio' = "off"
  /\ Send("RECORD_END", "NULL")
  /\ UNCHANGED envVars

Init ==
  /\ cur = "OFFLINE"
  /\ queue = [msgs |-> {}, lost |-> FALSE]
  /\ busy = {}
  /\ ring_count = 0
  /\ outgoing = "NULL"
  /\ audio = "off"
  /\ alive = TRUE
  /\ attached = FALSE
  /\ offhook = FALSE

SMStep ==
  \/ \E m \in queue.msgs : TakeMessage(m)
  \/ \E m \in busy : ProcessMessage(m)

Next ==
  \/ SMStep
  \/ ProcessTimeouts
  \/ Tick
  \/ Attach
  \/ \E number \in {"number", "NULL"} : Dial(number)
  \/ Hangup
  \/ HookOn
  \/ HookOff
  \/ \E event \in DeviceEvents \ {"HFREE_HOOK_ON", "HFREE_HOOK_OFF"} : Report(event)
  \/ PromptEnds
  \/ AudioThreadExits
  \/ RecordingEnds

Spec == Init /\ [][Next]_vars

\* The loop thread keeps running and time passes.
Fairness == WF_vars(SMStep) /\ WF_vars(ProcessTimeouts) /\ WF_vars(Tick)

FairSpec == Spec /\ Fairness

-----------------------------------------------------------------------------
(* Properties.                                                             *)

\* A message with this id is queued or being handled.
InFlight(what) == Queued(what) # {} \/ \E m \in busy : m.what = what

AtMostOne(what) ==
  /\ \A k, l \in Queued(what) : k = l
  /\ (\E m \in busy : m.what = what) => Queued(what) = {}

(* The keep-alive of default_process re-arms itself, so one too many would  *)
(* never go away and one too few would stop it: outside OFFLINE there is    *)
(* exactly one, whatever the calls do, until a send is refused.             *)
OneKeepAlive ==
  /\ AtMostOne("USB_ON")
  /\ cur # "OFFLINE" /\ ~queue.lost => InFlight("USB_ON")

(* SYNCING is left by a timeout that every PHONE_STATE report removes and   *)
(* sends again, INCOMING by one that every ring does, DIALING (a number     *)
(* was given) by one that every digit does.  None of them is ever without   *)
(* the message that will end it.                                            *)
TimedStatesEnd ==
  ~queue.lost =>
    /\ cur = "SYNCING" => \E w \in {"SYNC_TIMEOUT", "SM_TRANSITION"} : InFlight(w)
    /\ cur = "INCOMING" => \E w \in {"RING_TIMEOUT", "SM_TRANSITION"} : InFlight(w)
    /\ cur = "DIALING" /\ outgoing = "number" =>
         \E w \in {"ASK_DTMF_TX", "DIAL_END_CHECK", "SM_TRANSITION"} : InFlight(w)

(* A timer that is sent again has been removed first: a second one would    *)
(* end a later ringing early, or send a later caller to the memo at once.   *)
OneTimerEach ==
  \A what \in {"SYNC_TIMEOUT", "RING_TIMEOUT", "RECORD_START"} : AtMostOne(what)

(* An unanswered call does not ring for ever: each ring puts RING_TIMEOUT   *)
(* off, but none puts RECORD_START off.                                     *)
IncomingEnds == cur = "INCOMING" ~> (cur # "INCOMING" \/ queue.lost \/ ~alive)

(* upil_sm.c:129: the keep-alive is sent every five seconds.                *)
KeepAliveRuns == cur # "OFFLINE" => InFlight("USB_ON")

(* upil_sm.c:307: a call is handed to the memo when it was not answered:    *)
(* never out of a conversation.                                             *)
MemoOnlyUnanswered == [][cur' = "MEMO" => cur # "CONVERSATION"]_cur

(* state_machine.c:253: sm_remove_message_id deletes every message of the   *)
(* id, and the loop goes on with the others.                                *)
RemovalIsSafe == alive
=============================================================================
