---------------------------- MODULE VoiceThreads ----------------------------
(***************************************************************************)
(* The voice threads, upil_audio.cpp, and the state machine's thread that  *)
(* starts and stops them: usba_to_hosta ("in"), hosta_to_usba ("out"),     *)
(* file_to_usba ("play") and usba_to_file ("record") share one flag,       *)
(* s_audio_running, which every one of them clears at its end.             *)
(*                                                                         *)
(* The state machine is the one of UpilSM as far as it calls               *)
(* upil_audio_*: its queue with the transitions in it, and its thread,     *)
(* which waits inside upil_audio_start and upil_audio_stop.  pthread_create*)
(* reports an error as a positive number, which the callers take for       *)
(* success.                                                                *)
(***************************************************************************)
EXTENDS UsbSound, Sequences, FiniteSets

CONSTANTS
  BlocksEach,   \* bound: blocks of a prompt or a recording, 5 for track ready
  MaxEvents,    \* bound on what the line and the user do
  MaxInbox,     \* bound: the line and the user wait while so much is queued
  Wavs          \* the formats of welcome.wav: <<rate, channels>>

ASSUME VoiceAssumption ==
  /\ BlocksEach \in Nat \ {0}
  /\ MaxEvents \in Nat
  /\ MaxInbox \in Nat
  /\ Wavs \subseteq (Rates \ {0}) \X (1..2)

VARIABLES
  s_audio_running,
  s_track_ready,
  tid,        \* s_tid_audio_in, _out, _play and _record: a thread, or 0
  kind,       \* kind[t]: what thread t runs
  pc,         \* pc[t]: where it is; "none" when there is no such thread
  count,      \* count[t]: blocks delivered so far
  over,       \* over[t]: whether diff has reached the time limit ("unset" first)
  mode,       \* the state of the state machine
  at,         \* "ready", or inside upil_audio_start or upil_audio_stop
  after,      \* the state to go to when upil_audio_stop returns
  inbox,      \* the state machine's messages
  events,
  hindered,   \* history: since the last stop a start has met leftovers, or found
              \* s_audio_running set without a thread of its kind
  before,     \* history: the faults up to the last stop
  late,       \* history: the threads that run on and no s_tid names any more
  outlived    \* history: a thread has lived longer than its call or its memo

threads == <<s_audio_running, s_track_ready, tid, kind, pc, count, over>>
caller == <<mode, at, after, inbox, events, hindered, before, late, outlived>>
vars == <<sound, threads, caller>>

Kinds == {"in", "out", "play", "record"}
Modes == {"IDLE", "DIALING", "INCOMING", "CONVERSATION", "MEMO"}
Steps == {"none", "setup", "setup2", "loop", "fetch", "resample", "channels", "copy",
          "deliver", "close", "post", "clear", "report"}
World == {"HOOK_ON", "HOOK_OFF", "DIAL_END", "RING", "RING_TIMEOUT", "NO_ANSWER",
          "HANDFREE_ON", "HANDFREE_OFF"}

\* A state stands for SM_TRANSITION to it.
Messages == World \cup {"RECORD_START", "RECORD_END"} \cup Modes

TypeOK ==
  /\ SoundTypeOK
  /\ s_audio_running \in BOOLEAN
  /\ s_track_ready \in BOOLEAN
  /\ tid \in [Kinds -> Threads \cup {0}]
  /\ kind \in [Threads -> Kinds]
  /\ pc \in [Threads -> Steps]
  /\ count \in [Threads -> 0..BlocksEach]
  /\ over \in [Threads -> {"unset", "no", "yes"}]
  /\ mode \in Modes
  /\ at \in {"ready", "starting", "stopping"}
  /\ after \in Modes \cup {"stay"}
  /\ inbox \in Seq(Messages)
  /\ events \in 0..MaxEvents
  /\ hindered \in BOOLEAN
  /\ before \in 0..MaxFaults
  /\ late \subseteq Threads
  /\ outlived \in BOOLEAN

Init ==
  /\ SoundInit
  /\ s_audio_running = FALSE
  /\ s_track_ready = FALSE
  /\ tid = [k \in Kinds |-> 0]
  /\ kind = [t \in Threads |-> "in"]
  /\ pc = [t \in Threads |-> "none"]
  /\ count = [t \in Threads |-> 0]
  /\ over = [t \in Threads |-> "unset"]
  /\ mode = "IDLE"
  /\ at = "ready"
  /\ after = "stay"
  /\ inbox = <<>>
  /\ events = 0
  /\ hindered = FALSE
  /\ before = 0
  /\ late = {}
  /\ outlived = FALSE

Alive(t) == pc[t] # "none"
Dir(t) == IF kind[t] \in {"in", "record"} THEN "IN" ELSE "OUT"

-----------------------------------------------------------------------------
(* The threads.                                                            *)

Goto(t, step) == pc' = [pc EXCEPT ![t] = step]

\* A return from the thread's function; nothing of the module's state changes.
Return(t) ==
  /\ pc' = [pc EXCEPT ![t] = "none"]
  /\ late' = late \ {t}

shared_flags == <<s_audio_running, s_track_ready, tid, kind>>
others == <<mode, at, after, events, hindered, before, outlived>>

\* usba_setup_record or usba_setup_track, then the next step or the return.
SetupUsb(t, rate, channels, next) ==
  \/ /\ \/ SetupOk(t, Dir(t), rate, channels)
        \/ SetupQuiet(t, Dir(t), rate, channels)
        \/ SetupBad(t, Dir(t), rate, channels)
        \/ SetupNoStatus(t, Dir(t), rate, channels)
     /\ Goto(t, next)
     /\ UNCHANGED late
  \/ /\ SetupNoMixer(t, Dir(t)) \/ SetupNoResampler(t, Dir(t), rate)
     /\ Return(t)

\* The other end cannot be opened: what the thread has open already stays open for
\* ever.
SetupOther(t, next) ==
  \/ /\ Goto(t, next)
     /\ UNCHANGED <<sound, late>>
  \/ /\ Fault
     /\ Return(t)
     /\ LoseHandle(t)
     /\ UNCHANGED <<cur, data, shared, volume>>

\* hosta_setup_track and hosta_setup_record.
SetupHost(t, next) == kind[t] \in {"in", "out"} /\ SetupOther(t, next)

\* file_setup_record, of the prompt; the header of the file gives its format.
SetupPrompt(t, next) == kind[t] = "play" /\ SetupOther(t, next)

\* file_setup_track, of the recording.
SetupRecording(t, next) == kind[t] = "record" /\ SetupOther(t, next)

SetupEnd(t, next) == SetupHost(t, next) \/ SetupPrompt(t, next) \/ SetupRecording(t, next)

Setup(t) ==
  /\ \/ /\ pc[t] = "setup"
        /\ IF Dir(t) = "IN" THEN SetupUsb(t, 44100, 2, "setup2") ELSE SetupEnd(t, "setup2")
     \/ /\ pc[t] = "setup2"
        /\ CASE Dir(t) = "IN" -> SetupEnd(t, "loop")
             [] kind[t] = "out" -> SetupUsb(t, 44100, 2, "loop")
             [] OTHER -> \E w \in Wavs : SetupUsb(t, w[1], w[2], "loop")
  /\ UNCHANGED <<shared_flags, count, over, others, inbox>>

\* while (s_audio_running): the test is one step with what follows it, which no
\* other thread can see.  pcm_read starts over ("fetch") without a test.
Leave(t) ==
  /\ pc[t] = "loop"
  /\ ~s_audio_running
  /\ Goto(t, "close")
  /\ UNCHANGED <<sound, shared_flags, count, over, others, inbox, late>>

Fetching(t) == pc[t] = "fetch" \/ (pc[t] = "loop" /\ s_audio_running)

\* The stages of usb_audio_read, then of usb_audio_write, that are left.
AfterRead(t) ==
  IF NeedsResample(handle[t]) /\ Fetching(t) THEN "resample"
  ELSE IF NeedsChannels(handle[t]) /\ pc[t] # "channels" THEN "channels"
  ELSE "copy"

AfterFetch(t) ==
  IF NeedsChannels(handle[t]) /\ Fetching(t) THEN "channels"
  ELSE IF NeedsResample(handle[t]) /\ pc[t] # "resample" THEN "resample"
  ELSE "deliver"

NextStage(t) == IF Dir(t) = "IN" THEN AfterRead(t) ELSE AfterFetch(t)

Own(t, src) ==
  /\ data' = [data EXCEPT ![t] = [src |-> src, rate |-> handle[t].inrate, ch |-> handle[t].source]]
  /\ UNCHANGED <<holder, handle, cur, shared, volume, faults>>

\* One block from its source.  A handle that is not open has a buffer of size
\* 0: hosta_read_data reads nothing and fread is at the end of the file.
Fetch(t) ==
  /\ Fetching(t)
  /\ \/ /\ Dir(t) = "IN"
        /\ \/ PcmRead(t) /\ Goto(t, NextStage(t))
           \/ Underrun(t) /\ Goto(t, "fetch")
           \/ PcmFails(t) /\ Goto(t, "close")
     \/ /\ kind[t] = "out"
        /\ \/ Own(t, "host") /\ Goto(t, NextStage(t))
           \/ /\ handle[t].fd = "ok"
              /\ Fault
              /\ Goto(t, "close")
              /\ UNCHANGED <<holder, handle, cur, data, shared, volume>>
     \/ /\ kind[t] = "play"
        /\ \/ /\ count[t] < BlocksEach
              /\ handle[t].fd = "ok"
              /\ Own(t, "prompt")
              /\ Goto(t, NextStage(t))
           \/ /\ count[t] > 0 \/ handle[t].fd = "bad"
              /\ Goto(t, "close")
              /\ UNCHANGED sound
  /\ UNCHANGED <<shared_flags, count, over, others, inbox, late>>

Convert(t) ==
  /\ \/ pc[t] = "resample" /\ Resample(t) /\ Goto(t, NextStage(t))
     \/ pc[t] = "channels" /\ ConvertChannels(t) /\ Goto(t, NextStage(t))
     \/ pc[t] = "copy" /\ CopyOut(t) /\ Goto(t, "deliver")
  /\ UNCHANGED <<shared_flags, count, over, others, inbox, late>>

\* Variant: the count has no limit.
CountedOn(t) == count' = [count EXCEPT ![t] = @ + 1]
Counted(t) == count' = [count EXCEPT ![t] = IF @ < BlocksEach THEN @ + 1 ELSE @]

Delivered(t) ==
  /\ data' = [data EXCEPT ![t] = Silence]
  /\ UNCHANGED <<holder, handle, cur, shared, volume, faults>>

\* usb_audio_write ends in pcm_write.
DeliverUsb(t) ==
  /\ pc[t] = "deliver"
  /\ Dir(t) = "OUT"
  /\ \/ /\ PcmWrite(t)
        /\ Goto(t, "loop")
        /\ IF kind[t] = "play" THEN Counted(t) ELSE UNCHANGED count
     \/ Underrun(t) /\ UNCHANGED <<pc, count>>
     \/ PcmFails(t) /\ Goto(t, "close") /\ UNCHANGED count
  /\ UNCHANGED <<shared_flags, over, others, inbox, late>>

\* hosta_write_data and the count of blocks that makes the track ready.
DeliverHost(t) ==
  /\ pc[t] = "deliver"
  /\ kind[t] = "in"
  /\ \/ /\ Goto(t, "loop")
        /\ IF s_track_ready THEN UNCHANGED count ELSE Counted(t)
        /\ s_track_ready' = (s_track_ready \/ count[t] + 1 >= BlocksEach)
        /\ Delivered(t)
     \/ /\ Fault
        /\ Goto(t, "close")
        /\ UNCHANGED <<count, s_track_ready, holder, handle, cur, data, shared, volume>>
  /\ UNCHANGED <<s_audio_running, tid, kind, over, others, inbox, late>>

\* fwrite, and the time limit of the recording.
DeliverFile(t) ==
  /\ pc[t] = "deliver"
  /\ kind[t] = "record"
  /\ \/ /\ count[t] + 1 < BlocksEach
        /\ over' = [over EXCEPT ![t] = "no"]
        /\ Counted(t)
        /\ Goto(t, "loop")
        /\ Delivered(t)
     \/ /\ over' = [over EXCEPT ![t] = "yes"]
        /\ Goto(t, "close")
        /\ UNCHANGED <<count, sound>>
     \/ /\ Fault
        /\ Goto(t, "close")
        /\ UNCHANGED <<count, over, holder, handle, cur, data, shared, volume>>
  /\ UNCHANGED <<shared_flags, others, inbox, late>>

\* What a thread does behind its loop: usb_audio_close first.
Close(t) ==
  /\ pc[t] = "close"
  /\ UsbClose(t)
  /\ Goto(t, IF kind[t] = "play" THEN "post" ELSE "clear")
  /\ UNCHANGED <<shared_flags, count, over, others, inbox, late>>

\* Variant: the end of the prompt is not reported.
PromptDoneSilently(t) ==
  /\ pc[t] = "post"
  /\ Goto(t, "clear")
  /\ UNCHANGED <<inbox, sound, shared_flags, count, over, others, late>>

\* s_play_endfunc, begin_record: the prompt has been played to its end.
PromptDone(t) ==
  /\ pc[t] = "post"
  /\ inbox' = IF s_audio_running THEN Append(inbox, "RECORD_START") ELSE inbox
  /\ Goto(t, "clear")
  /\ UNCHANGED <<sound, shared_flags, count, over, others, late>>

\* s_audio_running = 0; the recording has something to report afterwards.
Clear(t) ==
  /\ pc[t] = "clear"
  /\ s_audio_running' = FALSE
  /\ IF kind[t] = "record" THEN Goto(t, "report") /\ UNCHANGED late ELSE Return(t)
  /\ UNCHANGED <<sound, s_track_ready, tid, kind, count, over, others, inbox>>

\* s_record_endfunc, end_record.  diff is not set before the first block.
Report(t) ==
  /\ pc[t] = "report"
  /\ inbox' \in (IF over[t] # "no" THEN {Append(inbox, "RECORD_END")} ELSE {})
                \cup (IF over[t] # "yes" THEN {inbox} ELSE {})
  /\ Return(t)
  /\ UNCHANGED <<sound, shared_flags, count, over, others>>

ThreadStep(t) ==
  \/ Setup(t) \/ Leave(t) \/ Fetch(t) \/ Convert(t)
  \/ DeliverUsb(t) \/ DeliverHost(t) \/ DeliverFile(t)
  \/ Close(t) \/ PromptDone(t) \/ Clear(t) \/ Report(t)

-----------------------------------------------------------------------------
(* The state machine's thread: the calls of upil_sm.c.                     *)

Forget(S) ==
  /\ late' = late \cup S
  /\ outlived' = (outlived \/ S # {})

\* The threads of a call; the others are those of a memo.
OfCall(k) == k \in {"in", "out"}

\* A thread for a call starts beside one of a memo, or the other way round.
Overstayed(k) ==
  \E t \in Threads : pc[t] \notin {"none", "report"} /\ OfCall(kind[t]) # OfCall(k)

Free(k) == {t \in Threads : ~Alive(t) /\ \A j \in Kinds \ {k} : tid[j] # t}
LowestFree(k) == CHOOSE t \in Free(k) : \A u \in Free(k) : t <= u

\* start_sound_in_thread and its three likes; the id of a thread that still runs
\* is written over.
Create(k) ==
  \/ /\ Free(k) # {}
     /\ late' = late \cup {t \in Threads : Alive(t) /\ t = tid[k]}
     /\ outlived' = (outlived \/ Overstayed(k) \/ \E t \in Threads : Alive(t) /\ t = tid[k])
     /\ LET t == LowestFree(k)
        IN  /\ tid' = [tid EXCEPT ![k] = t]
            /\ kind' = [kind EXCEPT ![t] = k]
            /\ pc' = [pc EXCEPT ![t] = "setup"]
            /\ count' = [count EXCEPT ![t] = 0]
            /\ over' = [over EXCEPT ![t] = "unset"]
     /\ UNCHANGED sound
  \/ /\ Fault
     /\ UNCHANGED <<tid, kind, pc, count, over, late, outlived, holder, handle, cur, data, shared, volume>>

\* A start for a thread of kind k finds s_audio_running set.  conversation_enter
\* starts the voice a second time after dialing_enter, which is refused because
\* it runs already and hinders nothing.
Refuse(k) ==
  /\ hindered' = (hindered \/ tid[k] = 0)
  /\ UNCHANGED <<sound, threads, at, late, outlived>>

\* Threads that a stop gave up on, and substreams that a failed set-up has kept.
Leftovers == late # {} \/ \E d \in Dirs : holder[d] = Lost

\* upil_audio_start up to the wait for the track.
AudioStart ==
  IF s_audio_running THEN Refuse("in")
  ELSE /\ s_audio_running' = TRUE
       /\ s_track_ready' = FALSE
       /\ at' = "starting"
       /\ Create("in")
       /\ hindered' = (hindered \/ Leftovers)

\* upil_audio_play_file and upil_audio_record_file.
StartFile(k) ==
  IF s_audio_running THEN Refuse(k)
  ELSE /\ s_audio_running' = TRUE
       /\ Create(k)
       /\ hindered' = (hindered \/ Leftovers)
       /\ UNCHANGED <<s_track_ready, at>>

\* The rest of upil_audio_start: the track is ready or the wait is over.
StartOut ==
  /\ at = "starting"
  /\ Create("out")
  /\ at' = "ready"
  /\ UNCHANGED <<s_audio_running, s_track_ready, mode, after, inbox, events, hindered, before>>

\* Variant: the wait for the track returns from the function.
TrackReadyReturns ==
  /\ at = "starting"
  /\ s_track_ready
  /\ at' = "ready"
  /\ UNCHANGED <<sound, threads, mode, after, inbox, events, hindered, before, late, outlived>>
TrackReady == s_track_ready /\ StartOut

TrackLate == ~s_track_ready /\ StartOut

\* Variant: the flag is left set.
AudioStopFlagSet(next) ==
  /\ at' = "stopping"
  /\ after' = next
  /\ UNCHANGED <<s_audio_running, s_track_ready, tid, kind, pc, count, over, sound, hindered, late, outlived>>

\* upil_audio_stop up to its wait.
AudioStop(next) ==
  /\ s_audio_running' = FALSE
  /\ at' = "stopping"
  /\ after' = next
  /\ UNCHANGED <<s_track_ready, tid, kind, pc, count, over, sound, hindered, late, outlived>>

\* Variant: the wait leaves the recording out.
WaitedForThree == {tid[k] : k \in {"in", "out", "play"}} \ {0}
WaitedFor == {tid[k] : k \in Kinds} \ {0}

\* The wait of upil_audio_stop ends: all threads have, or three seconds.
StopReturns ==
  /\ at = "stopping"
  /\ \/ /\ \A t \in WaitedFor : ~Alive(t)
        /\ UNCHANGED <<sound, late, outlived>>
     \/ /\ \E t \in WaitedFor : Alive(t)
        /\ Fault
        /\ Forget({t \in WaitedFor : Alive(t)})
        /\ UNCHANGED <<holder, handle, cur, data, shared, volume>>
  /\ tid' = [k \in Kinds |-> 0]
  /\ at' = "ready"
  /\ after' = "stay"
  /\ inbox' = IF after = "stay" THEN inbox ELSE Append(inbox, after)
  /\ before' = faults'
  /\ hindered' = FALSE
  /\ UNCHANGED <<s_audio_running, s_track_ready, kind, pc, count, over, mode, events>>

To(m) == inbox' = Append(Tail(inbox), m)

Nothing == UNCHANGED <<sound, threads, at, after, hindered, late, outlived>>

\* SM_TRANSITION: the enter function of the new state.
EnterState(m) ==
  /\ mode' = m
  /\ inbox' = Tail(inbox)
  /\ CASE m = "IDLE" -> AudioStop("stay")
       [] m \in {"DIALING", "CONVERSATION"} -> AudioStart /\ UNCHANGED after
       [] m \in {"INCOMING", "MEMO"} -> Nothing

\* idle_process, incoming_process, dialing_process and conversation_process.
\* NO_ANSWER is UPIL_EVT_RECORD_START: the call is to be taken by the memo.
CallProcess(msg) ==
  /\ mode # "MEMO"
  /\ CASE mode = "IDLE" /\ msg = "HOOK_ON" -> To("DIALING")
       [] mode = "IDLE" /\ msg = "RING" -> To("INCOMING")
       [] mode = "INCOMING" /\ msg = "HOOK_ON" -> To("CONVERSATION")
       [] mode = "INCOMING" /\ msg = "NO_ANSWER" -> To("MEMO")
       [] mode = "INCOMING" /\ msg = "RING_TIMEOUT" -> To("IDLE")
       [] mode = "DIALING" /\ msg = "DIAL_END" -> To("CONVERSATION")
       [] mode = "CONVERSATION" /\ msg = "HOOK_OFF" -> To("IDLE")
       [] OTHER -> inbox' = Tail(inbox)
  /\ Nothing
  /\ UNCHANGED mode

MemoProcess(msg) ==
  /\ mode = "MEMO"
  /\ CASE msg = "HOOK_ON" -> StartFile("play") /\ UNCHANGED after
       [] msg = "RECORD_START" -> StartFile("record") /\ UNCHANGED after
       [] msg = "HANDFREE_ON" -> AudioStop("CONVERSATION")
       [] msg = "HANDFREE_OFF" -> AudioStop("stay")
       [] msg = "HOOK_OFF" -> AudioStop("IDLE")
       [] OTHER -> Nothing
  /\ inbox' = Tail(inbox)
  /\ UNCHANGED mode

Process ==
  /\ at = "ready"
  /\ inbox # <<>>
  /\ LET msg == Head(inbox)
     IN  \/ msg \in Modes /\ EnterState(msg)
         \/ msg \notin Modes /\ (CallProcess(msg) \/ MemoProcess(msg))
  /\ UNCHANGED <<events, before>>

CallerStep == Process \/ TrackReady \/ TrackLate \/ StopReturns

\* The line, the user and the timers of the state machine.
Happens ==
  /\ events < MaxEvents
  /\ Len(inbox) < MaxInbox
  /\ events' = events + 1
  /\ \E e \in CASE mode = "IDLE" -> {"HOOK_ON", "RING"}
                [] mode = "INCOMING" -> {"HOOK_ON", "NO_ANSWER", "RING_TIMEOUT"}
                [] mode = "DIALING" -> {"DIAL_END"}
                [] mode = "CONVERSATION" -> {"HOOK_OFF"}
                [] mode = "MEMO" -> {"HOOK_ON", "HOOK_OFF", "HANDFREE_ON", "HANDFREE_OFF"} :
       inbox' = Append(inbox, e)
  /\ UNCHANGED <<sound, threads, mode, at, after, hindered, before, late, outlived>>

Next == (\E t \in Threads : ThreadStep(t)) \/ CallerStep \/ Happens

\* Every thread goes on; the line and the user do as they like.
Fairness ==
  /\ \A t \in Threads : WF_vars(ThreadStep(t))
  /\ WF_vars(CallerStep)

Spec == Init /\ [][Next]_vars /\ Fairness

-----------------------------------------------------------------------------
(* What the threads promise.                                               *)

Settled == mode = "IDLE" /\ at = "ready"

\* When the phone is idle again, every thread that upil_audio_stop did not give
\* up on has ended, the flag is clear, and the substreams are free but for those
\* a failed set-up has kept (upil_audio_stop).
StopLeavesNothing ==
  Settled => /\ ~s_audio_running
             /\ \A t \in Threads : Alive(t) => t \in late
             /\ \A d \in Dirs : holder[d] \in late \cup {0, Lost}

\* What a thread is to deliver, and the format the other end was opened with.
Source(k) == CASE k \in {"in", "record"} -> "line" [] k = "out" -> "host" [] k = "play" -> "prompt"
Wanted(t) ==
  [src |-> Source(kind[t]),
   rate |-> IF Dir(t) = "IN" THEN 44100 ELSE HwRate("OUT"), ch |-> 2]

\* The prompt and the recording of a memo go through the same three buffers as
\* the voice of a call.  As long as no thread has outlived its call or its memo,
\* each delivers its own sound, in the format the other end was opened with
\* (usb_audio_read, usb_audio_write).
MemoPure ==
  ~outlived =>
    \A t \in Threads : pc[t] = "deliver" /\ ~OfCall(kind[t]) => Content(t) = Wanted(t)

Streams(k) == tid[k] # 0 /\ handle[tid[k]].running

InCall == mode \in {"DIALING", "CONVERSATION"}

\* Every call - one that is dialled, one that is answered, a memo that is picked
\* up - gets its voice in both directions, unless something fails during the
\* call itself, leftovers of an earlier one are about when it starts, or a
\* thread of the memo has just been started again (upil_audio_start,
\* upil_audio_stop).  What failed in an earlier call is no excuse.
CallHasVoice ==
  (InCall /\ ~hindered /\ faults = before)
    ~> (~InCall \/ hindered \/ faults > before \/ (Streams("in") /\ Streams("out")))

\* A prompt that was played is followed by the recording (file_to_usba),
\* unless the state machine is quicker than the thread is in clearing the flag.
PromptThenRecording ==
  (mode = "MEMO" /\ \E t \in Threads : kind[t] = "play" /\ pc[t] = "post" /\ s_audio_running)
    ~> (mode # "MEMO" \/ at = "stopping" \/ hindered \/ faults > before \/ tid["record"] # 0)

\* Every thread ends after the call, and none waits for a substream that a
\* failed set-up has not kept.
ThreadsEnd ==
  <>[](mode = "IDLE" /\ inbox = <<>>)
    => <>[](\A t \in Threads : Alive(t) => holder[Dir(t)] = Lost)
=============================================================================
