------------------------- MODULE VoiceThreadsProofs -------------------------
(***************************************************************************)
(* Proofs about VoiceThreads with UsbSound, for any number of threads, any *)
(* formats of the prompt and every bound.                                  *)
(***************************************************************************)
EXTENDS VoiceThreads, ListLemmas, TLAPS

USE SoundAssumption, VoiceAssumption

-----------------------------------------------------------------------------
(* The types of the sound.                                                 *)

(* A handle for a format has the type of handles.                           *)
LEMMA OpenedType ==
  ASSUME NEW dir \in Dirs, NEW f \in {"ok", "bad"}, NEW rate \in Rates, NEW ch \in 0..2
  PROVE  Opened(dir, f, rate, ch) \in Handles
BY DEF Opened, Handles, HwRate, HwChannels, Dirs, Rates

(* The empty handle is typed. *)
LEMMA NoHandleType == NoHandle \in Handles
BY DEF NoHandle, Handles, Dirs, Rates

(* Silence is a block of sound. *)
LEMMA SilenceType == Silence \in Blocks
BY DEF Silence, Blocks, Sources, Rates

(* What the sound hardware delivers is a block of sound. *)
LEMMA HwBlockType ==
  ASSUME NEW dir \in Dirs, NEW src \in Sources
  PROVE  HwBlock(dir, src) \in Blocks
BY DEF HwBlock, HwRate, HwChannels, Blocks, Rates, Dirs

(* The conversions keep a block a block.                                    *)
LEMMA ConversionType ==
  ASSUME NEW h \in Handles, NEW b \in Blocks
  PROVE  Resampled(h, b) \in Blocks /\ Converted(h, b) \in Blocks
<1>1. h.outrate \in Rates
  BY DEF Handles
<1>2. Resampled(h, b) \in Blocks
  BY <1>1 DEF Resampled, Blocks, Rates
<1>3. Converted(h, b) \in Blocks
  BY DEF Converted, Blocks
<1> QED
  BY <1>2, <1>3

(* What a thread finds in the buffer of its stage is a block. *)
LEMMA ContentType ==
  ASSUME SoundTypeOK, NEW t \in Threads
  PROVE  Content(t) \in Blocks
BY DEF SoundTypeOK, Content

(* A stream that starts or stops.                                           *)
LEMMA RunningType ==
  ASSUME SoundTypeOK, NEW t \in Threads, NEW b \in BOOLEAN
  PROVE  [handle EXCEPT ![t].running = b] \in [Threads -> Handles]
BY DEF SoundTypeOK, Handles

(* The shared buffers as a stage leaves them are typed. *)
LEMMA KeptType ==
  ASSUME SoundTypeOK, NEW t \in Threads
  PROVE  Kept(t) \in [Shared -> Blocks]
BY SilenceType DEF SoundTypeOK, Kept

(* A failure that happens is within the bound. *)
LEMMA FaultType ==
  ASSUME SoundTypeOK, Fault
  PROVE  faults' \in 0..MaxFaults
BY DEF SoundTypeOK, Fault

(* Setting up and closing.                                                  *)
LEMMA SetupSoundType ==
  ASSUME SoundTypeOK, NEW t \in Threads, NEW dir \in Dirs, NEW rate \in Rates, NEW ch \in 0..2,
         \/ SetupOk(t, dir, rate, ch) \/ SetupQuiet(t, dir, rate, ch)
         \/ SetupBad(t, dir, rate, ch) \/ SetupNoStatus(t, dir, rate, ch)
         \/ SetupNoMixer(t, dir) \/ SetupNoResampler(t, dir, rate)
  PROVE  SoundTypeOK'
<1>1. faults' \in 0..MaxFaults
  BY FaultType DEF SetupOk, SetupQuiet, SetupBad, SetupNoStatus, SetupNoMixer,
     SetupNoResampler, SoundTypeOK
<1>2. volume' \in {"reset", "set"}
  BY DEF SetupOk, SetupQuiet, SetupBad, SetupNoStatus, SetupNoMixer, SetupNoResampler,
     SetVolume, SoundTypeOK
<1>3. UNCHANGED <<cur, data, shared>>
  BY DEF SetupOk, SetupQuiet, SetupBad, SetupNoStatus, SetupNoMixer, SetupNoResampler, Holds
<1>4. holder' \in [Dirs -> Threads \cup {0, Lost}]
  BY DEF SetupOk, SetupQuiet, SetupBad, SetupNoStatus, SetupNoMixer, SetupNoResampler,
     Holds, SoundTypeOK
<1>5. handle' \in [Threads -> Handles]
  <2>1. Opened(dir, "ok", rate, ch) \in Handles /\ Opened(dir, "bad", rate, ch) \in Handles
    BY OpenedType
  <2> QED
    BY <2>1 DEF SetupOk, SetupQuiet, SetupBad, SetupNoStatus, SetupNoMixer,
       SetupNoResampler, Holds, SoundTypeOK
<1> QED
  BY <1>1, <1>2, <1>3, <1>4, <1>5 DEF SoundTypeOK

(* usb_audio_close keeps the types of the sound devices. *)
LEMMA UsbCloseType ==
  ASSUME SoundTypeOK, NEW t \in Threads, UsbClose(t)
  PROVE  SoundTypeOK'
BY NoHandleType, SilenceType, KeptType DEF SoundTypeOK, UsbClose, PcmClose, MixerClose

(* Reading and writing.                                                     *)
LEMMA TransferType ==
  ASSUME SoundTypeOK, NEW t \in Threads,
         \/ PcmRead(t) \/ PcmWrite(t) \/ Underrun(t) \/ PcmFails(t)
         \/ Resample(t) \/ ConvertChannels(t) \/ CopyOut(t)
  PROVE  SoundTypeOK'
<1>1. [handle EXCEPT ![t].running = TRUE] \in [Threads -> Handles]
  BY RunningType
<1>2. [handle EXCEPT ![t].running = FALSE] \in [Threads -> Handles]
  BY RunningType
<1>3. HwBlock("IN", "line") \in Blocks
  BY HwBlockType DEF Dirs, Sources
<1>4. /\ Resampled(handle[t], Content(t)) \in Blocks
      /\ Converted(handle[t], Content(t)) \in Blocks
  BY ContentType, ConversionType DEF SoundTypeOK
<1>5. CASE PcmRead(t)
  BY <1>1, <1>3, <1>5 DEF PcmRead, SoundTypeOK, Shared
<1>6. CASE PcmWrite(t)
  BY <1>1, <1>6, SilenceType, KeptType DEF PcmWrite, SoundTypeOK
<1>7. CASE Underrun(t)
  BY <1>2, <1>7, FaultType DEF Underrun, SoundTypeOK
<1>8. CASE PcmFails(t)
  BY <1>2, <1>8, FaultType DEF PcmFails, SoundTypeOK
<1>9. CASE Resample(t)
  BY <1>4, <1>9 DEF Resample, Store, SoundTypeOK, Shared
<1>10. CASE ConvertChannels(t)
  BY <1>4, <1>10 DEF ConvertChannels, Store, SoundTypeOK, Shared
<1>11. CASE CopyOut(t)
  BY <1>11, ContentType, KeptType DEF CopyOut, SoundTypeOK
<1> QED
  BY <1>5, <1>6, <1>7, <1>8, <1>9, <1>10, <1>11
-----------------------------------------------------------------------------
(* The types of the threads and of their caller.                           *)

(* A thread's substream is one of the two. *)
LEMMA DirType ==
  ASSUME NEW t \in Threads
  PROVE  Dir(t) \in Dirs
BY DEF Dir, Dirs

(* Moving a thread on keeps the positions typed. *)
LEMMA GotoType ==
  ASSUME TypeOK, NEW t \in Threads, NEW step \in Steps, Goto(t, step)
  PROVE  pc' \in [Threads -> Steps]
BY DEF TypeOK, Goto

(* So does the return of a thread function. *)
LEMMA ReturnType ==
  ASSUME TypeOK, NEW t \in Threads, Return(t)
  PROVE  pc' \in [Threads -> Steps] /\ late' \subseteq Threads
BY DEF TypeOK, Return, Steps

(* The stage that follows is a position of a thread. *)
LEMMA NextStageType ==
  ASSUME NEW t \in Threads
  PROVE  NextStage(t) \in Steps
<1>1. AfterRead(t) \in Steps
  BY DEF AfterRead, Steps
<1>2. AfterFetch(t) \in Steps
  BY DEF AfterFetch, Steps
<1> QED
  BY <1>1, <1>2 DEF NextStage

(* Opening the telephone's sound, whatever fails in it, keeps the types. *)
LEMMA SetupUsbType ==
  ASSUME TypeOK, NEW t \in Threads, NEW rate \in Rates, NEW ch \in 0..2, NEW next \in Steps,
         SetupUsb(t, rate, ch, next)
  PROVE  SoundTypeOK' /\ pc' \in [Threads -> Steps] /\ late' \subseteq Threads
<1>1. SoundTypeOK'
  <2>1. Dir(t) \in Dirs /\ SoundTypeOK
    BY DirType DEF TypeOK
  <2> QED
    BY <2>1, SetupSoundType DEF SetupUsb
<1> QED
  BY <1>1, GotoType, ReturnType DEF SetupUsb, TypeOK

(* So does the set-up of a thread's other end. *)
LEMMA SetupEndType ==
  ASSUME TypeOK, NEW t \in Threads, NEW next \in Steps, SetupEnd(t, next)
  PROVE  SoundTypeOK' /\ pc' \in [Threads -> Steps] /\ late' \subseteq Threads
<1>0. SetupOther(t, next)
  BY DEF SetupEnd, SetupHost, SetupPrompt, SetupRecording
<1>1. CASE Goto(t, next) /\ UNCHANGED <<sound, late>>
  BY <1>1, GotoType DEF TypeOK, SoundTypeOK, sound
<1>2. CASE /\ Fault /\ Return(t) /\ LoseHandle(t)
           /\ UNCHANGED <<cur, data, shared, volume>>
  <2>1. faults' \in 0..MaxFaults
    BY <1>2, FaultType DEF TypeOK
  <2>2. handle' \in [Threads -> Handles]
    BY <1>2, NoHandleType DEF LoseHandle, TypeOK, SoundTypeOK
  <2>3. holder' \in [Dirs -> Threads \cup {0, Lost}]
    BY <1>2 DEF LoseHandle, TypeOK, SoundTypeOK
  <2> QED
    BY <1>2, <2>1, <2>2, <2>3, ReturnType DEF TypeOK, SoundTypeOK
<1> QED
  BY <1>0, <1>1, <1>2 DEF SetupOther

(* The block a thread gets from the host or from the prompt.                *)
LEMMA OwnType ==
  ASSUME SoundTypeOK, NEW t \in Threads, NEW src \in Sources, Own(t, src)
  PROVE  SoundTypeOK'
<1>1. handle[t] \in Handles
  BY DEF SoundTypeOK
<1>2. [src |-> src, rate |-> handle[t].inrate, ch |-> handle[t].source] \in Blocks
  BY <1>1 DEF Handles, Blocks
<1> QED
  BY <1>2 DEF Own, SoundTypeOK

(* Counting a block stays within the limit. *)
LEMMA CountedType ==
  ASSUME TypeOK, NEW t \in Threads, Counted(t)
  PROVE  count' \in [Threads -> 0..BlocksEach]
<1>1. count \in [Threads -> 0..BlocksEach]
  BY DEF TypeOK
<1>2. (IF count[t] < BlocksEach THEN count[t] + 1 ELSE count[t]) \in 0..BlocksEach
  BY <1>1
<1> QED
  BY <1>1, <1>2 DEF Counted

(* Delivering a block keeps the types. *)
LEMMA DeliveredType ==
  ASSUME SoundTypeOK, NEW t \in Threads, Delivered(t)
  PROVE  SoundTypeOK'
BY SilenceType DEF SoundTypeOK, Delivered

(* Every step of a voice thread keeps the types. *)
LEMMA ThreadType ==
  ASSUME TypeOK, NEW t \in Threads, ThreadStep(t)
  PROVE  TypeOK'
<1> USE DEF shared_flags, others
<1>0. SoundTypeOK
  BY DEF TypeOK
<1>1. CASE Setup(t)
  <2>1. 44100 \in Rates /\ 2 \in 0..2 /\ "setup2" \in Steps /\ "loop" \in Steps
    BY DEF Rates, Steps
  <2>2. \A w \in Wavs : w[1] \in Rates /\ w[2] \in 0..2
    OBVIOUS
  <2>3. SoundTypeOK' /\ pc' \in [Threads -> Steps] /\ late' \subseteq Threads
    <3>1. CASE SetupUsb(t, 44100, 2, "setup2")
      BY <2>1, <3>1, SetupUsbType
    <3>2. CASE SetupUsb(t, 44100, 2, "loop")
      BY <2>1, <3>2, SetupUsbType
    <3>3. ASSUME NEW w \in Wavs, SetupUsb(t, w[1], w[2], "loop")
          PROVE  SoundTypeOK' /\ pc' \in [Threads -> Steps] /\ late' \subseteq Threads
      BY <2>1, <2>2, <3>3, SetupUsbType
    <3>4. CASE SetupEnd(t, "setup2") \/ SetupEnd(t, "loop")
      BY <2>1, <3>4, SetupEndType
    <3> QED
      BY <1>1, <3>1, <3>2, <3>3, <3>4 DEF Setup
  <2> QED
    BY <1>1, <2>3 DEF Setup, TypeOK
<1>2. CASE Leave(t)
  BY <1>2, GotoType DEF Leave, TypeOK, SoundTypeOK, sound, Steps
<1>3. CASE Fetch(t)
  <2>1. pc' \in [Threads -> Steps]
    BY <1>3, GotoType, NextStageType DEF Fetch, Steps
  <2>2. SoundTypeOK'
    <3>1. CASE PcmRead(t) \/ Underrun(t) \/ PcmFails(t)
      BY <1>0, <3>1, TransferType
    <3>2. CASE Own(t, "host") \/ Own(t, "prompt")
      BY <1>0, <3>2, OwnType DEF Sources
    <3>3. CASE Fault /\ UNCHANGED <<holder, handle, cur, data, shared, volume>>
      BY <1>0, <3>3, FaultType DEF SoundTypeOK
    <3>4. CASE UNCHANGED sound
      BY <1>0, <3>4 DEF SoundTypeOK, sound
    <3> QED
      BY <1>3, <3>1, <3>2, <3>3, <3>4 DEF Fetch
  <2> QED
    BY <1>3, <2>1, <2>2 DEF Fetch, TypeOK
<1>4. CASE Convert(t)
  <2>1. pc' \in [Threads -> Steps]
    BY <1>4, GotoType, NextStageType DEF Convert, Steps
  <2>2. SoundTypeOK'
    BY <1>0, <1>4, TransferType DEF Convert
  <2> QED
    BY <1>4, <2>1, <2>2 DEF Convert, TypeOK
<1>5. CASE DeliverUsb(t)
  <2>1. pc' \in [Threads -> Steps]
    BY <1>5, GotoType DEF DeliverUsb, Steps, TypeOK
  <2>2. SoundTypeOK'
    BY <1>0, <1>5, TransferType DEF DeliverUsb
  <2>3. count' \in [Threads -> 0..BlocksEach]
    BY <1>5, CountedType DEF DeliverUsb, TypeOK
  <2> QED
    BY <1>5, <2>1, <2>2, <2>3 DEF DeliverUsb, TypeOK
<1>6. CASE DeliverHost(t)
  <2>1. pc' \in [Threads -> Steps]
    BY <1>6, GotoType DEF DeliverHost, Steps
  <2>2. SoundTypeOK'
    BY <1>0, <1>6, DeliveredType, FaultType DEF DeliverHost, SoundTypeOK
  <2>3. count' \in [Threads -> 0..BlocksEach]
    BY <1>6, CountedType DEF DeliverHost, TypeOK
  <2>4. s_track_ready' \in BOOLEAN
    BY <1>6 DEF DeliverHost, TypeOK
  <2> QED
    BY <1>6, <2>1, <2>2, <2>3, <2>4 DEF DeliverHost, TypeOK
<1>7. CASE DeliverFile(t)
  <2>1. pc' \in [Threads -> Steps]
    BY <1>7, GotoType DEF DeliverFile, Steps
  <2>2. SoundTypeOK'
    BY <1>0, <1>7, DeliveredType, FaultType DEF DeliverFile, SoundTypeOK, sound
  <2>3. count' \in [Threads -> 0..BlocksEach]
    BY <1>7, CountedType DEF DeliverFile, TypeOK
  <2>4. over' \in [Threads -> {"unset", "no", "yes"}]
    BY <1>7 DEF DeliverFile, TypeOK
  <2> QED
    BY <1>7, <2>1, <2>2, <2>3, <2>4 DEF DeliverFile, TypeOK
<1>8. CASE Close(t)
  <2>1. pc' \in [Threads -> Steps]
    BY <1>8 DEF Close, Goto, Steps, TypeOK
  <2>2. SoundTypeOK'
    BY <1>0, <1>8, UsbCloseType DEF Close
  <2> QED
    BY <1>8, <2>1, <2>2 DEF Close, TypeOK
<1>9. CASE PromptDone(t)
  <2>1. pc' \in [Threads -> Steps]
    BY <1>9, GotoType DEF PromptDone, Steps
  <2>2. inbox' \in Seq(Messages)
    BY <1>9 DEF PromptDone, TypeOK, Messages
  <2> QED
    BY <1>9, <2>1, <2>2 DEF PromptDone, TypeOK, SoundTypeOK, sound
<1>10. CASE Clear(t)
  <2>1. pc' \in [Threads -> Steps] /\ late' \subseteq Threads
    BY <1>10, GotoType, ReturnType DEF Clear, Steps, TypeOK
  <2> QED
    BY <1>10, <2>1 DEF Clear, TypeOK, SoundTypeOK, sound
<1>11. CASE Report(t)
  <2>1. pc' \in [Threads -> Steps] /\ late' \subseteq Threads
    BY <1>11, ReturnType DEF Report
  <2>2. inbox' = inbox \/ inbox' = Append(inbox, "RECORD_END")
    BY <1>11 DEF Report
  <2>3. inbox' \in Seq(Messages)
    <3>1. inbox \in Seq(Messages) /\ "RECORD_END" \in Messages
      BY DEF TypeOK, Messages
    <3> QED
      BY <2>2, <3>1
  <2> QED
    BY <1>11, <2>1, <2>3 DEF Report, TypeOK, SoundTypeOK, sound
<1> QED
  BY <1>1, <1>2, <1>3, <1>4, <1>5, <1>6, <1>7, <1>8, <1>9, <1>10, <1>11 DEF ThreadStep
(* pthread_create finds a thread that is none.                              *)
LEMMA LowestFreeIsFree ==
  ASSUME NEW k \in Kinds, Free(k) # {}
  PROVE  LowestFree(k) \in Free(k)
<1>1. Free(k) \in SUBSET Nat
  BY DEF Free
<1>2. \E t \in Free(k) : \A u \in Free(k) : t <= u
  BY <1>1, LeastNat
<1> QED
  BY <1>2 DEF LowestFree

(* What a call of pthread_create does to the tables of threads.             *)
Created(k, t) ==
  /\ t \in Free(k)
  /\ tid' = [tid EXCEPT ![k] = t]
  /\ kind' = [kind EXCEPT ![t] = k]
  /\ pc' = [pc EXCEPT ![t] = "setup"]
  /\ count' = [count EXCEPT ![t] = 0]
  /\ over' = [over EXCEPT ![t] = "unset"]
  /\ late' = late \cup {u \in Threads : Alive(u) /\ u = tid[k]}
  /\ outlived' = (outlived \/ Overstayed(k) \/ \E u \in Threads : Alive(u) /\ u = tid[k])
  /\ UNCHANGED sound

NotCreated ==
  /\ Fault
  /\ UNCHANGED <<tid, kind, pc, count, over, late, outlived, holder, handle, cur, data,
                 shared, volume>>

(* pthread_create makes a thread or fails. *)
LEMMA CreateCases ==
  ASSUME NEW k \in Kinds, Create(k)
  PROVE  NotCreated \/ \E t \in Threads : Created(k, t)
<1>1. CASE Free(k) = {}
  BY <1>1 DEF Create, NotCreated
<1>2. CASE Free(k) # {}
  <2>1. LowestFree(k) \in Free(k) /\ LowestFree(k) \in Threads
    BY <1>2, LowestFreeIsFree DEF Free
  <2>2. NotCreated \/ Created(k, LowestFree(k))
    BY <2>1 DEF Create, NotCreated, Created
  <2> QED
    BY <2>1, <2>2
<1> QED
  BY <1>1, <1>2

(* Either way the types are kept. *)
LEMMA CreateType ==
  ASSUME TypeOK, NEW k \in Kinds, Create(k)
  PROVE  /\ SoundTypeOK'
         /\ tid' \in [Kinds -> Threads \cup {0}]
         /\ kind' \in [Threads -> Kinds]
         /\ pc' \in [Threads -> Steps]
         /\ count' \in [Threads -> 0..BlocksEach]
         /\ over' \in [Threads -> {"unset", "no", "yes"}]
         /\ late' \subseteq Threads
         /\ outlived' \in BOOLEAN
<1>1. CASE NotCreated
  BY <1>1, FaultType DEF NotCreated, TypeOK, SoundTypeOK
<1>2. ASSUME NEW t \in Threads, Created(k, t)
      PROVE  /\ SoundTypeOK'
             /\ tid' \in [Kinds -> Threads \cup {0}]
             /\ kind' \in [Threads -> Kinds]
             /\ pc' \in [Threads -> Steps]
             /\ count' \in [Threads -> 0..BlocksEach]
             /\ over' \in [Threads -> {"unset", "no", "yes"}]
             /\ late' \subseteq Threads
             /\ outlived' \in BOOLEAN
  <2>1. SoundTypeOK'
    BY <1>2 DEF Created, TypeOK, SoundTypeOK, sound
  <2>2. /\ tid' \in [Kinds -> Threads \cup {0}]
        /\ kind' \in [Threads -> Kinds]
        /\ pc' \in [Threads -> Steps]
    BY <1>2 DEF Created, TypeOK, Steps
  <2>3. /\ count' \in [Threads -> 0..BlocksEach]
        /\ over' \in [Threads -> {"unset", "no", "yes"}]
    BY <1>2 DEF Created, TypeOK
  <2>4. late' \subseteq Threads /\ outlived' \in BOOLEAN
    BY <1>2 DEF Created, TypeOK
  <2> QED
    BY <2>1, <2>2, <2>3, <2>4
<1> QED
  BY <1>1, <1>2, CreateCases

(* The calls of upil_audio_* from the state machine.                        *)
LEMMA CallsType ==
  ASSUME TypeOK, mode' \in Modes, inbox' \in Seq(Messages), UNCHANGED <<events, before>>,
         \/ AudioStart /\ UNCHANGED after
         \/ \E k \in Kinds : StartFile(k) /\ UNCHANGED after
         \/ \E m \in Modes \cup {"stay"} : AudioStop(m)
         \/ Nothing
  PROVE  TypeOK'
<1>1. ASSUME NEW k \in Kinds, Refuse(k), UNCHANGED after
      PROVE  TypeOK'
  BY <1>1 DEF Refuse, TypeOK, SoundTypeOK, sound, threads
<1>2. CASE AudioStart /\ UNCHANGED after /\ ~s_audio_running
  BY <1>2, CreateType DEF AudioStart, TypeOK, Kinds
<1>3. ASSUME NEW k \in Kinds, StartFile(k), UNCHANGED after, ~s_audio_running
      PROVE  TypeOK'
  BY <1>3, CreateType DEF StartFile, TypeOK
<1>4. ASSUME NEW m \in Modes \cup {"stay"}, AudioStop(m)
      PROVE  TypeOK'
  BY <1>4 DEF AudioStop, TypeOK, SoundTypeOK, sound
<1>5. CASE Nothing
  BY <1>5 DEF Nothing, TypeOK, SoundTypeOK, sound, threads
<1> QED
  BY <1>1, <1>2, <1>3, <1>4, <1>5 DEF AudioStart, StartFile, Kinds

(* What the state machine calls when it takes a message.                    *)
LEMMA ProcessCases ==
  ASSUME TypeOK, Process
  PROVE  \/ /\ mode' = "IDLE" /\ AudioStop("stay")
         \/ /\ mode' \in {"DIALING", "CONVERSATION"} /\ AudioStart /\ UNCHANGED after
         \/ /\ mode = "MEMO" /\ mode' = "MEMO"
            /\ \/ (StartFile("play") \/ StartFile("record")) /\ UNCHANGED after
               \/ AudioStop("CONVERSATION") \/ AudioStop("stay") \/ AudioStop("IDLE")
         \/ mode' \in {"INCOMING", "MEMO"} /\ Nothing
         \/ mode' = mode /\ Nothing
<1> DEFINE msg == Head(inbox)
<1>1. inbox \in Seq(Messages) /\ inbox # <<>>
  BY DEF TypeOK, Process
<1>2. CASE msg \in Modes /\ EnterState(msg)
  <2>1. CASE msg = "IDLE"
    BY <1>2, <2>1 DEF EnterState
  <2>2. CASE msg \in {"DIALING", "CONVERSATION"}
    BY <1>2, <2>2 DEF EnterState
  <2>3. CASE msg \in {"INCOMING", "MEMO"}
    BY <1>2, <2>3 DEF EnterState
  <2> QED
    BY <1>2, <2>1, <2>2, <2>3 DEF Modes
<1>3. CASE CallProcess(msg)
  BY <1>3 DEF CallProcess
<1>4. CASE MemoProcess(msg)
  <2>1. mode = "MEMO" /\ mode' = "MEMO"
    BY <1>4 DEF MemoProcess
  <2>2. \/ (StartFile("play") \/ StartFile("record")) /\ UNCHANGED after
        \/ AudioStop("CONVERSATION") \/ AudioStop("stay") \/ AudioStop("IDLE")
        \/ Nothing
    BY <1>4 DEF MemoProcess
  <2> QED
    BY <2>1, <2>2
<1> QED
  BY <1>2, <1>3, <1>4 DEF Process

(* The state machine's steps and what happens on the line keep the types. *)
LEMMA CallerType ==
  ASSUME TypeOK, CallerStep \/ Happens
  PROVE  TypeOK'
<1>1. CASE Process
  <2>1. mode' \in Modes
    BY <1>1, ProcessCases DEF TypeOK, Modes
  <2>2. inbox' \in Seq(Messages)
    <3> DEFINE msg == Head(inbox)
    <3>1. inbox \in Seq(Messages) /\ Tail(inbox) \in Seq(Messages)
      BY <1>1 DEF TypeOK, Process
    <3>2. inbox' = Tail(inbox) \/ \E m \in Modes : To(m)
      <4>1. CASE EnterState(msg)
        BY <4>1 DEF EnterState
      <4>2. CASE CallProcess(msg)
        BY <4>2 DEF CallProcess, Modes
      <4>3. CASE MemoProcess(msg)
        BY <4>3 DEF MemoProcess
      <4> QED
        BY <1>1, <4>1, <4>2, <4>3 DEF Process
    <3>3. Modes \subseteq Messages
      BY DEF Messages
    <3> QED
      BY <3>1, <3>2, <3>3 DEF To
  <2>3. \/ AudioStart /\ UNCHANGED after
        \/ \E k \in Kinds : StartFile(k) /\ UNCHANGED after
        \/ \E m \in Modes \cup {"stay"} : AudioStop(m)
        \/ Nothing
    BY <1>1, ProcessCases DEF Kinds, Modes
  <2> QED
    BY <1>1, <2>1, <2>2, <2>3, CallsType DEF Process
<1>2. CASE StartOut
  BY <1>2, CreateType DEF StartOut, TypeOK, Kinds
<1>3. CASE StopReturns
  <2>1. SoundTypeOK' /\ late' \subseteq Threads /\ outlived' \in BOOLEAN
    <3>1. CASE UNCHANGED <<sound, late, outlived>>
      BY <3>1 DEF TypeOK, SoundTypeOK, sound
    <3>2. CASE /\ Fault /\ Forget({t \in WaitedFor : Alive(t)})
               /\ UNCHANGED <<holder, handle, cur, data, shared, volume>>
      <4>1. SoundTypeOK'
        BY <3>2, FaultType DEF TypeOK, SoundTypeOK
      <4>2. WaitedFor \subseteq Threads
        BY DEF WaitedFor, TypeOK
      <4> QED
        BY <3>2, <4>1, <4>2 DEF TypeOK, Forget
    <3> QED
      BY <1>3, <3>1, <3>2 DEF StopReturns
  <2>2. inbox' \in Seq(Messages)
    <3>1. inbox \in Seq(Messages) /\ (after # "stay" => after \in Messages)
      BY DEF TypeOK, Messages
    <3> QED
      BY <1>3, <3>1 DEF StopReturns
  <2>3. before' \in 0..MaxFaults
    BY <1>3, <2>1 DEF StopReturns, SoundTypeOK
  <2> QED
    BY <1>3, <2>1, <2>2, <2>3 DEF StopReturns, TypeOK
<1>4. CASE Happens
  <2>1. PICK e \in World : inbox' = Append(inbox, e)
    BY <1>4 DEF Happens, World, TypeOK, Modes
  <2>2. inbox' \in Seq(Messages)
    <3>1. inbox \in Seq(Messages) /\ e \in Messages
      BY DEF TypeOK, Messages
    <3> QED
      BY <2>1, <3>1
  <2>3. events' \in 0..MaxEvents
    BY <1>4 DEF Happens, TypeOK
  <2> QED
    BY <1>4, <2>2, <2>3 DEF Happens, TypeOK, SoundTypeOK, sound, threads
<1> QED
  BY <1>1, <1>2, <1>3, <1>4 DEF CallerStep, TrackReady, TrackLate

(* The start is well typed. *)
LEMMA InitType ==
  ASSUME Init
  PROVE  TypeOK
<1>1. SoundTypeOK
  BY NoHandleType, SilenceType DEF Init, SoundInit, SoundTypeOK
<1>2. tid \in [Kinds -> Threads \cup {0}] /\ kind \in [Threads -> Kinds]
  BY DEF Init, Kinds
<1>3. pc \in [Threads -> Steps] /\ mode \in Modes /\ inbox \in Seq(Messages)
  BY DEF Init, Steps, Modes
<1>4. count \in [Threads -> 0..BlocksEach] /\ over \in [Threads -> {"unset", "no", "yes"}]
  BY DEF Init
<1>5. events \in 0..MaxEvents /\ before \in 0..MaxFaults
  BY DEF Init
<1>6. /\ s_audio_running \in BOOLEAN /\ s_track_ready \in BOOLEAN /\ hindered \in BOOLEAN
      /\ outlived \in BOOLEAN
  BY Zenon DEF Init
<1>7. /\ at \in {"ready", "starting", "stopping"} /\ after \in Modes \cup {"stay"}
      /\ late \subseteq Threads
  BY DEF Init
<1> QED
  BY <1>1, <1>2, <1>3, <1>4, <1>5, <1>6, <1>7 DEF TypeOK

(* Every step keeps the types. *)
LEMMA NextType ==
  ASSUME TypeOK, [Next]_vars
  PROVE  TypeOK'
<1>1. CASE UNCHANGED vars
  BY <1>1 DEF vars, sound, threads, caller, TypeOK, SoundTypeOK
<1> QED
  BY <1>1, ThreadType, CallerType DEF Next

(* Every variable of the threads, of their sound and of their caller keeps  *)
(* its type; the counts of blocks stay within their limit.                  *)
THEOREM TypeCorrect == Spec => []TypeOK
BY InitType, NextType, PTL DEF Spec
-----------------------------------------------------------------------------
(* Who is named, who holds a substream, and when the flag is set.          *)

\* A thread lives on unnamed only when it has been given up on.
Named ==
  /\ \A t \in Threads : Alive(t) => t \in late \/ \E k \in Kinds : tid[k] = t
  /\ \A t \in late : Alive(t)

\* The flag is clear while upil_audio_stop waits, and when the phone is idle no
\* thread is named.
Stopped ==
  /\ at = "stopping" => ~s_audio_running
  /\ at = "starting" => mode # "IDLE"
  /\ Settled => ~s_audio_running /\ \A k \in Kinds : tid[k] = 0

\* A thread between its set-up and usb_audio_close.
HasHandle(t) ==
  \/ pc[t] \in {"loop", "fetch", "resample", "channels", "copy", "deliver", "close"}
  \/ pc[t] = "setup2" /\ Dir(t) = "IN"

\* Only such a thread holds a substream.
Held(t) == \A d \in Dirs : holder[d] = t => HasHandle(t)

\* Its handle converts between the hardware and the other end.
Format(t) ==
  HasHandle(t) =>
    LET h == handle[t]
    IN  /\ h.target = 2
        /\ Dir(t) = "IN" => h.inrate = 8000 /\ h.outrate = 44100 /\ h.source = 1
        /\ Dir(t) = "OUT" => h.outrate = 48000 /\ h.source \in 1..2

\* Outside the stages of usb_audio_read and usb_audio_write the block is in the
\* thread's own buffer.
Cursor(t) ==
  \/ pc[t] \notin {"resample", "channels", "copy", "deliver", "close"}
  \/ pc[t] = "deliver" /\ Dir(t) = "IN"
  => cur[t] = "data"

\* A thread that still has to do with sound.
Busy(t) == pc[t] \notin {"none", "report"}

\* The one thread of a memo has all sound for itself, and the flag is set until
\* it is told to stop.
Alone ==
  ~outlived =>
    /\ late = {}
    /\ \A t \in Threads : Busy(t) /\ ~OfCall(kind[t]) =>
         /\ \A u \in Threads \ {t} : ~Busy(u)
         /\ at # "stopping" => s_audio_running

\* What the block of such a thread is before each stage.
Stage(t) ==
  ~OfCall(kind[t]) =>
    /\ Dir(t) = "IN" =>
         /\ pc[t] = "resample" => Content(t) = [src |-> "line", rate |-> 8000, ch |-> 1]
         /\ pc[t] = "channels" => Content(t) = [src |-> "line", rate |-> 44100, ch |-> 1]
         /\ pc[t] = "copy" => Content(t) = [src |-> "line", rate |-> 44100, ch |-> 2]
    /\ Dir(t) = "OUT" =>
         /\ pc[t] # "copy"
         /\ pc[t] = "channels" =>
              /\ Content(t) = [src |-> "prompt", rate |-> handle[t].inrate, ch |-> 1]
              /\ handle[t].source = 1
         /\ pc[t] = "resample" =>
              Content(t) = [src |-> "prompt", rate |-> handle[t].inrate, ch |-> 2]
    /\ pc[t] = "deliver" => Content(t) = Wanted(t)

VoiceInv ==
  /\ TypeOK /\ Named /\ Stopped /\ Alone
  /\ \A t \in Threads : Held(t) /\ Format(t) /\ Cursor(t)
  /\ ~outlived => \A t \in Threads : Stage(t)
-----------------------------------------------------------------------------
(* A step of one thread, seen from the others.                             *)

OtherSound(t) ==
  \A u \in Threads \ {t} :
    /\ handle'[u] = handle[u] /\ cur'[u] = cur[u] /\ data'[u] = data[u]
    /\ \A d \in Dirs : holder'[d] = u => holder[d] = u

OtherThreads(t) ==
  /\ OtherSound(t)
  /\ \A u \in Threads \ {t} : pc'[u] = pc[u]
  /\ \A u \in Threads \ {t} : (u \in late') <=> (u \in late)
  /\ UNCHANGED <<kind, tid, mode, at, outlived>>

(* What a thread does to the sound devices leaves the other threads' handles and blocks
   alone. *)
LEMMA SoundFrame ==
  ASSUME SoundTypeOK, NEW t \in Threads,
         \/ UNCHANGED sound
         \/ UNCHANGED <<holder, handle, cur, data, shared, volume>>
         \/ \E dir \in Dirs : \E rate, ch :
              \/ SetupOk(t, dir, rate, ch) \/ SetupQuiet(t, dir, rate, ch)
              \/ SetupBad(t, dir, rate, ch) \/ SetupNoStatus(t, dir, rate, ch)
              \/ SetupNoMixer(t, dir) \/ SetupNoResampler(t, dir, rate)
         \/ LoseHandle(t) /\ UNCHANGED <<cur, data, shared, volume>>
         \/ UsbClose(t) \/ PcmRead(t) \/ PcmWrite(t) \/ Underrun(t) \/ PcmFails(t)
         \/ Resample(t) \/ ConvertChannels(t) \/ CopyOut(t) \/ Delivered(t)
         \/ \E src \in Sources : Own(t, src)
  PROVE  OtherSound(t)
<1> USE DEF SoundTypeOK, OtherSound
<1>1. CASE UNCHANGED <<holder, handle, cur, data>>
  BY <1>1
<1>2. ASSUME NEW dir \in Dirs, NEW rate, NEW ch,
             \/ SetupOk(t, dir, rate, ch) \/ SetupQuiet(t, dir, rate, ch)
             \/ SetupBad(t, dir, rate, ch) \/ SetupNoStatus(t, dir, rate, ch)
             \/ SetupNoMixer(t, dir) \/ SetupNoResampler(t, dir, rate)
      PROVE  OtherSound(t)
  <2>1. UNCHANGED <<cur, data>>
    BY <1>2 DEF SetupOk, SetupQuiet, SetupBad, SetupNoStatus, SetupNoMixer, SetupNoResampler, Holds
  <2>2. \A u \in Threads \ {t} : handle'[u] = handle[u]
    BY <1>2 DEF SetupOk, SetupQuiet, SetupBad, SetupNoStatus, SetupNoMixer, SetupNoResampler, Holds
  <2>3. \A u \in Threads \ {t}, d \in Dirs : holder'[d] = u => holder[d] = u
    BY <1>2 DEF SetupOk, SetupQuiet, SetupBad, SetupNoStatus, SetupNoMixer,
       SetupNoResampler, Holds, Lost
  <2> QED
    BY <2>1, <2>2, <2>3
<1>3. CASE LoseHandle(t) /\ UNCHANGED <<cur, data, shared, volume>>
  BY <1>3 DEF LoseHandle, Lost
<1>4. CASE UsbClose(t)
  BY <1>4 DEF UsbClose, PcmClose
<1>5. CASE PcmRead(t) \/ PcmWrite(t) \/ Underrun(t) \/ PcmFails(t)
  BY <1>5 DEF PcmRead, PcmWrite, Underrun, PcmFails
<1>6. CASE Resample(t) \/ ConvertChannels(t) \/ CopyOut(t) \/ Delivered(t)
  BY <1>6 DEF Resample, ConvertChannels, Store, CopyOut, Delivered
<1>7. ASSUME NEW src \in Sources, Own(t, src) PROVE OtherSound(t)
  BY <1>7 DEF Own
<1> QED
  BY <1>1, <1>2, <1>3, <1>4, <1>5, <1>6, <1>7 DEF sound

(* Its set-up does. *)
LEMMA SetupFrame ==
  ASSUME TypeOK, NEW t \in Threads, NEW next,
         (\E rate, ch : SetupUsb(t, rate, ch, next)) \/ SetupEnd(t, next)
  PROVE  OtherSound(t)
<1>1. SoundTypeOK /\ Dir(t) \in Dirs
  BY DirType DEF TypeOK
<1>2. ASSUME NEW rate, NEW ch, SetupUsb(t, rate, ch, next) PROVE OtherSound(t)
  BY <1>1, <1>2, SoundFrame DEF SetupUsb
<1>3. CASE SetupEnd(t, next)
  BY <1>1, <1>3, SoundFrame DEF SetupEnd, SetupHost, SetupPrompt, SetupRecording, SetupOther
<1> QED
  BY <1>2, <1>3

(* So a step of a thread leaves all that belongs to other threads alone. *)
LEMMA ThreadFrame ==
  ASSUME TypeOK, NEW t \in Threads, ThreadStep(t)
  PROVE  OtherThreads(t)
<1> USE DEF shared_flags, others
<1>0. SoundTypeOK
  BY DEF TypeOK
<1>1. OtherSound(t)
  <2>1. CASE Setup(t)
    BY <2>1, SetupFrame, SMTT(30) DEF Setup
  <2>2. CASE Leave(t) \/ PromptDone(t) \/ Clear(t) \/ Report(t)
    BY <1>0, <2>2, SoundFrame DEF Leave, PromptDone, Clear, Report
  <2>3. CASE Fetch(t)
    BY <1>0, <2>3, SoundFrame DEF Fetch, Sources
  <2>4. CASE Convert(t)
    BY <1>0, <2>4, SoundFrame DEF Convert
  <2>5. CASE DeliverUsb(t) \/ DeliverHost(t) \/ DeliverFile(t)
    BY <1>0, <2>5, SoundFrame DEF DeliverUsb, DeliverHost, DeliverFile
  <2>6. CASE Close(t)
    BY <1>0, <2>6, SoundFrame DEF Close
  <2> QED
    BY <2>1, <2>2, <2>3, <2>4, <2>5, <2>6 DEF ThreadStep
<1>2. /\ \A u \in Threads \ {t} : pc'[u] = pc[u]
      /\ \A u \in Threads \ {t} : (u \in late') <=> (u \in late)
  <2>1. ASSUME NEW next, Goto(t, next), UNCHANGED late
        PROVE  /\ \A u \in Threads \ {t} : pc'[u] = pc[u]
               /\ \A u \in Threads \ {t} : (u \in late') <=> (u \in late)
    BY <2>1 DEF Goto, TypeOK
  <2>2. CASE Return(t)
    BY <2>2 DEF Return, TypeOK
  <2>3. CASE UNCHANGED <<pc, late>>
    BY <2>3
  <2>4. CASE Setup(t)
    BY <2>1, <2>2, <2>4 DEF Setup, SetupUsb, SetupEnd, SetupHost, SetupPrompt,
       SetupRecording, SetupOther
  <2>5. CASE Leave(t) \/ PromptDone(t) \/ Clear(t) \/ Report(t) \/ Close(t)
    BY <2>1, <2>2, <2>5 DEF Leave, PromptDone, Clear, Report, Close
  <2>6. CASE Fetch(t)
    BY <2>1, <2>6 DEF Fetch
  <2>7. CASE Convert(t)
    BY <2>1, <2>7 DEF Convert
  <2>8. CASE DeliverUsb(t) \/ DeliverHost(t) \/ DeliverFile(t)
    BY <2>1, <2>3, <2>8 DEF DeliverUsb, DeliverHost, DeliverFile
  <2> QED
    BY <2>4, <2>5, <2>6, <2>7, <2>8 DEF ThreadStep
<1>3. UNCHANGED <<kind, tid, mode, at, outlived>>
  BY DEF ThreadStep, Setup, Leave, Fetch, Convert, DeliverUsb, DeliverHost, DeliverFile,
     Close, PromptDone, Clear, Report
<1> QED
  BY <1>1, <1>2, <1>3 DEF OtherThreads
-----------------------------------------------------------------------------
(* A step of one thread, seen from itself.                                 *)

Mine(t) == Held(t) /\ Format(t) /\ Cursor(t)

(* What pcm_open gives has the formats of its substream. *)
LEMMA OpenedFormat ==
  ASSUME NEW dir \in Dirs, NEW f, NEW rate, NEW ch \in 1..2,
         dir = "IN" => rate = 44100 /\ ch = 2
  PROVE  LET h == Opened(dir, f, rate, ch)
         IN  /\ h.target = 2
             /\ dir = "IN" => h.inrate = 8000 /\ h.outrate = 44100 /\ h.source = 1
             /\ dir = "OUT" => h.outrate = 48000 /\ h.source \in 1..2
BY DEF Opened, HwRate, HwChannels, Dirs

(* The set-up of the telephone's end.                                       *)
LEMMA SetupUsbMine ==
  ASSUME TypeOK, NEW t \in Threads, Mine(t), UNCHANGED kind, ~HasHandle(t),
         pc[t] \in {"setup", "setup2"}, NEW rate \in Rates, NEW ch \in 1..2, NEW next \in Steps,
         Dir(t) = "IN" => rate = 44100 /\ ch = 2 /\ next = "setup2",
         Dir(t) = "OUT" => next = "loop",
         SetupUsb(t, rate, ch, next)
  PROVE  Mine(t)'
<1>0. Dir(t)' = Dir(t) /\ Dir(t) \in Dirs
  BY DirType DEF Dir
<1>1. cur[t] = "data" /\ UNCHANGED cur
  BY DEF Mine, Cursor, SetupUsb, SetupOk, SetupQuiet, SetupBad, SetupNoStatus, SetupNoMixer,
     SetupNoResampler, Holds
<1>2. \A d \in Dirs : holder[d] # t
  BY DEF Mine, Held
<1>3. CASE /\ \/ SetupOk(t, Dir(t), rate, ch) \/ SetupQuiet(t, Dir(t), rate, ch)
              \/ SetupBad(t, Dir(t), rate, ch) \/ SetupNoStatus(t, Dir(t), rate, ch)
           /\ Goto(t, next)
  <2>1. pc'[t] = next /\ HasHandle(t)'
    BY <1>0, <1>3 DEF Goto, TypeOK, HasHandle, Dirs
  <2>2. \E f \in {"ok", "bad"} : handle'[t] = Opened(Dir(t), f, rate, ch)
    BY <1>3 DEF SetupOk, SetupQuiet, SetupBad, SetupNoStatus, Holds, TypeOK, SoundTypeOK
  <2>3. Format(t)'
    BY <1>0, <2>2, OpenedFormat DEF Format
  <2> QED
    BY <1>0, <1>1, <2>1, <2>3 DEF Mine, Held, Cursor, Dirs
<1>4. CASE (SetupNoMixer(t, Dir(t)) \/ SetupNoResampler(t, Dir(t), rate)) /\ Return(t)
  <2>2. pc'[t] = "none"
    BY <1>4 DEF Return, TypeOK
  <2>3. \A d \in Dirs : holder'[d] # t
    BY <1>2, <1>4 DEF SetupNoMixer, SetupNoResampler, Lost, TypeOK, SoundTypeOK
  <2> QED
    BY <1>1, <2>2, <2>3 DEF Mine, Held, Format, HasHandle, Cursor
<1> QED
  BY <1>3, <1>4 DEF SetupUsb

(* The set-up of the other end.                                             *)
LEMMA SetupEndMine ==
  ASSUME TypeOK, NEW t \in Threads, Mine(t), UNCHANGED kind,
         \/ pc[t] = "setup" /\ Dir(t) = "OUT" /\ SetupEnd(t, "setup2")
         \/ pc[t] = "setup2" /\ Dir(t) = "IN" /\ SetupEnd(t, "loop")
  PROVE  Mine(t)'
<1>0. Dir(t)' = Dir(t) /\ Dir(t) \in Dirs
  BY DirType DEF Dir
<1>1. cur[t] = "data" /\ UNCHANGED cur
  BY DEF Mine, Cursor, SetupEnd, SetupHost, SetupPrompt, SetupRecording, SetupOther, sound
<1>2. CASE Return(t) /\ LoseHandle(t)
  <2>1. pc'[t] = "none" /\ \A d \in Dirs : holder'[d] # t
    BY <1>2 DEF Return, LoseHandle, Lost, TypeOK, SoundTypeOK
  <2> QED
    BY <1>1, <2>1 DEF Mine, Held, Format, HasHandle, Cursor
<1>3. CASE ~(Return(t) /\ LoseHandle(t))
  <2>1. UNCHANGED sound /\ pc'[t] = IF Dir(t) = "IN" THEN "loop" ELSE "setup2"
    BY <1>0, <1>3 DEF SetupEnd, SetupHost, SetupPrompt, SetupRecording, SetupOther, Goto, TypeOK
  <2>2. HasHandle(t)' = HasHandle(t)
    BY <1>0, <2>1 DEF HasHandle
  <2>3. Held(t)' /\ Cursor(t)'
    BY <1>1, <2>1, <2>2 DEF Mine, Held, Cursor, sound
  <2>4. Format(t)'
    BY <1>0, <2>1, <2>2 DEF Mine, Format, sound
  <2> QED
    BY <2>1, <2>3, <2>4 DEF Mine
<1> QED
  BY <1>2, <1>3

(* A set-up leaves the thread with its own substream's format, or without a handle. *)
LEMMA SetupMine ==
  ASSUME TypeOK, NEW t \in Threads, Mine(t), Setup(t)
  PROVE  Mine(t)'
<1>0. UNCHANGED kind /\ Dir(t) \in Dirs /\ "setup2" \in Steps /\ "loop" \in Steps /\ 44100 \in Rates
      /\ 2 \in 1..2
  BY DirType DEF Setup, shared_flags, Steps, Rates
<1>1. CASE pc[t] = "setup" /\ Dir(t) = "IN"
  <2>1. SetupUsb(t, 44100, 2, "setup2") /\ ~HasHandle(t)
    BY <1>1 DEF Setup, HasHandle
  <2> QED
    BY <1>0, <1>1, <2>1, SetupUsbMine
<1>2. CASE pc[t] = "setup" /\ Dir(t) = "OUT"
  BY <1>0, <1>2, SetupEndMine DEF Setup
<1>3. CASE pc[t] = "setup2" /\ Dir(t) = "IN"
  <2>1. SetupEnd(t, "loop")
    <3>1. kind[t] # "out"
      BY <1>3 DEF Dir
    <3> QED
      BY <1>3, <3>1 DEF Setup
  <2> QED
    BY <1>0, <1>3, <2>1, SetupEndMine
<1>4. CASE pc[t] = "setup2" /\ Dir(t) = "OUT"
  <2>1. \E rate \in Rates, ch \in 1..2 : SetupUsb(t, rate, ch, "loop")
    <3>1. \A w \in Wavs : w[1] \in Rates /\ w[2] \in 1..2
      OBVIOUS
    <3> QED
      BY <1>0, <1>4, <3>1 DEF Setup
  <2>2. ~HasHandle(t)
    BY <1>4 DEF HasHandle
  <2> QED
    BY <1>0, <1>4, <2>1, <2>2, SetupUsbMine
<1> QED
  BY <1>0, <1>1, <1>2, <1>3, <1>4 DEF Setup, Dirs
SameFormat(t) ==
  /\ handle'[t].inrate = handle[t].inrate /\ handle'[t].outrate = handle[t].outrate
  /\ handle'[t].source = handle[t].source /\ handle'[t].target = handle[t].target

(* A step inside the loop.                                                  *)
LEMMA LoopMine ==
  ASSUME NEW t \in Threads, Mine(t), UNCHANGED <<kind, holder>>, HasHandle(t),
         pc'[t] \in {"loop", "fetch", "resample", "channels", "copy", "deliver", "close"},
         SameFormat(t), Cursor(t)'
  PROVE  Mine(t)'
<1>1. HasHandle(t)' /\ Dir(t)' = Dir(t)
  BY DEF HasHandle, Dir
<1>2. Format(t)'
  BY <1>1 DEF Mine, Format, SameFormat
<1> QED
  BY <1>1, <1>2 DEF Mine, Held

(* The stages that can follow. *)
LEMMA NextStageCases ==
  ASSUME NEW t \in Threads
  PROVE  /\ NextStage(t) \in {"resample", "channels", "copy", "deliver"}
         /\ NextStage(t) = "deliver" => Dir(t) # "IN"
<1>1. AfterRead(t) \in {"resample", "channels", "copy"}
  BY DEF AfterRead
<1>2. AfterFetch(t) \in {"channels", "resample", "deliver"}
  BY DEF AfterFetch
<1> QED
  BY <1>1, <1>2 DEF NextStage

(* pcm_read and pcm_write start or stop the stream and leave the rest of    *)
(* the handle as it is.                                                     *)
LEMMA TransferFormat ==
  ASSUME SoundTypeOK, NEW t \in Threads,
         \/ PcmRead(t) \/ PcmWrite(t) \/ Underrun(t) \/ PcmFails(t)
         \/ Resample(t) \/ ConvertChannels(t) \/ CopyOut(t) \/ Delivered(t)
         \/ UNCHANGED sound \/ UNCHANGED handle
         \/ \E src \in Sources : Own(t, src)
  PROVE  SameFormat(t)
<1> USE DEF SameFormat
<1>1. CASE UNCHANGED handle
  BY <1>1
<1>2. ASSUME NEW b \in BOOLEAN, handle' = [handle EXCEPT ![t].running = b]
      PROVE  SameFormat(t)
  <2>1. handle'[t] = [handle[t] EXCEPT !.running = b] /\ handle[t] \in Handles
    BY <1>2 DEF SoundTypeOK
  <2> QED
    BY <2>1 DEF Handles
<1> QED
  BY <1>1, <1>2 DEF PcmRead, PcmWrite, Underrun, PcmFails, Resample, ConvertChannels, Store,
     CopyOut, Delivered, Own, sound

(* A thread keeps the handle and the substream it has set up until it closes them. *)
LEMMA ThreadMine ==
  ASSUME TypeOK, NEW t \in Threads, Mine(t), ThreadStep(t)
  PROVE  Mine(t)'
<1> USE DEF shared_flags, others
<1>0. SoundTypeOK /\ UNCHANGED kind
  BY ThreadFrame DEF OtherThreads, TypeOK
<1>1. CASE Setup(t)
  BY <1>1, SetupMine
<1>2. CASE Leave(t)
  <2>1. HasHandle(t) /\ pc'[t] = "close" /\ UNCHANGED sound
    BY <1>2 DEF Leave, Goto, HasHandle, TypeOK
  <2>2. SameFormat(t) /\ Cursor(t)' /\ UNCHANGED holder
    BY <1>0, <2>1, TransferFormat DEF Cursor, sound
  <2> QED
    BY <1>0, <2>1, <2>2, LoopMine
<1>3. CASE Fetch(t)
  <2>1. HasHandle(t) /\ cur[t] = "data"
    BY <1>3 DEF Fetch, Fetching, HasHandle, Mine, Cursor
  <2>2. UNCHANGED holder
    BY <1>3 DEF Fetch, PcmRead, Underrun, PcmFails, Own, sound
  <2>3. SameFormat(t)
    BY <1>0, <1>3, TransferFormat DEF Fetch, Sources
  <2>4. \/ pc'[t] = NextStage(t)
        \/ pc'[t] = "close"
        \/ pc'[t] = "fetch" /\ UNCHANGED cur
    BY <1>3 DEF Fetch, Goto, TypeOK, Underrun
  <2>5. /\ pc'[t] \in {"loop", "fetch", "resample", "channels", "copy", "deliver", "close"}
        /\ Cursor(t)'
    BY <1>0, <2>1, <2>4, NextStageCases DEF Cursor, Dir
  <2> QED
    BY <1>0, <2>1, <2>2, <2>3, <2>5, LoopMine
<1>4. CASE Convert(t)
  <2>1. HasHandle(t)
    BY <1>4 DEF Convert, HasHandle
  <2>2. UNCHANGED holder
    BY <1>4 DEF Convert, Resample, ConvertChannels, Store, CopyOut
  <2>3. SameFormat(t)
    BY <1>0, <1>4, TransferFormat DEF Convert
  <2>4. pc'[t] = NextStage(t) \/ (pc'[t] = "deliver" /\ cur'[t] = "data")
    BY <1>4 DEF Convert, Goto, CopyOut, TypeOK, SoundTypeOK
  <2>5. /\ pc'[t] \in {"loop", "fetch", "resample", "channels", "copy", "deliver", "close"}
        /\ Cursor(t)'
    BY <1>0, <2>4, NextStageCases DEF Cursor, Dir
  <2> QED
    BY <1>0, <2>1, <2>2, <2>3, <2>5, LoopMine
<1>5. CASE DeliverUsb(t) \/ DeliverHost(t) \/ DeliverFile(t)
  <2>1. HasHandle(t)
    BY <1>5 DEF DeliverUsb, DeliverHost, DeliverFile, HasHandle
  <2>2. UNCHANGED holder
    BY <1>5 DEF DeliverUsb, DeliverHost, DeliverFile, PcmWrite, Underrun, PcmFails,
       Delivered, sound
  <2>3. SameFormat(t)
    BY <1>0, <1>5, TransferFormat DEF DeliverUsb, DeliverHost, DeliverFile
  <2>4. \/ pc'[t] = "loop" /\ (PcmWrite(t) \/ (Delivered(t) /\ cur[t] = "data"))
        \/ pc'[t] = "close"
        \/ pc'[t] = "deliver" /\ Dir(t) = "OUT"
    <3>1. CASE DeliverUsb(t)
      BY <3>1 DEF DeliverUsb, Goto, TypeOK
    <3>2. CASE DeliverHost(t) \/ DeliverFile(t)
      <4>1. cur[t] = "data"
        BY <3>2 DEF DeliverHost, DeliverFile, Mine, Cursor, Dir
      <4> QED
        BY <3>2, <4>1 DEF DeliverHost, DeliverFile, Goto, TypeOK
    <3> QED
      BY <1>5, <3>1, <3>2
  <2>5. Cursor(t)'
    <3>1. CASE PcmWrite(t)
      BY <3>1 DEF PcmWrite, Cursor, TypeOK, SoundTypeOK
    <3>2. CASE Delivered(t) /\ cur[t] = "data"
      BY <3>2 DEF Delivered, Cursor
    <3>3. CASE pc'[t] = "close" \/ (pc'[t] = "deliver" /\ Dir(t) = "OUT")
      BY <1>0, <3>3 DEF Cursor, Dir
    <3> QED
      BY <2>4, <3>1, <3>2, <3>3
  <2> QED
    BY <1>0, <2>1, <2>2, <2>3, <2>4, <2>5, LoopMine
<1>6. CASE Close(t)
  <2>1. pc'[t] \in {"post", "clear"} /\ cur'[t] = "data" /\ \A d \in Dirs : holder'[d] # t
    BY <1>6 DEF Close, Goto, UsbClose, PcmClose, TypeOK, SoundTypeOK
  <2> QED
    BY <2>1 DEF Mine, Held, Format, HasHandle, Cursor
<1>7. CASE PromptDone(t) \/ Clear(t) \/ Report(t)
  <2>1. /\ pc[t] \in {"post", "clear", "report"} /\ pc'[t] \in {"none", "clear", "report"}
        /\ UNCHANGED sound
    BY <1>7 DEF PromptDone, Clear, Report, Goto, Return, TypeOK
  <2> QED
    BY <2>1 DEF Mine, Held, Format, HasHandle, Cursor, sound
<1> QED
  BY <1>1, <1>2, <1>3, <1>4, <1>5, <1>6, <1>7 DEF ThreadStep
-----------------------------------------------------------------------------
(* The block of a memo's thread on its way.                                *)

(* What the conversions make of a block.                                    *)
LEMMA ResampledBlock ==
  ASSUME NEW h, NEW s, NEW c
  PROVE  Resampled(h, [src |-> s, rate |-> h.inrate, ch |-> c])
           = [src |-> s, rate |-> h.outrate, ch |-> c]
BY DEF Resampled

(* Doubling the channel of a mono block keeps its source and rate. *)
LEMMA ConvertedBlock ==
  ASSUME NEW h, NEW s, NEW r, h.target = 2
  PROVE  Converted(h, [src |-> s, rate |-> r, ch |-> 1]) = [src |-> s, rate |-> r, ch |-> 2]
BY DEF Converted

(* The stages of usb_audio_read in their order, for a thread that needs both *)
(* conversions.                                                              *)
LEMMA ReadStages ==
  ASSUME NEW t \in Threads, Dir(t) = "IN", NeedsResample(handle[t]), NeedsChannels(handle[t])
  PROVE  /\ Fetching(t) => NextStage(t) = "resample"
         /\ pc[t] = "resample" => NextStage(t) = "channels"
         /\ pc[t] = "channels" => NextStage(t) = "copy"
BY DEF NextStage, AfterRead, Fetching

(* The stages of usb_audio_write in their order. *)
LEMMA WriteStages ==
  ASSUME NEW t \in Threads, Dir(t) = "OUT"
  PROVE  /\ Fetching(t) /\ NeedsChannels(handle[t]) => NextStage(t) = "channels"
         /\ pc[t] = "channels" \/ (Fetching(t) /\ ~NeedsChannels(handle[t])) =>
              NextStage(t) = IF NeedsResample(handle[t]) THEN "resample" ELSE "deliver"
         /\ pc[t] = "resample" => NextStage(t) = "deliver"
<1>1. NextStage(t) = AfterFetch(t)
  BY DEF NextStage
<1>2. Fetching(t) => pc[t] \in {"fetch", "loop"}
  BY DEF Fetching
<1>3. CASE Fetching(t) /\ NeedsChannels(handle[t])
  BY <1>1, <1>2, <1>3 DEF AfterFetch
<1>4. CASE ~(Fetching(t) /\ NeedsChannels(handle[t])) /\ pc[t] # "resample"
  BY <1>1, <1>2, <1>4 DEF AfterFetch
<1>5. CASE pc[t] = "resample"
  BY <1>1, <1>2, <1>5 DEF AfterFetch
<1> QED
  BY <1>2, <1>3, <1>4, <1>5

(* Outside the stages there is nothing to keep. *)
LEMMA StageElsewhere ==
  ASSUME NEW t \in Threads, pc'[t] \notin {"resample", "channels", "copy", "deliver"}
  PROVE  Stage(t)'
BY DEF Stage

(* Alone, each stage of a recording hands the line in the right format to the next. *)
LEMMA RecordStage ==
  ASSUME TypeOK, NEW t \in Threads, Mine(t), Stage(t), kind[t] = "record", UNCHANGED kind,
         \/ Fetching(t) /\ PcmRead(t) /\ Goto(t, NextStage(t))
         \/ pc[t] = "resample" /\ Resample(t) /\ Goto(t, NextStage(t))
         \/ pc[t] = "channels" /\ ConvertChannels(t) /\ Goto(t, NextStage(t))
         \/ pc[t] = "copy" /\ CopyOut(t) /\ Goto(t, "deliver")
  PROVE  Stage(t)'
<1> DEFINE h == handle[t]
<1>0. Dir(t) = "IN" /\ Dir(t)' = "IN" /\ ~OfCall(kind[t])
  BY DEF Dir, OfCall
<1>1. /\ h.inrate = 8000 /\ h.outrate = 44100 /\ h.source = 1 /\ h.target = 2
      /\ NeedsResample(h) /\ NeedsChannels(h)
  BY <1>0 DEF Mine, Format, HasHandle, Fetching, NeedsResample, NeedsChannels
<1>2. CASE Fetching(t) /\ PcmRead(t) /\ Goto(t, NextStage(t))
  <2>1. pc'[t] = "resample"
    BY <1>0, <1>1, <1>2, ReadStages DEF Goto, TypeOK
  <2>2. Content(t)' = [src |-> "line", rate |-> 8000, ch |-> 1]
    BY <1>2 DEF Content, PcmRead, HwBlock, HwRate, HwChannels, TypeOK, SoundTypeOK, Shared
  <2> QED
    BY <1>0, <2>1, <2>2 DEF Stage
<1>3. CASE pc[t] = "resample" /\ Resample(t) /\ Goto(t, NextStage(t))
  <2>1. pc'[t] = "channels"
    BY <1>0, <1>1, <1>3, ReadStages DEF Goto, TypeOK
  <2>2. Content(t)' = Resampled(h, Content(t))
    BY <1>3 DEF Content, Resample, Store, TypeOK, SoundTypeOK, Shared
  <2>3. Content(t) = [src |-> "line", rate |-> h.inrate, ch |-> 1]
    BY <1>0, <1>1, <1>3 DEF Stage
  <2>4. Content(t)' = [src |-> "line", rate |-> 44100, ch |-> 1]
    BY <1>1, <2>2, <2>3, ResampledBlock
  <2> QED
    BY <1>0, <2>1, <2>4 DEF Stage
<1>4. CASE pc[t] = "channels" /\ ConvertChannels(t) /\ Goto(t, NextStage(t))
  <2>1. pc'[t] = "copy"
    BY <1>0, <1>1, <1>4, ReadStages DEF Goto, TypeOK
  <2>2. Content(t)' = Converted(h, Content(t))
    BY <1>4 DEF Content, ConvertChannels, Store, TypeOK, SoundTypeOK, Shared
  <2>3. Content(t) = [src |-> "line", rate |-> 44100, ch |-> 1]
    BY <1>0, <1>4 DEF Stage
  <2>4. Content(t)' = [src |-> "line", rate |-> 44100, ch |-> 2]
    BY <1>1, <2>2, <2>3, ConvertedBlock
  <2> QED
    BY <1>0, <2>1, <2>4 DEF Stage
<1>5. CASE pc[t] = "copy" /\ CopyOut(t) /\ Goto(t, "deliver")
  <2>1. pc'[t] = "deliver"
    BY <1>5 DEF Goto, TypeOK
  <2>2. Content(t)' = Content(t)
    BY <1>5 DEF Content, CopyOut, TypeOK, SoundTypeOK
  <2>3. Content(t) = [src |-> "line", rate |-> 44100, ch |-> 2]
    BY <1>0, <1>5 DEF Stage
  <2>4. Wanted(t)' = [src |-> "line", rate |-> 44100, ch |-> 2]
    BY <1>0 DEF Wanted, Source
  <2> QED
    BY <1>0, <2>1, <2>2, <2>3, <2>4 DEF Stage
<1> QED
  BY <1>2, <1>3, <1>4, <1>5

(* Alone, each stage of the prompt does the same. *)
LEMMA PlayStage ==
  ASSUME TypeOK, NEW t \in Threads, Mine(t), Stage(t), kind[t] = "play", UNCHANGED kind,
         \/ Fetching(t) /\ Own(t, "prompt") /\ Goto(t, NextStage(t))
         \/ pc[t] = "resample" /\ Resample(t) /\ Goto(t, NextStage(t))
         \/ pc[t] = "channels" /\ ConvertChannels(t) /\ Goto(t, NextStage(t))
  PROVE  Stage(t)'
<1> DEFINE h == handle[t]
<1>0. Dir(t) = "OUT" /\ Dir(t)' = "OUT" /\ ~OfCall(kind[t])
  BY DEF Dir, OfCall
<1>1. /\ h.outrate = 48000 /\ h.source \in 1..2 /\ h.target = 2
      /\ NeedsResample(h) <=> h.inrate # 48000
      /\ NeedsChannels(h) <=> h.source = 1
  BY <1>0 DEF Mine, Format, HasHandle, Fetching, NeedsResample, NeedsChannels
<1>2. UNCHANGED handle /\ pc'[t] = NextStage(t)
  BY DEF Own, Resample, ConvertChannels, Store, Goto, TypeOK
<1>3. Wanted(t)' = [src |-> "prompt", rate |-> 48000, ch |-> 2]
  BY <1>0 DEF Wanted, Source, HwRate
<1>4. CASE Fetching(t) /\ Own(t, "prompt")
  <2>1. cur[t] = "data"
    BY <1>4 DEF Fetching, Mine, Cursor
  <2>2. Content(t)' = [src |-> "prompt", rate |-> h.inrate, ch |-> h.source]
    BY <1>4, <2>1 DEF Content, Own, TypeOK, SoundTypeOK
  <2>3. CASE h.source = 1
    <3>1. pc'[t] = "channels"
      <4>1. Fetching(t) /\ NeedsChannels(handle[t])
        BY <1>1, <1>4, <2>3
      <4> QED
        BY <1>0, <1>2, <4>1, WriteStages
    <3> QED
      BY <1>0, <1>2, <2>2, <2>3, <3>1 DEF Stage
  <2>4. CASE h.source = 2
    <3>1. pc'[t] = IF h.inrate # 48000 THEN "resample" ELSE "deliver"
      <4>1. Fetching(t) /\ ~NeedsChannels(handle[t])
        BY <1>1, <1>4, <2>4
      <4>2. NextStage(t) = IF NeedsResample(handle[t]) THEN "resample" ELSE "deliver"
        BY <1>0, <4>1, WriteStages
      <4> QED
        BY <1>1, <1>2, <4>2
    <3> QED
      BY <1>0, <1>2, <1>3, <2>2, <2>4, <3>1 DEF Stage
  <2> QED
    BY <1>1, <2>3, <2>4
<1>5. CASE pc[t] = "resample" /\ Resample(t)
  <2>1. Content(t)' = Resampled(h, Content(t))
    BY <1>5 DEF Content, Resample, Store, TypeOK, SoundTypeOK, Shared
  <2>2. Content(t) = [src |-> "prompt", rate |-> h.inrate, ch |-> 2]
    BY <1>0, <1>5 DEF Stage
  <2>3. Content(t)' = [src |-> "prompt", rate |-> 48000, ch |-> 2]
    BY <1>1, <2>1, <2>2, ResampledBlock
  <2>4. pc'[t] = "deliver"
    BY <1>0, <1>2, <1>5, WriteStages
  <2> QED
    BY <1>0, <1>3, <2>3, <2>4 DEF Stage
<1>6. CASE pc[t] = "channels" /\ ConvertChannels(t)
  <2>1. Content(t)' = Converted(h, Content(t))
    BY <1>6 DEF Content, ConvertChannels, Store, TypeOK, SoundTypeOK, Shared
  <2>2. Content(t) = [src |-> "prompt", rate |-> h.inrate, ch |-> 1]
    BY <1>0, <1>6 DEF Stage
  <2>3. Content(t)' = [src |-> "prompt", rate |-> h.inrate, ch |-> 2]
    BY <1>1, <2>1, <2>2, ConvertedBlock
  <2>4. pc'[t] = IF h.inrate # 48000 THEN "resample" ELSE "deliver"
    BY <1>0, <1>1, <1>2, <1>6, WriteStages
  <2> QED
    BY <1>0, <1>2, <1>3, <2>3, <2>4 DEF Stage
<1> QED
  BY <1>4, <1>5, <1>6

(* So a memo thread keeps what its stage is owed. *)
LEMMA ThreadStage ==
  ASSUME TypeOK, NEW t \in Threads, Mine(t), Stage(t), ThreadStep(t), ~OfCall(kind[t])
  PROVE  Stage(t)'
<1>0. /\ UNCHANGED kind /\ Dir(t)' = Dir(t)
      /\ kind[t] \in {"play", "record"}
      /\ kind[t] = "play" <=> Dir(t) = "OUT"
  BY ThreadFrame DEF OtherThreads, OfCall, TypeOK, Kinds, Dir
<1>1. CASE Setup(t)
  <2>1. pc'[t] \in {"setup2", "loop", "none"}
    BY <1>1 DEF Setup, SetupUsb, SetupEnd, SetupHost, SetupPrompt, SetupRecording, SetupOther,
       Goto, Return, TypeOK
  <2> QED
    BY <2>1, StageElsewhere
<1>2. CASE Leave(t) \/ Close(t) \/ PromptDone(t) \/ Clear(t) \/ Report(t)
  <2>1. pc'[t] \in {"close", "post", "clear", "report", "none"}
    BY <1>2 DEF Leave, Close, PromptDone, Clear, Report, Goto, Return, TypeOK
  <2> QED
    BY <2>1, StageElsewhere
<1>3. CASE Fetch(t)
  <2>1. CASE pc'[t] \in {"fetch", "close"}
    BY <2>1, StageElsewhere
  <2>2. CASE pc'[t] \notin {"fetch", "close"}
    <3>1. ~Goto(t, "fetch") /\ ~Goto(t, "close")
      BY <2>2 DEF Goto, TypeOK
    <3>2. CASE kind[t] = "record"
      <4>1. Fetching(t) /\ PcmRead(t) /\ Goto(t, NextStage(t))
        BY <1>0, <1>3, <3>1, <3>2 DEF Fetch
      <4> QED
        BY <1>0, <3>2, <4>1, RecordStage
    <3>3. CASE kind[t] = "play"
      <4>1. Fetching(t) /\ Own(t, "prompt") /\ Goto(t, NextStage(t))
        BY <1>0, <1>3, <3>1, <3>3 DEF Fetch
      <4> QED
        BY <1>0, <3>3, <4>1, PlayStage
    <3> QED
      BY <1>0, <3>2, <3>3
  <2> QED
    BY <2>1, <2>2
<1>4. CASE Convert(t)
  <2>1. CASE kind[t] = "record"
    BY <1>0, <1>4, <2>1, RecordStage DEF Convert
  <2>2. CASE kind[t] = "play"
    <3>1. pc[t] # "copy"
      BY <1>0, <2>2 DEF Stage
    <3> QED
      BY <1>0, <1>4, <2>2, <3>1, PlayStage DEF Convert
  <2> QED
    BY <1>0, <2>1, <2>2
<1>5. CASE DeliverUsb(t) \/ DeliverHost(t) \/ DeliverFile(t)
  <2>1. CASE pc'[t] \in {"loop", "close"}
    BY <2>1, StageElsewhere
  <2>2. CASE pc'[t] \notin {"loop", "close"}
    <3>1. Underrun(t) /\ UNCHANGED pc /\ pc[t] = "deliver"
      BY <1>5, <2>2 DEF DeliverUsb, DeliverHost, DeliverFile, Goto, TypeOK
    <3>2. Content(t)' = Content(t)
      BY <3>1 DEF Underrun, Content
    <3>3. Wanted(t)' = Wanted(t)
      BY <1>0 DEF Wanted
    <3>4. Content(t) = Wanted(t)
      BY <3>1 DEF Stage
    <3>5. pc'[t] = "deliver" /\ Content(t)' = Wanted(t)'
      BY <3>1, <3>2, <3>3, <3>4
    <3> QED
      BY <3>5 DEF Stage
  <2> QED
    BY <2>1, <2>2
<1> QED
  BY <1>1, <1>2, <1>3, <1>4, <1>5 DEF ThreadStep

-----------------------------------------------------------------------------
(* The steps of the threads keep the invariant.                            *)

(* What a step of t can do to the flag, to t's name and to its share in     *)
(* the sound.                                                               *)
LEMMA ThreadEffect ==
  ASSUME TypeOK, NEW t \in Threads, ThreadStep(t)
  PROVE  /\ Alive(t)
         /\ t \in late' => t \in late /\ Alive(t)'
         /\ Alive(t)' => (t \in late' <=> t \in late)
         /\ Busy(t)' => Busy(t)
         /\ s_audio_running' => s_audio_running
         /\ s_audio_running' # s_audio_running => Busy(t) /\ ~Busy(t)'
         /\ ~Busy(t) => UNCHANGED sound
<1> USE DEF shared_flags, others, Alive, Busy
<1>1. CASE Clear(t)
  BY <1>1 DEF Clear, Goto, Return, TypeOK
<1>2. CASE ~Clear(t)
  <2>1. UNCHANGED s_audio_running
    BY <1>2 DEF ThreadStep, Setup, Leave, Fetch, Convert, DeliverUsb, DeliverHost,
       DeliverFile, Close, PromptDone, Report
  <2>2. Alive(t) /\ (~Busy(t) => Report(t))
    BY <1>2 DEF ThreadStep, Setup, Leave, Fetch, Fetching, Convert, DeliverUsb, DeliverHost,
       DeliverFile, Close, PromptDone, Report
  <2>3. \/ Return(t)
        \/ UNCHANGED late /\ pc[t] # "report" /\ pc'[t] # "none"
    <3>1. CASE Setup(t)
      BY <3>1 DEF Setup, SetupUsb, SetupEnd, SetupHost, SetupPrompt, SetupRecording,
         SetupOther, Goto, TypeOK
    <3>2. CASE Fetch(t)
      BY <3>2, NextStageCases DEF Fetch, Fetching, Goto, TypeOK
    <3>3. CASE Convert(t)
      BY <3>3, NextStageCases DEF Convert, Goto, TypeOK
    <3>4. CASE DeliverUsb(t) \/ DeliverHost(t) \/ DeliverFile(t)
      BY <3>4 DEF DeliverUsb, DeliverHost, DeliverFile, Goto, TypeOK
    <3>5. CASE Leave(t) \/ Close(t) \/ PromptDone(t)
      BY <3>5 DEF Leave, Close, PromptDone, Goto, TypeOK
    <3>6. CASE Report(t)
      BY <3>6 DEF Report
    <3> QED
      BY <1>2, <3>1, <3>2, <3>3, <3>4, <3>5, <3>6 DEF ThreadStep
  <2>4. Return(t) => pc'[t] = "none" /\ t \notin late'
    BY DEF Return, TypeOK
  <2>5. Report(t) => Return(t) /\ UNCHANGED sound
    BY DEF Report
  <2> QED
    BY <2>1, <2>2, <2>3, <2>4, <2>5
<1> QED
  BY <1>1, <1>2

(* A step of a thread keeps the invariant. *)
LEMMA ThreadInv ==
  ASSUME VoiceInv, NEW t \in Threads, ThreadStep(t)
  PROVE  VoiceInv'
<1>0. TypeOK /\ Mine(t) /\ TypeOK'
  BY ThreadType DEF VoiceInv, Mine
<1>1. OtherThreads(t)
  BY <1>0, ThreadFrame
<1>2. /\ Alive(t)
      /\ t \in late' => t \in late /\ Alive(t)'
      /\ Alive(t)' => (t \in late' <=> t \in late)
      /\ Busy(t)' => Busy(t)
      /\ s_audio_running' => s_audio_running
      /\ s_audio_running' # s_audio_running => Busy(t) /\ ~Busy(t)'
      /\ ~Busy(t) => UNCHANGED sound
  BY <1>0, ThreadEffect
<1>3. \A u \in Threads \ {t} : (Alive(u)' <=> Alive(u)) /\ (Busy(u)' <=> Busy(u))
  BY <1>1 DEF OtherThreads, Alive, Busy
<1>4. Named'
  <2>1. \A u \in Threads : Alive(u)' => Alive(u) /\ (u \in late' <=> u \in late)
    BY <1>1, <1>2, <1>3 DEF OtherThreads
  <2>2. \A u \in late' : Alive(u)'
    BY <1>0, <1>1, <1>2, <1>3 DEF OtherThreads, VoiceInv, Named, TypeOK
  <2> QED
    BY <1>1, <2>1, <2>2 DEF OtherThreads, VoiceInv, Named
<1>5. Stopped'
  BY <1>1, <1>2 DEF OtherThreads, VoiceInv, Stopped, Settled
<1>6. Alone'
  <2> SUFFICES ASSUME ~outlived
               PROVE  /\ late' = {}
                      /\ \A u \in Threads : Busy(u)' /\ ~OfCall(kind[u]) =>
                           /\ \A v \in Threads \ {u} : ~Busy(v)'
                           /\ at # "stopping" => s_audio_running'
    BY <1>1 DEF OtherThreads, Alone
  <2>1. late' = {}
    BY <1>0, <1>1, <1>2 DEF OtherThreads, VoiceInv, Alone, TypeOK
  <2>2. \A u \in Threads : Busy(u)' => Busy(u)
    BY <1>2, <1>3
  <2>3. ASSUME NEW u \in Threads, Busy(u)', ~OfCall(kind[u])
        PROVE  /\ \A v \in Threads \ {u} : ~Busy(v)'
               /\ at # "stopping" => s_audio_running'
    <3>1. /\ \A v \in Threads \ {u} : ~Busy(v)
          /\ at # "stopping" => s_audio_running
      BY <2>2, <2>3 DEF VoiceInv, Alone
    <3>2. s_audio_running' = s_audio_running
      BY <1>2, <2>3, <3>1
    <3> QED
      BY <2>2, <3>1, <3>2
  <2> QED
    BY <2>1, <2>3
<1>7. ASSUME NEW u \in Threads
      PROVE  Held(u)' /\ Format(u)' /\ Cursor(u)'
  <2>1. CASE u = t
    BY <1>0, <2>1, ThreadMine DEF Mine
  <2>2. CASE u # t
    <3>1. /\ handle'[u] = handle[u] /\ cur'[u] = cur[u] /\ pc'[u] = pc[u]
          /\ \A d \in Dirs : holder'[d] = u => holder[d] = u
          /\ UNCHANGED kind
      BY <1>1, <2>2 DEF OtherThreads, OtherSound
    <3>2. Dir(u)' = Dir(u) /\ HasHandle(u)' = HasHandle(u)
      BY <3>1 DEF Dir, HasHandle
    <3>3. Held(u) /\ Format(u) /\ Cursor(u)
      BY DEF VoiceInv
    <3>4. Held(u)'
      BY <3>1, <3>2, <3>3 DEF Held
    <3>5. Format(u)'
      BY <3>1, <3>2, <3>3 DEF Format
    <3>6. Cursor(u)'
      BY <3>1, <3>2, <3>3 DEF Cursor
    <3> QED
      BY <3>4, <3>5, <3>6
  <2> QED
    BY <2>1, <2>2
<1>8. ASSUME ~outlived', NEW u \in Threads
      PROVE  Stage(u)'
  <2>0. ~outlived /\ Stage(u) /\ UNCHANGED kind
    BY <1>1, <1>8 DEF OtherThreads, VoiceInv
  <2>1. CASE OfCall(kind[u])
    BY <2>0, <2>1 DEF Stage
  <2>2. CASE ~OfCall(kind[u]) /\ u = t
    BY <1>0, <2>0, <2>2, ThreadStage
  <2>3. CASE ~OfCall(kind[u]) /\ u # t
    <3>1. pc'[u] = pc[u]
      BY <1>1, <2>3 DEF OtherThreads
    <3>2. CASE ~Busy(u)
      <4>1. pc'[u] \in {"none", "report"}
        BY <3>1, <3>2 DEF Busy
      <4> QED
        BY <4>1, StageElsewhere
    <3>3. CASE Busy(u)
      <4>1. UNCHANGED sound
        BY <1>2, <2>0, <2>3, <3>3 DEF VoiceInv, Alone
      <4>2. UNCHANGED <<handle, cur, data, shared>>
        BY <4>1 DEF sound
      <4>3. Content(u)' = Content(u) /\ Dir(u)' = Dir(u) /\ Wanted(u)' = Wanted(u)
        BY <2>0, <4>2 DEF Content, Dir, Wanted
      <4> QED
        BY <2>0, <3>1, <4>2, <4>3 DEF Stage
    <3> QED
      BY <3>2, <3>3
  <2> QED
    BY <2>1, <2>2, <2>3
<1> QED
  BY <1>0, <1>4, <1>5, <1>6, <1>7, <1>8 DEF VoiceInv

-----------------------------------------------------------------------------
(* The steps of the state machine keep it too.                             *)

(* Steps that touch neither the threads nor their sound.                    *)
LEMMA QuietInv ==
  ASSUME VoiceInv, TypeOK', Stopped', Named', Alone',
         UNCHANGED <<holder, handle, cur, data, shared, pc, kind>>, outlived => outlived'
  PROVE  VoiceInv'
<1>1. ASSUME NEW u \in Threads
      PROVE  Held(u)' /\ Format(u)' /\ Cursor(u)'
  <2>1. Held(u) /\ Format(u) /\ Cursor(u)
    BY DEF VoiceInv
  <2>2. Dir(u)' = Dir(u) /\ HasHandle(u)' = HasHandle(u)
    BY DEF Dir, HasHandle
  <2> QED
    BY <2>1, <2>2 DEF Held, Format, Cursor
<1>2. ASSUME ~outlived', NEW u \in Threads
      PROVE  Stage(u)'
  <2>1. Stage(u)
    BY <1>2 DEF VoiceInv
  <2>2. Content(u)' = Content(u) /\ Dir(u)' = Dir(u) /\ Wanted(u)' = Wanted(u)
    BY DEF Content, Dir, Wanted
  <2> QED
    BY <2>1, <2>2 DEF Stage
<1> QED
  BY <1>1, <1>2 DEF VoiceInv

(* A thread is created: it is the only one of a memo with sound to do, or   *)
(* one has outlived its purpose.                                            *)
LEMMA CreatedInv ==
  ASSUME VoiceInv, TypeOK', Stopped', NEW k \in Kinds, NEW t \in Threads, Created(k, t),
         at' # "stopping" /\ at # "stopping",
         OfCall(k) \/ (~s_audio_running /\ s_audio_running'),
         s_audio_running => s_audio_running'
  PROVE  VoiceInv'
<1>1. /\ pc'[t] = "setup" /\ kind'[t] = k /\ ~Alive(t) /\ tid'[k] = t
      /\ \A u \in Threads \ {t} : pc'[u] = pc[u] /\ kind'[u] = kind[u]
      /\ \A j \in Kinds \ {k} : tid'[j] = tid[j]
      /\ UNCHANGED sound
  BY DEF Created, Free, VoiceInv, TypeOK
<1>2. Named'
  <2>1. ASSUME NEW u \in Threads, Alive(u)'
        PROVE  u \in late' \/ \E j \in Kinds : tid'[j] = u
    <3>1. CASE u = t
      BY <1>1, <3>1
    <3>2. CASE u # t
      <4>1. Alive(u)
        BY <1>1, <2>1, <3>2 DEF Alive
      <4>2. CASE u \in late
        BY <4>2 DEF Created
      <4>3. CASE u \notin late
        <5>1. PICK j \in Kinds : tid[j] = u
          BY <4>1, <4>3 DEF VoiceInv, Named
        <5>2. CASE j = k
          BY <4>1, <5>1, <5>2 DEF Created
        <5>3. CASE j # k
          BY <1>1, <5>1, <5>3
        <5> QED
          BY <5>2, <5>3
      <4> QED
        BY <4>2, <4>3
    <3> QED
      BY <3>1, <3>2
  <2>2. ASSUME NEW u \in late' PROVE Alive(u)'
    <3>1. u \in Threads /\ Alive(u)
      BY <2>2 DEF Created, VoiceInv, Named, TypeOK
    <3> QED
      BY <1>1, <3>1 DEF Alive
  <2> QED
    BY <2>1, <2>2 DEF Named
<1>3. Alone'
  <2> SUFFICES ASSUME ~outlived'
               PROVE  /\ late' = {}
                      /\ \A u \in Threads : Busy(u)' /\ ~OfCall(kind'[u]) =>
                           /\ \A v \in Threads \ {u} : ~Busy(v)'
                           /\ at' # "stopping" => s_audio_running'
    BY DEF Alone
  <2>1. ~outlived /\ ~Overstayed(k) /\ \A u \in Threads : ~(Alive(u) /\ u = tid[k])
    BY DEF Created
  <2>2. late' = {}
    BY <2>1 DEF Created, VoiceInv, Alone
  <2>3. \A u \in Threads \ {t} : Busy(u)' => Busy(u) /\ (OfCall(kind[u]) <=> OfCall(k))
    BY <1>1, <2>1 DEF Busy, Overstayed
  <2>4. ASSUME NEW u \in Threads, Busy(u)', ~OfCall(kind'[u])
        PROVE  /\ \A v \in Threads \ {u} : ~Busy(v)'
               /\ s_audio_running'
    <3>1. ~OfCall(k)
      BY <1>1, <2>3, <2>4
    <3>2. \A v \in Threads \ {t} : ~Busy(v)'
      <4> SUFFICES ASSUME NEW v \in Threads \ {t}, Busy(v)'
                   PROVE  FALSE
        OBVIOUS
      <4>1. Busy(v) /\ ~OfCall(kind[v])
        BY <2>3, <3>1
      <4> QED
        BY <2>1, <3>1, <4>1 DEF VoiceInv, Alone
    <3>3. u = t
      BY <2>4, <3>2
    <3> QED
      BY <3>1, <3>2, <3>3
  <2> QED
    BY <2>2, <2>4
<1>4. ASSUME NEW u \in Threads
      PROVE  Held(u)' /\ Format(u)' /\ Cursor(u)'
  <2>0. Held(u) /\ Format(u) /\ Cursor(u)
    BY DEF VoiceInv
  <2>1. CASE u = t
    <3>1. ~HasHandle(t) /\ pc[t] = "none"
      BY <1>1 DEF HasHandle, Alive
    <3> QED
      BY <1>1, <2>0, <2>1, <3>1 DEF Held, Format, Cursor, HasHandle, sound
  <2>2. CASE u # t
    <3>1. Dir(u)' = Dir(u) /\ pc'[u] = pc[u]
      BY <1>1, <2>2 DEF Dir
    <3>2. HasHandle(u)' = HasHandle(u)
      BY <3>1 DEF HasHandle
    <3> QED
      BY <1>1, <2>0, <3>1, <3>2 DEF Held, Format, Cursor, sound
  <2> QED
    BY <2>1, <2>2
<1>5. ASSUME ~outlived', NEW u \in Threads
      PROVE  Stage(u)'
  <2>1. CASE u = t
    BY <1>1, <2>1, StageElsewhere
  <2>2. CASE u # t
    <3>1. Stage(u) /\ pc'[u] = pc[u] /\ kind'[u] = kind[u]
      BY <1>1, <1>5, <2>2 DEF VoiceInv, Created
    <3>2. Content(u)' = Content(u) /\ Dir(u)' = Dir(u) /\ Wanted(u)' = Wanted(u)
          /\ UNCHANGED handle
      BY <1>1, <3>1 DEF Content, Dir, Wanted, sound
    <3> QED
      BY <3>1, <3>2 DEF Stage
  <2> QED
    BY <2>1, <2>2
<1> QED
  BY <1>2, <1>3, <1>4, <1>5 DEF VoiceInv

(* Starting a thread keeps it, when the flag says that no other is left. *)
LEMMA CreateInv ==
  ASSUME VoiceInv, TypeOK', Stopped', NEW k \in Kinds, Create(k),
         at' # "stopping" /\ at # "stopping",
         OfCall(k) \/ (~s_audio_running /\ s_audio_running'),
         s_audio_running => s_audio_running'
  PROVE  VoiceInv'
<1>1. CASE NotCreated
  <2>1. Named'
    BY <1>1 DEF NotCreated, VoiceInv, Named, Alive
  <2>2. Alone'
    BY <1>1 DEF NotCreated, VoiceInv, Alone, Busy
  <2> QED
    BY <1>1, <2>1, <2>2, QuietInv DEF NotCreated
<1>2. ASSUME NEW t \in Threads, Created(k, t) PROVE VoiceInv'
  BY <1>2, CreatedInv
<1> QED
  BY <1>1, <1>2, CreateCases

(* Steps that leave the threads and their names alone.                      *)
LEMMA SameThreads ==
  ASSUME VoiceInv, TypeOK', Stopped', UNCHANGED <<sound, tid, kind, pc, late, outlived>>,
         at' # "stopping" => at # "stopping" /\ (s_audio_running => s_audio_running')
  PROVE  VoiceInv'
<1>1. Named'
  BY DEF VoiceInv, Named, Alive
<1>2. Alone'
  BY DEF VoiceInv, Alone, Busy
<1> QED
  BY <1>1, <1>2, QuietInv DEF sound

(* The handlers of the state machine keep it. *)
LEMMA ProcessInv ==
  ASSUME VoiceInv, Process
  PROVE  VoiceInv'
<1>0. TypeOK /\ TypeOK' /\ at = "ready"
  BY CallerType DEF VoiceInv, CallerStep, Process
<1>1. ASSUME NEW next, AudioStop(next) PROVE VoiceInv'
  <2>1. Stopped'
    BY <1>1 DEF AudioStop, Stopped, Settled
  <2> QED
    BY <1>0, <1>1, <2>1, SameThreads DEF AudioStop
<1>2. ASSUME NEW k \in Kinds, mode' # "IDLE", Refuse(k) PROVE VoiceInv'
  <2>1. Stopped'
    BY <1>0, <1>2 DEF Refuse, Stopped, Settled
  <2> QED
    BY <1>0, <1>2, <2>1, SameThreads DEF Refuse, threads
<1>3. CASE Nothing /\ (mode' \in {"INCOMING", "MEMO"} \/ mode' = mode)
  <2>1. Stopped'
    BY <1>0, <1>3 DEF Nothing, threads, Stopped, Settled, VoiceInv
  <2> QED
    BY <1>0, <1>3, <2>1, SameThreads DEF Nothing, threads
<1>4. CASE mode' # "IDLE" /\ AudioStart /\ ~s_audio_running
  <2>1. /\ at' = "starting" /\ s_audio_running' /\ Create("in")
    BY <1>4 DEF AudioStart
  <2>2. Stopped'
    BY <1>4, <2>1 DEF Stopped, Settled
  <2> QED
    BY <1>0, <1>4, <2>1, <2>2, CreateInv DEF Kinds, OfCall
<1>5. ASSUME NEW k \in Kinds, mode' = "MEMO", StartFile(k), ~s_audio_running
      PROVE  VoiceInv'
  <2>1. /\ at' = "ready" /\ s_audio_running' /\ Create(k)
    BY <1>0, <1>5 DEF StartFile
  <2>2. Stopped'
    BY <1>5, <2>1 DEF Stopped, Settled
  <2> QED
    BY <1>0, <1>5, <2>1, <2>2, CreateInv
<1>6. CASE mode' # "IDLE" /\ AudioStart
  BY <1>2, <1>4, <1>6 DEF AudioStart, Kinds
<1>7. CASE mode' = "MEMO" /\ (StartFile("play") \/ StartFile("record"))
  BY <1>2, <1>5, <1>7 DEF StartFile, Kinds
<1> QED
  BY <1>0, <1>1, <1>3, <1>6, <1>7, ProcessCases

(* So does the return of upil_audio_stop, with threads left behind or not. *)
LEMMA StopReturnsInv ==
  ASSUME VoiceInv, StopReturns
  PROVE  VoiceInv'
<1>0. TypeOK' /\ TypeOK
  BY CallerType DEF VoiceInv, CallerStep
<1>1. Stopped'
  BY <1>0 DEF StopReturns, Stopped, Settled, VoiceInv
<1>2. late' = late \cup {t \in WaitedFor : Alive(t)}
  BY DEF StopReturns, Forget
<1>3. Named'
  <2>1. ASSUME NEW t \in Threads, Alive(t) PROVE t \in late'
    <3>1. CASE t \in late
      BY <1>2, <3>1
    <3>2. CASE t \notin late
      <4>1. \E k \in Kinds : tid[k] = t
        BY <2>1, <3>2 DEF VoiceInv, Named
      <4>2. t \in WaitedFor
        BY <4>1 DEF WaitedFor
      <4> QED
        BY <1>2, <2>1, <4>2
    <3> QED
      BY <3>1, <3>2
  <2>2. ASSUME NEW t \in late' PROVE Alive(t)
    BY <1>2, <2>2 DEF VoiceInv, Named
  <2>3. UNCHANGED pc
    BY DEF StopReturns
  <2> QED
    BY <2>1, <2>2, <2>3 DEF Named, Alive
<1>5. \/ /\ \A t \in WaitedFor : ~Alive(t)
         /\ UNCHANGED <<holder, handle, cur, data, shared, pc, kind, late, outlived>>
      \/ /\ \E t \in WaitedFor : Alive(t)
         /\ outlived'
         /\ UNCHANGED <<holder, handle, cur, data, shared, pc, kind>>
  <2>1. CASE \A t \in WaitedFor : ~Alive(t)
    BY <2>1 DEF StopReturns, sound
  <2>2. CASE \E t \in WaitedFor : Alive(t)
    <3>1. Forget({t \in WaitedFor : Alive(t)}) /\ {t \in WaitedFor : Alive(t)} # {}
      BY <2>2 DEF StopReturns
    <3>2. outlived'
      BY <3>1 DEF Forget
    <3> QED
      BY <2>2, <3>2 DEF StopReturns
  <2> QED
    BY <2>1, <2>2
<1>6. UNCHANGED <<holder, handle, cur, data, shared, pc, kind>> /\ (outlived => outlived')
  BY <1>5
<1>4. Alone'
  <2> SUFFICES ASSUME ~outlived'
               PROVE  late' = {} /\ \A t \in Threads : ~Busy(t)'
    BY DEF Alone
  <2>1. ~outlived /\ late' = late
    <3>1. CASE \A t \in WaitedFor : ~Alive(t)
      BY <1>5, <3>1
    <3>2. CASE \E t \in WaitedFor : Alive(t)
      BY <1>5, <3>2
    <3> QED
      BY <3>1, <3>2
  <2>2. late' = {}
    BY <2>1 DEF VoiceInv, Alone
  <2>3. \A t \in Threads : ~Alive(t)'
    <3>1. \A t \in Threads : \A k \in Kinds : tid'[k] # t
      BY DEF StopReturns
    <3> QED
      BY <1>3, <2>2, <3>1 DEF Named
  <2> QED
    BY <2>2, <2>3 DEF Busy, Alive
<1> QED
  BY <1>0, <1>1, <1>3, <1>4, <1>6, QuietInv

(* So does everything outside the threads. *)
LEMMA CallerInv ==
  ASSUME VoiceInv, CallerStep \/ Happens
  PROVE  VoiceInv'
<1>0. TypeOK /\ TypeOK'
  BY CallerType DEF VoiceInv
<1>1. CASE StartOut
  <2>1. /\ at = "starting" /\ at' = "ready" /\ UNCHANGED <<mode, s_audio_running>>
        /\ Create("out") /\ mode # "IDLE"
    BY <1>1 DEF StartOut, VoiceInv, Stopped
  <2>2. Stopped'
    BY <2>1 DEF Stopped, Settled
  <2> QED
    BY <1>0, <2>1, <2>2, CreateInv DEF Kinds, OfCall
<1>2. CASE Happens
  <2>1. UNCHANGED <<sound, threads, mode, at, late, outlived>>
    BY <1>2 DEF Happens
  <2>2. Stopped'
    BY <2>1 DEF VoiceInv, Stopped, Settled, threads
  <2> QED
    BY <1>0, <2>1, <2>2, SameThreads DEF threads
<1> QED
  BY <1>1, <1>2, ProcessInv, StopReturnsInv DEF CallerStep, TrackReady, TrackLate

-----------------------------------------------------------------------------
(* The inductive invariant of the voice threads.                            *)
THEOREM VoiceInvariant == Spec => []VoiceInv
<1>1. Init => VoiceInv
  <2> SUFFICES ASSUME Init
               PROVE  VoiceInv
    OBVIOUS
  <2>1. TypeOK
    BY InitType
  <2>2. Named /\ Stopped /\ Alone
    BY DEF Init, Named, Stopped, Settled, Alone, Alive, Busy
  <2>3. ASSUME NEW t \in Threads PROVE Held(t) /\ Format(t) /\ Cursor(t) /\ Stage(t)
    BY DEF Init, SoundInit, Held, Format, Cursor, Stage, HasHandle
  <2> QED
    BY <2>1, <2>2, <2>3 DEF VoiceInv
<1>2. VoiceInv /\ [Next]_vars => VoiceInv'
  <2> SUFFICES ASSUME VoiceInv, [Next]_vars
               PROVE  VoiceInv'
    OBVIOUS
  <2>1. CASE UNCHANGED vars
    <3>1. TypeOK'
      BY NextType DEF VoiceInv
    <3>2. Stopped'
      BY <2>1 DEF vars, threads, caller, VoiceInv, Stopped, Settled
    <3> QED
      BY <2>1, <3>1, <3>2, SameThreads DEF vars, threads, caller
  <2> QED
    BY <2>1, ThreadInv, CallerInv DEF Next
<1> QED
  BY <1>1, <1>2, PTL DEF Spec

(* When the phone is idle again nothing is left of a call or a memo but the *)
(* threads upil_audio_stop gave up on, what they hold, and what a failed    *)
(* set-up has kept open (upil_audio_stop).                                  *)
THEOREM StopIsComplete == Spec => []StopLeavesNothing
<1>1. VoiceInv => StopLeavesNothing
  <2> SUFFICES ASSUME VoiceInv, Settled
               PROVE  /\ ~s_audio_running
                      /\ \A t \in Threads : Alive(t) => t \in late
                      /\ \A d \in Dirs : holder[d] \in late \cup {0, Lost}
    BY DEF StopLeavesNothing
  <2>1. ~s_audio_running /\ \A k \in Kinds : tid[k] = 0
    BY DEF VoiceInv, Stopped
  <2>2. \A t \in Threads : Alive(t) => t \in late
    BY <2>1 DEF VoiceInv, Named
  <2>3. ASSUME NEW d \in Dirs, holder[d] \in Threads PROVE holder[d] \in late
    <3>1. HasHandle(holder[d])
      BY <2>3 DEF VoiceInv, Held
    <3> QED
      BY <2>2, <2>3, <3>1 DEF HasHandle, Alive
  <2>4. \A d \in Dirs : holder[d] \in Threads \cup {0, Lost}
    BY DEF VoiceInv, TypeOK, SoundTypeOK
  <2> QED
    BY <2>1, <2>2, <2>3, <2>4
<1> QED
  BY <1>1, VoiceInvariant, PTL

(* As long as no thread has outlived its call or its memo, what the prompt  *)
(* and the recording deliver is their own sound in the format of the other  *)
(* end, through buffers that all threads share (usb_audio_read,             *)
(* usb_audio_write).                                                        *)
THEOREM MemoIsPure == Spec => []MemoPure
<1>1. VoiceInv => MemoPure
  BY DEF VoiceInv, MemoPure, Stage
<1> QED
  BY <1>1, VoiceInvariant, PTL
=============================================================================
