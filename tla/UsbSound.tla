------------------------------ MODULE UsbSound ------------------------------
(***************************************************************************)
(* The sound of the telephone, usb_audio_pcm.c with mixer.c and            *)
(* resampler.c, as the voice threads use it.  Each thread has at most one  *)
(* handle; the kernel lets one descriptor at a time have a substream, and  *)
(* open() waits for it.  The three conversion buffers are global and       *)
(* shared by all handles.                                                  *)
(*                                                                         *)
(* A block of samples is its source, its rate and its channels: enough to  *)
(* tell whose sound a thread delivers and whether the other end can play   *)
(* it.  A block is copied or converted in one step, and a rate or channel  *)
(* count of 0 stands for one that went wrong.                              *)
(***************************************************************************)
EXTENDS Integers

CONSTANTS
  Threads,     \* the voice threads that exist at one time
  MaxFaults    \* bound: failures of devices, files and memory, time-outs

ASSUME SoundAssumption ==
  /\ Threads \subseteq Nat \ {0}
  /\ MaxFaults \in Nat

VARIABLES
  holder,   \* holder[dir]: the thread whose descriptor has the substream, 0 when it
            \* is free, Lost when the descriptor is open and nobody knows it
  handle,   \* handle[t]: the struct usb_audio_pcm of t
  cur,      \* cur[t]: the buffer the local variable `buffer' points to
  data,     \* data[t]: the block in the caller's own buffer
  shared,   \* buffer_read, buffer_resample and buffer_channels
  volume,   \* the level of the playback volume control
  faults

sound == <<holder, handle, cur, data, shared, volume, faults>>

Dirs == {"IN", "OUT"}
Lost == -1
Shared == {"read", "resample", "channels"}
Rates == {0, 8000, 44100, 48000}
Sources == {"nothing", "line", "host", "prompt"}
Blocks == [src : Sources, rate : Rates, ch : 0..2]
Silence == [src |-> "nothing", rate |-> 0, ch |-> 0]

\* fd is -1 ("bad") when pcm_open has failed: it returns the struct all the same.
Handles == [dir : Dirs, fd : {"none", "ok", "bad"}, running : BOOLEAN,
            inrate : Rates, outrate : Rates, source : 0..2, target : 0..2]
NoHandle == [dir |-> "IN", fd |-> "none", running |-> FALSE,
             inrate |-> 0, outrate |-> 0, source |-> 0, target |-> 0]

SoundTypeOK ==
  /\ holder \in [Dirs -> Threads \cup {0, Lost}]
  /\ handle \in [Threads -> Handles]
  /\ cur \in [Threads -> Shared \cup {"data"}]
  /\ data \in [Threads -> Blocks]
  /\ shared \in [Shared -> Blocks]
  /\ volume \in {"reset", "set"}
  /\ faults \in 0..MaxFaults

SoundInit ==
  /\ holder = [d \in Dirs |-> 0]
  /\ handle = [t \in Threads |-> NoHandle]
  /\ cur = [t \in Threads |-> "data"]
  /\ data = [t \in Threads |-> Silence]
  /\ shared = [b \in Shared |-> Silence]
  /\ volume = "reset"
  /\ faults = 0

\* Something outside the program fails, as often as the bound allows.
Fault ==
  /\ faults < MaxFaults
  /\ faults' = faults + 1

-----------------------------------------------------------------------------
(* Opening and closing.                                                    *)

\* The hardware parameters: those of pcm_config_ua_in and pcm_config_ua_out.
HwRate(dir) == IF dir = "IN" THEN 8000 ELSE 48000
HwChannels(dir) == IF dir = "IN" THEN 1 ELSE 2

\* A block in the format that pcm_open asks of the hardware, by param_set_int and its
\* likes.
HwBlock(dir, src) == [src |-> src, rate |-> HwRate(dir), ch |-> HwChannels(dir)]

\* Variant: the rates are given in the same order in both directions.
OpenedOneWay(dir, fd, rate, channels) ==
  [dir |-> dir, fd |-> fd, running |-> FALSE,
   inrate |-> HwRate(dir), outrate |-> rate,
   source |-> IF dir = "IN" THEN HwChannels(dir) ELSE channels,
   target |-> IF dir = "IN" THEN channels ELSE HwChannels(dir)]

\* usb_audio_set_resample: the conversions between the hardware and a caller
\* with that rate and those channels.  Equal rates need no resampler.
Opened(dir, fd, rate, channels) ==
  [dir |-> dir, fd |-> fd, running |-> FALSE,
   inrate |-> IF dir = "IN" THEN HwRate(dir) ELSE rate,
   outrate |-> IF dir = "IN" THEN rate ELSE HwRate(dir),
   source |-> IF dir = "IN" THEN HwChannels(dir) ELSE channels,
   target |-> IF dir = "IN" THEN channels ELSE HwChannels(dir)]

\* usb_audio_set_volume: the loop over the values of control 1.
SetVolume(dir) ==
  volume' = IF dir = "OUT" THEN "set" ELSE volume

Holds(t, dir, fd, rate, channels) ==
  /\ holder[dir] = 0
  /\ holder' = [holder EXCEPT ![dir] = t]
  /\ handle' = [handle EXCEPT ![t] = Opened(dir, fd, rate, channels)]
  /\ UNCHANGED <<cur, data, shared>>

\* pcm_open, mixer_open, usb_audio_set_resample and usb_audio_set_volume.
SetupOk(t, dir, rate, channels) ==
  /\ Holds(t, dir, "ok", rate, channels)
  /\ SetVolume(dir)
  /\ UNCHANGED faults

\* The control refuses the level, and usb_audio_set_volume returns 0.
SetupQuiet(t, dir, rate, channels) ==
  /\ dir = "OUT"
  /\ Holds(t, dir, "ok", rate, channels)
  /\ Fault
  /\ UNCHANGED volume

\* open() or an ioctl fails: the descriptor is closed and the struct returned;
\* usb_audio_open looks for NULL, which it never is.
SetupBad(t, dir, rate, channels) ==
  /\ Fault
  /\ handle' = [handle EXCEPT ![t] = Opened(dir, "bad", rate, channels)]
  /\ SetVolume(dir)
  /\ UNCHANGED <<holder, cur, data, shared>>

\* pcm_hw_mmap_status can neither map the status of a substream that is open
\* already nor find the memory for a copy of it.
SetupNoStatus(t, dir, rate, channels) ==
  /\ holder[dir] = 0
  /\ SetupBad(t, dir, rate, channels)

\* mixer_open fails: usb_audio_open returns NULL and forgets the open pcm.
SetupNoMixer(t, dir) ==
  /\ holder[dir] = 0
  /\ Fault
  /\ holder' = [holder EXCEPT ![dir] = Lost]
  /\ UNCHANGED <<handle, cur, data, shared, volume>>

\* create_resampler fails: usba_setup_record and usba_setup_track close all.
SetupNoResampler(t, dir, rate) ==
  /\ holder[dir] = 0
  /\ rate # HwRate(dir)
  /\ Fault
  /\ UNCHANGED <<holder, handle, cur, data, shared, volume>>

\* A thread returns and does not close its handle.
LoseHandle(t) ==
  /\ holder' = [d \in Dirs |-> IF holder[d] = t THEN Lost ELSE holder[d]]
  /\ handle' = [handle EXCEPT ![t] = NoHandle]

\* The blocks that are left when t has done with its own: one that no thread points
\* to is never read again.
Kept(t) ==
  [b \in Shared |-> IF \E u \in Threads \ {t} : cur[u] = b THEN shared[b] ELSE Silence]

\* pcm_close: the substream is free for the next open().
PcmClose(t) == holder' = [d \in Dirs |-> IF holder[d] = t THEN 0 ELSE holder[d]]

\* mixer_close: the controls keep their values.
MixerClose == UNCHANGED volume

\* usb_audio_close: the resampler, the pcm and the mixer.
UsbClose(t) ==
  /\ PcmClose(t)
  /\ handle' = [handle EXCEPT ![t] = NoHandle]
  /\ data' = [data EXCEPT ![t] = Silence]
  /\ cur' = [cur EXCEPT ![t] = "data"]
  /\ shared' = Kept(t)
  /\ MixerClose
  /\ UNCHANGED faults

-----------------------------------------------------------------------------
(* Reading and writing.                                                    *)

Content(t) == IF cur[t] = "data" THEN data[t] ELSE shared[cur[t]]

NeedsResample(h) == h.inrate # h.outrate
NeedsChannels(h) == h.source # h.target

Store(t, b, block) ==
  /\ shared' = [shared EXCEPT ![b] = block]
  /\ cur' = [cur EXCEPT ![t] = b]
  /\ UNCHANGED <<holder, handle, data, volume, faults>>

\* resampler_resample_from_input.
Resampled(h, block) ==
  [block EXCEPT !.rate = IF block.rate = h.inrate THEN h.outrate ELSE 0]

\* stereo_to_mono and mono_to_stereo: whatever is not mono becomes stereo.
Converted(h, block) ==
  [block EXCEPT !.ch = CASE h.target = 1 /\ block.ch = 2 -> 1
                         [] h.target = 2 /\ block.ch = 1 -> 2
                         [] OTHER -> 0]

Resample(t) == Store(t, "resample", Resampled(handle[t], Content(t)))
ConvertChannels(t) == Store(t, "channels", Converted(handle[t], Content(t)))

\* pcm_read: prepare, start and read; a pcm that is not open fails at once.
PcmRead(t) ==
  /\ handle[t].fd = "ok"
  /\ handle' = [handle EXCEPT ![t].running = TRUE]
  /\ shared' = [shared EXCEPT !["read"] = HwBlock("IN", "line")]
  /\ cur' = [cur EXCEPT ![t] = "read"]
  /\ UNCHANGED <<holder, data, volume, faults>>

\* pcm_write.
PcmWrite(t) ==
  /\ handle[t].fd = "ok"
  /\ handle' = [handle EXCEPT ![t].running = TRUE]
  /\ cur' = [cur EXCEPT ![t] = "data"]
  /\ data' = [data EXCEPT ![t] = Silence]
  /\ shared' = Kept(t)
  /\ UNCHANGED <<holder, volume, faults>>

\* EPIPE: the stream has run dry; the loop prepares it again.
Underrun(t) ==
  /\ handle[t].running
  /\ Fault
  /\ handle' = [handle EXCEPT ![t].running = FALSE]
  /\ UNCHANGED <<holder, cur, data, shared, volume>>

\* Any other error of an ioctl, which one on descriptor -1 always meets.
PcmFails(t) ==
  /\ IF handle[t].fd = "bad" THEN UNCHANGED faults ELSE Fault
  /\ handle' = [handle EXCEPT ![t].running = FALSE]
  /\ UNCHANGED <<holder, cur, data, shared, volume>>

\* The memcpy of usb_audio_read from the last buffer it filled to the caller's.
CopyOut(t) ==
  /\ data' = [data EXCEPT ![t] = Content(t)]
  /\ cur' = [cur EXCEPT ![t] = "data"]
  /\ shared' = Kept(t)
  /\ UNCHANGED <<holder, handle, volume, faults>>
=============================================================================
