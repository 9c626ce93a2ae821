------------------------------ MODULE EventLoop ------------------------------
(***************************************************************************)
(* The event loop of upil_event/upil_event.c with the wakeup pipe of       *)
(* upil_event/upil_event_wrapper.c: one loop thread that sleeps in         *)
(* select() and runs callbacks, and other threads that add timers and      *)
(* descriptors to it and wake it through the pipe.                         *)
(*                                                                         *)
(* A timer is a struct upil_event linked in timer_list or pending_list.    *)
(* A descriptor stands for itself and for the event that watches it.       *)
(* listMutex is not a variable: every function that holds it is one step,  *)
(* and the unlocked parts (the fd_set copy, calcNextTimeout, firePending)  *)
(* are steps of their own.  Callbacks are what callers of this code do:    *)
(* they add and delete timers and descriptors and return 0 or -1.          *)
(***************************************************************************)
EXTENDS Integers, FiniteSets, SequencesExt

CONSTANTS
  Timers,         \* timer events that threads may arm
  Files,          \* descriptors (numbers) other than the pipe
  WakeFd,         \* fdWakeupRead, the read end of the pipe
  Persistent,     \* descriptors whose event stays watched once it fired
  Senders,        \* threads other than the loop thread
  MAX_FD_EVENTS,  \* size of watch_table
  Delays,         \* the delays timers are armed with
  MaxTime,        \* bound on the clock
  Null            \* the NULL pointer, or the head node of a list

Fds == Files \cup {WakeFd}

ASSUME FdAssumption ==
  /\ Files \subseteq Nat
  /\ WakeFd \in Nat \ Files
  /\ WakeFd \in Persistent
  /\ Persistent \subseteq Fds

ASSUME TimeAssumption ==
  /\ Delays \subseteq Nat
  /\ MaxTime \in Nat

ASSUME TableAssumption == MAX_FD_EVENTS \in Nat \ {0}

\* Every descriptor and the pipe find a slot: of the 16 the daemon uses eight,
\* for its three sockets, one client on each, the telephone and the pipe.
ASSUME RoomAssumption ==
  /\ IsFiniteSet(Files)
  /\ Cardinality(Files) < MAX_FD_EVENTS

ASSUME EventAssumption ==
  /\ Timers \cap Fds = {}
  /\ Null \notin Timers \cup Nat

VARIABLES
  now,           \* the clock getNow() reads
  timeout,       \* ev->timeout of each timer
  timer_list,    \* context->timer_list, head first
  pending_list,  \* context->pending_list, head first
  watch_table,   \* context->watch_table
  nfds,          \* context->nfds
  readable,      \* descriptors with data to read; WakeFd: a byte in the pipe
  pc,            \* where the loop thread is
  rfds,          \* the copy of readFds that select() works on
  wait_until,    \* when select() times out; Null blocks indefinitely
  slot,          \* index i of processReadReadies
  ev, next,      \* the locals of firePending; Null is &pending_list
  spc            \* where each sender is

timerVars == <<timeout, timer_list>>
watchVars == <<watch_table, nfds>>
selectVars == <<rfds, wait_until>>
fireVars == <<ev, next>>
vars == <<now, timerVars, pending_list, watchVars, readable, pc, selectVars,
          slot, fireVars, spc>>

Slots == 1..MAX_FD_EVENTS

Watched == {watch_table[i] : i \in Slots} \ {Null}

Linked == ToSet(timer_list) \cup ToSet(pending_list)


TypeOK ==
  /\ now \in Nat
  /\ timeout \in [Timers -> Nat]
  /\ timer_list \in Seq(Timers)
  /\ pending_list \in Seq(Timers \cup Fds)
  /\ watch_table \in [Slots -> Fds \cup {Null}]
  /\ nfds \in Nat
  /\ readable \subseteq Fds
  /\ pc \in {"init", "pipe", "addwake", "copy", "calc", "select", "timeouts",
             "ready", "fire", "callback", "killed", "exited"}
  /\ rfds \subseteq Fds
  /\ wait_until \in Nat \cup {Null}
  /\ slot \in Nat \ {0}
  /\ ev \in Timers \cup Fds \cup {Null}
  /\ next \in Timers \cup Fds \cup {Null}
  /\ spc \in [Senders -> {"idle", "trigger"}]

-----------------------------------------------------------------------------
(* The list and table primitives.  Each takes the lists it changes to the  *)
(* lists afterwards.                                                       *)

\* Variant: at the end of the list.
InsertPosLast(t) == Len(timer_list) + 1

\* Where upil_timer_add links a timer due at t: before the first timer that
\* is not due earlier, so of two equal timeouts the one added last is first.
InsertPos(t) ==
  CHOOSE k \in 1..(Len(timer_list) + 1) :
    /\ \A i \in 1..(k - 1) : timeout[timer_list[i]] < t
    /\ k <= Len(timer_list) => timeout[timer_list[k]] >= t

\* The node after a list's head node; the head node itself if the list is empty.
First(list) == IF list = <<>> THEN Null ELSE Head(list)

\* upil_timer_add for a timer that is in no list.
TimerAdd(e, delay) ==
  /\ e \notin Linked
  /\ now + delay < MaxTime
  /\ timeout' = [timeout EXCEPT ![e] = now + delay]
  /\ timer_list' = InsertAt(timer_list, InsertPos(now + delay), e)

\* upil_timer_del: unlink e from the list it is in.
TimerDel(e) ==
  /\ e \in Linked
  /\ timer_list' = RemoveFirst(timer_list, e)
  /\ pending_list' = RemoveFirst(pending_list, e)

\* upil_event_add: the first free slot; the event is dropped if there is none.
EventAdd(f) ==
  LET free == {i \in Slots : watch_table[i] = Null}
  IN IF free = {}
       THEN UNCHANGED watchVars
       ELSE /\ watch_table' = [watch_table EXCEPT ![Min(free)] = f]
            /\ nfds' = IF f >= nfds THEN f + 1 ELSE nfds

\* Variant: nfds is the highest descriptor that is left, not one more.
RemoveWatchShort(i) ==
  LET rest == {watch_table[j] : j \in Slots \ {i}} \ {Null}
  IN /\ watch_table' = [watch_table EXCEPT ![i] = Null]
     /\ nfds' = IF watch_table[i] + 1 = nfds THEN Max(rest \cup {0}) ELSE nfds

\* removeWatch of slot i: nfds shrinks when the highest descriptor goes.
RemoveWatch(i) ==
  LET f    == watch_table[i]
      rest == {watch_table[j] : j \in Slots \ {i}} \ {Null}
  IN /\ watch_table' = [watch_table EXCEPT ![i] = Null]
     /\ nfds' = IF f + 1 = nfds THEN Max(rest \cup {0}) + 1 ELSE nfds

\* upil_event_del: an event that has no slot is left alone.
EventDel(f) ==
  IF f \in Watched
    THEN RemoveWatch(CHOOSE i \in Slots : watch_table[i] = f)
    ELSE UNCHANGED watchVars

\* processReadReadies holds listMutex from its first slot to its last.
MutexFree == pc # "ready"

-----------------------------------------------------------------------------
(* The loop thread: eventLoop and upil_event_loop.                         *)

Init ==
  /\ now = 0
  /\ timeout = [e \in Timers |-> 0]
  /\ timer_list = <<>>
  /\ pending_list = <<>>
  /\ watch_table = [i \in Slots |-> Null]
  /\ nfds = 0
  /\ readable = {}
  /\ pc = "init"
  /\ rfds = {}
  /\ wait_until = Null
  /\ slot = 1
  /\ ev = Null
  /\ next = Null
  /\ spc = [s \in Senders |-> "idle"]

\* upil_event_init, then s_started: uew_startEventLoop returns to its caller
\* before the pipe exists.
SignalStarted ==
  /\ pc = "init"
  /\ pc' = "pipe"
  /\ UNCHANGED <<now, timerVars, pending_list, watchVars, readable, selectVars,
                 slot, fireVars, spc>>

\* pipe() succeeds, or fails and the loop thread returns.
OpenPipe ==
  /\ pc = "pipe"
  /\ pc' \in {"addwake", "exited"}
  /\ UNCHANGED <<now, timerVars, pending_list, watchVars, readable, selectVars,
                 slot, fireVars, spc>>

\* The loop thread watches the pipe; it does not trigger itself.
WatchPipe ==
  /\ pc = "addwake"
  /\ EventAdd(WakeFd)
  /\ pc' = "copy"
  /\ UNCHANGED <<now, timerVars, pending_list, readable, selectVars, slot,
                 fireVars, spc>>

\* memcpy(&rfds, &context->readFds), without listMutex.
CopyReadFds ==
  /\ pc = "copy"
  /\ rfds' = Watched
  /\ pc' = "calc"
  /\ UNCHANGED <<now, timerVars, pending_list, watchVars, readable, wait_until,
                 slot, fireVars, spc>>

\* Variants: an overdue timer gives a time in the past; select() always blocks.
NextTimeoutSigned ==
  IF timer_list = <<>> THEN Null ELSE timeout[Head(timer_list)] - now
NextTimeoutNone == Null

\* calcNextTimeout, without listMutex, from the first timer only.
NextTimeout ==
  IF timer_list = <<>> THEN Null
  ELSE LET t == timeout[Head(timer_list)] IN IF t > now THEN t ELSE now

\* calcNextTimeout, then select() with the nfds of that moment.
EnterSelect ==
  /\ pc = "calc"
  /\ wait_until' = NextTimeout
  /\ rfds' = {f \in rfds : f < nfds}
  /\ pc' = "select"
  /\ UNCHANGED <<now, timerVars, pending_list, watchVars, readable, slot,
                 fireVars, spc>>

\* select() returns: a descriptor is ready or the timeout has elapsed.
SelectReturns ==
  /\ pc = "select"
  /\ \/ rfds \cap readable # {}
     \/ wait_until # Null /\ now >= wait_until
  /\ rfds' = rfds \cap readable
  /\ pc' = "timeouts"
  /\ UNCHANGED <<now, timerVars, pending_list, watchVars, readable, wait_until,
                 slot, fireVars, spc>>

\* select() fails: EINTR starts over, anything else ends the process.
SelectFails ==
  /\ pc = "select"
  /\ pc' \in {"copy", "killed"}
  /\ UNCHANGED <<now, timerVars, pending_list, watchVars, readable, selectVars,
                 slot, fireVars, spc>>

\* Variant: only the first timer is compared with the clock.
OverdueAll == IF timer_list # <<>> /\ now > timeout[timer_list[1]] THEN Len(timer_list) ELSE 0

\* The timers processTimeouts takes: from the head, while overdue.
Overdue ==
  CHOOSE k \in 0..Len(timer_list) :
    /\ \A i \in 1..k : now > timeout[timer_list[i]]
    /\ k < Len(timer_list) => now <= timeout[timer_list[k + 1]]

\* Variant: an expired timer stays in timer_list as well.
ProcessTimeoutsKeep ==
  /\ pc = "timeouts"
  /\ pending_list' = pending_list \o SubSeq(timer_list, 1, Overdue)
  /\ slot' = 1
  /\ pc' = "ready"
  /\ UNCHANGED <<now, timerVars, watchVars, readable, selectVars, fireVars, spc>>

ProcessTimeouts ==
  /\ pc = "timeouts"
  /\ pending_list' = pending_list \o SubSeq(timer_list, 1, Overdue)
  /\ timer_list' = SubSeq(timer_list, Overdue + 1, Len(timer_list))
  /\ slot' = 1
  /\ pc' = "ready"
  /\ UNCHANGED <<now, timeout, watchVars, readable, selectVars, fireVars, spc>>

\* One iteration of processReadReadies; rfds keeps the descriptors still to
\* be found, so it is empty when n is 0.
ProcessReadReady ==
  /\ pc = "ready"
  /\ slot <= MAX_FD_EVENTS
  /\ rfds # {}
  /\ slot' = slot + 1
  /\ LET f == watch_table[slot]
     IN IF f \in rfds
          THEN /\ pending_list' = Append(pending_list, f)
               /\ IF f \in Persistent THEN UNCHANGED watchVars ELSE RemoveWatch(slot)
               /\ rfds' = rfds \ {f}
          ELSE UNCHANGED <<pending_list, watchVars, rfds>>
  /\ UNCHANGED <<now, timerVars, readable, pc, wait_until, fireVars, spc>>

\* processReadReadies is done; firePending starts at the first pending event.
BeginFire ==
  /\ pc = "ready"
  /\ slot > MAX_FD_EVENTS \/ rfds = {}
  /\ ev' = First(pending_list)
  /\ pc' = "fire"
  /\ UNCHANGED <<now, timerVars, pending_list, watchVars, readable, selectVars,
                 slot, next, spc>>

\* firePending saves ev->next, unlinks ev and calls ev->func.
FireEvent ==
  /\ pc = "fire"
  /\ pending_list # <<>>
  /\ ev = Head(pending_list)
  /\ pending_list' = Tail(pending_list)
  /\ next' = First(Tail(pending_list))
  /\ pc' = "callback"
  /\ UNCHANGED <<now, timerVars, watchVars, readable, selectVars, slot, ev, spc>>

\* ev was unlinked, and freed, by the callback before it.  Its links are NULL,
\* or those of a message that reuses the memory and sits in timer_list; then
\* the walk ends at the head of timer_list, whose func is NULL.  Either way
\* the process faults.
FireFreed ==
  /\ pc = "fire"
  /\ ev # Null
  /\ ev # First(pending_list)
  /\ pc' = "killed"
  /\ UNCHANGED <<now, timerVars, pending_list, watchVars, readable, selectVars,
                 slot, fireVars, spc>>

\* firePending reached &pending_list: next iteration of the loop.
FireDone ==
  /\ pc = "fire"
  /\ ev = Null
  /\ pc' = "copy"
  /\ UNCHANGED <<now, timerVars, pending_list, watchVars, readable, selectVars,
                 slot, fireVars, spc>>

-----------------------------------------------------------------------------
(* Callbacks, in the loop thread.                                          *)

\* processWakeupCallback: empty the pipe and return 0.
ProcessWakeup ==
  /\ pc = "callback"
  /\ ev = WakeFd
  /\ readable' = readable \ {WakeFd}
  /\ ev' = next
  /\ pc' = "fire"
  /\ UNCHANGED <<now, timerVars, pending_list, watchVars, selectVars, slot,
                 next, spc>>

\* A timer callback arms a timer on its own loop; no wakeup byte is written.
CallbackTimerAdd(e, delay) ==
  /\ pc = "callback"
  /\ ev \in Timers
  /\ TimerAdd(e, delay)
  /\ UNCHANGED <<now, pending_list, watchVars, readable, pc, selectVars, slot,
                 fireVars, spc>>

\* A timer callback deletes a timer that is in either list, and frees it.
CallbackTimerDel(e) ==
  /\ pc = "callback"
  /\ ev \in Timers
  /\ TimerDel(e)
  /\ UNCHANGED <<now, timeout, watchVars, readable, pc, selectVars, slot,
                 fireVars, spc>>

\* A descriptor callback watches another descriptor (a listener that accepted,
\* a connection that closed).
CallbackEventAdd(f) ==
  /\ pc = "callback"
  /\ ev \in Files
  /\ f \notin Watched
  /\ EventAdd(f)
  /\ UNCHANGED <<now, timerVars, pending_list, readable, pc, selectVars, slot,
                 fireVars, spc>>

\* A descriptor callback stops watching its own descriptor (end of stream).
CallbackEventDel ==
  /\ pc = "callback"
  /\ ev \in Files
  /\ EventDel(ev)
  /\ UNCHANGED <<now, timerVars, pending_list, readable, pc, selectVars, slot,
                 fireVars, spc>>

\* The callback returns; a negative result ends upil_event_loop and eventLoop
\* kills the process.  A descriptor's data may have been read or not.
CallbackReturn ==
  /\ pc = "callback"
  /\ ev # WakeFd
  /\ readable' \in {readable, readable \ {ev}}
  /\ \/ pc' = "fire" /\ ev' = next
     \/ pc' = "killed" /\ UNCHANGED ev
  /\ UNCHANGED <<now, timerVars, pending_list, watchVars, selectVars, slot,
                 next, spc>>

-----------------------------------------------------------------------------
(* The other threads: uew_timer_add_wakeup and uew_event_add_wakeup.       *)

Started == pc \notin {"init", "killed"}

\* Variants: the loop is not woken up.
SenderTimerAddQuiet(s, e, delay) ==
  /\ Started /\ MutexFree
  /\ spc[s] = "idle"
  /\ TimerAdd(e, delay)
  /\ UNCHANGED <<now, pending_list, watchVars, readable, pc, selectVars, slot,
                 fireVars, spc>>

SenderEventAddQuiet(s, f) ==
  /\ Started /\ MutexFree
  /\ spc[s] = "idle"
  /\ f \notin Watched
  /\ EventAdd(f)
  /\ UNCHANGED <<now, timerVars, pending_list, readable, pc, selectVars, slot,
                 fireVars, spc>>

SenderTimerAdd(s, e, delay) ==
  /\ Started /\ MutexFree
  /\ spc[s] = "idle"
  /\ TimerAdd(e, delay)
  /\ spc' = [spc EXCEPT ![s] = "trigger"]
  /\ UNCHANGED <<now, pending_list, watchVars, readable, pc, selectVars, slot,
                 fireVars>>

SenderEventAdd(s, f) ==
  /\ Started /\ MutexFree
  /\ spc[s] = "idle"
  /\ f \notin Watched
  /\ EventAdd(f)
  /\ spc' = [spc EXCEPT ![s] = "trigger"]
  /\ UNCHANGED <<now, timerVars, pending_list, readable, pc, selectVars, slot,
                 fireVars>>

\* triggerEvLoop: before pipe() the byte goes nowhere.
Trigger(s) ==
  /\ Started
  /\ spc[s] = "trigger"
  /\ spc' = [spc EXCEPT ![s] = "idle"]
  /\ readable' = IF pc \in {"pipe", "exited"} THEN readable
                 ELSE readable \cup {WakeFd}
  /\ UNCHANGED <<now, timerVars, pending_list, watchVars, pc, selectVars, slot,
                 fireVars>>

-----------------------------------------------------------------------------
(* The environment: time passes, data arrives.                             *)

Tick ==
  /\ now < MaxTime
  /\ now' = now + 1
  /\ UNCHANGED <<timerVars, pending_list, watchVars, readable, pc, selectVars,
                 slot, fireVars, spc>>

DataArrives(f) ==
  /\ f \notin readable
  /\ readable' = readable \cup {f}
  /\ UNCHANGED <<now, timerVars, pending_list, watchVars, pc, selectVars, slot,
                 fireVars, spc>>

-----------------------------------------------------------------------------
LoopStep ==
  \/ SignalStarted \/ OpenPipe \/ WatchPipe
  \/ CopyReadFds \/ EnterSelect \/ SelectReturns
  \/ ProcessTimeouts \/ ProcessReadReady \/ BeginFire
  \/ FireEvent \/ FireFreed \/ FireDone \/ ProcessWakeup

CallbackStep ==
  \/ \E e \in Timers, d \in Delays : CallbackTimerAdd(e, d)
  \/ \E e \in Timers : CallbackTimerDel(e)
  \/ \E f \in Files : CallbackEventAdd(f)
  \/ CallbackEventDel

SenderStep ==
  \E s \in Senders :
    \/ \E e \in Timers, d \in Delays : SenderTimerAdd(s, e, d)
    \/ \E f \in Files : SenderEventAdd(s, f)
    \/ Trigger(s)

Next ==
  \/ LoopStep
  \/ SelectFails
  \/ CallbackStep
  \/ CallbackReturn
  \/ SenderStep
  \/ Tick
  \/ \E f \in Files : DataArrives(f)

Spec == Init /\ [][Next]_vars

\* The loop thread and the senders keep running, callbacks return, the clock
\* advances.  select() is not promised to fail; it may be interrupted, but not
\* every time it could have returned.
Fairness ==
  /\ WF_vars(LoopStep)
  /\ SF_vars(SelectReturns)
  /\ WF_vars(CallbackReturn)
  /\ WF_vars(Tick)
  /\ \A s \in Senders : WF_vars(Trigger(s))

FairSpec == Spec /\ Fairness

-----------------------------------------------------------------------------
(* Properties.                                                             *)

\* A byte that will pop the loop out of select() is in the pipe or about to
\* be written.
WakeupPending ==
  \/ WakeFd \in readable \cap rfds
  \/ \E s \in Senders : spc[s] = "trigger"

\* select() times out no later than e is due (or at once).
Covered(e) == wait_until # Null /\ (wait_until <= timeout[e] \/ wait_until <= now)

(* The comment of processWakeupCallback (upil_event_wrapper.c:44-48): a     *)
(* timer added while the loop is on its way into select(), or sleeping in   *)
(* it, is never slept through.  The loop reads timer_list without the mutex *)
(* and a sender writes the pipe only after it has released the mutex.       *)
NoTimerSleptThrough ==
  pc = "select" => \/ \A e \in ToSet(timer_list) : Covered(e)
                   \/ WakeupPending

(* A descriptor added while the loop sleeps on an older copy of readFds, or *)
(* with an older nfds, is not left out: the pipe will bring the loop back.  *)
NoWatchSleptThrough ==
  pc = "select" => Watched \subseteq rfds \/ WakeupPending

(* removeWatch recomputes nfds only when the highest descriptor goes, and   *)
(* upil_event_add only raises it: select() is always told of a range that   *)
(* covers every watched descriptor.                                         *)
NfdsCoversWatched == \A f \in Watched : f < nfds

(* calcNextTimeout and processTimeouts look at the head of timer_list only: *)
(* that is right because the list is sorted, and because everything still   *)
(* in pending_list was due before everything in timer_list.                 *)
TimersSorted ==
  /\ \A i, j \in 1..Len(timer_list) :
       i <= j => timeout[timer_list[i]] <= timeout[timer_list[j]]
  /\ \A i, j \in 1..Len(pending_list) :
       i <= j /\ pending_list[i] \in Timers /\ pending_list[j] \in Timers
         => timeout[pending_list[i]] <= timeout[pending_list[j]]
  /\ \A i \in 1..Len(pending_list) :
       pending_list[i] \in Timers =>
         /\ timeout[pending_list[i]] <= now
         /\ \A j \in 1..Len(timer_list) :
              timeout[pending_list[i]] <= timeout[timer_list[j]]

(* An event is linked at most once: addToList on a linked event would tear  *)
(* the list it is in apart (upil_event.c:112-119).                          *)
LinkedOnce ==
  /\ IsInjective(timer_list)
  /\ IsInjective(pending_list)
  /\ ToSet(timer_list) \cap ToSet(pending_list) = {}
  /\ pc \notin {"ready", "fire", "callback", "killed"} => pending_list = <<>>

\* EventLoop implements the timer service: see TimerService.
Service == INSTANCE TimerService WITH
  None <- Null,
  clock <- now,
  armed <- Linked \cap Timers,
  deadline <- timeout,
  running <- IF pc = "callback" /\ ev \in Timers THEN ev ELSE Null

(* Every timer fires at most once, not before its time, not after it was    *)
(* deleted, and not before one that was due earlier.                        *)
TimerServiceSpec == Service!Spec

(* A timer that is armed leaves the lists (it fires or is deleted), unless  *)
(* the process was killed or the loop thread never got its pipe: no timer   *)
(* is forgotten whatever the loop was doing when it was added.              *)
TimersFire ==
  \A e \in Timers :
    e \in Linked ~> (e \notin Linked \/ pc \in {"killed", "exited"})
=============================================================================
