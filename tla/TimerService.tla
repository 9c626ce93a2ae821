---------------------------- MODULE TimerService ----------------------------
(***************************************************************************)
(* What upil_event.c promises to the threads that arm timers on a loop:    *)
(* a timer that was armed fires at most once, never before its deadline,   *)
(* never after it was cancelled, and no timer overtakes one whose deadline *)
(* is earlier; callbacks run one at a time.  EventLoop implements this     *)
(* specification (its linked lists, its select() and its wakeup pipe are   *)
(* not visible here).                                                      *)
(***************************************************************************)
EXTENDS Integers

CONSTANTS
  Timers,    \* the timer events (struct upil_event used as a timer)
  None       \* no timer

VARIABLES
  clock,     \* getNow()
  armed,     \* the timers that are armed and have not fired
  deadline,  \* the time each timer was last armed for
  running    \* the timer whose callback runs, or None

tsVars == <<clock, armed, deadline, running>>

Init ==
  /\ clock = 0
  /\ armed = {}
  /\ deadline = [e \in Timers |-> 0]
  /\ running = None

\* Time passes.
Advance ==
  /\ clock' = clock + 1
  /\ UNCHANGED <<armed, deadline, running>>

\* Some thread arms e for a time that is not in the past.
Arm(e) ==
  /\ e \notin armed
  /\ armed' = armed \cup {e}
  /\ deadline' = [deadline EXCEPT ![e] = deadline'[e]]
  /\ deadline'[e] >= clock
  /\ UNCHANGED <<clock, running>>

Cancel(e) ==
  /\ e \in armed
  /\ armed' = armed \ {e}
  /\ UNCHANGED <<clock, deadline, running>>

\* e fires: it is due, and nothing that is armed was due before it.
Fire(e) ==
  /\ running = None
  /\ e \in armed
  /\ clock >= deadline[e]
  /\ \A f \in armed : deadline[e] <= deadline[f]
  /\ armed' = armed \ {e}
  /\ running' = e
  /\ UNCHANGED <<clock, deadline>>

\* The callback returns.
Return ==
  /\ running # None
  /\ running' = None
  /\ UNCHANGED <<clock, armed, deadline>>

Next ==
  \/ Advance
  \/ \E e \in Timers : Arm(e) \/ Cancel(e) \/ Fire(e)
  \/ Return

Spec == Init /\ [][Next]_tsVars
=============================================================================
