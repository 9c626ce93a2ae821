--------------------------- MODULE EventLoopProofs ---------------------------
(***************************************************************************)
(* Proofs about EventLoop, for every set of timers, descriptors and        *)
(* senders, every size of the table, every delay and every bound on the    *)
(* clock.                                                                  *)
(***************************************************************************)
EXTENDS EventLoop, ListLemmas

USE FdAssumption, TimeAssumption, TableAssumption, EventAssumption

-----------------------------------------------------------------------------
(* Type correctness.                                                       *)

(* Descriptors are numbers, and none of them is a timer or NULL.            *)
LEMMA FdFacts == Fds \subseteq Nat /\ Null \notin Fds /\ Files \subseteq Fds /\ WakeFd \in Fds
BY DEF Fds

\* What slot i's removal leaves in watch_table.
Rest(i) == {watch_table[j] : j \in Slots \ {i}} \ {Null}

(* removeWatch's loop over the other slots finds their greatest descriptor. *)
LEMMA RestMax ==
  ASSUME TypeOK, NEW i \in Slots
  PROVE  /\ Max(Rest(i) \cup {0}) \in Nat
         /\ \A f \in Rest(i) : f <= Max(Rest(i) \cup {0})
<1> DEFINE T == {watch_table[j] : j \in Slots \ {i}}
<1>1. IsFiniteSet(Slots \ {i})
  <2>1. IsFiniteSet(Slots)
    BY FS_Interval DEF Slots
  <2> QED
    BY <2>1, FS_Subset
<1>2. IsFiniteSet(T)
  <2> DEFINE g == [j \in Slots \ {i} |-> watch_table[j]]
  <2>2. T = {g[j] : j \in Slots \ {i}}
    OBVIOUS
  <2> HIDE DEF T, g
  <2>3. IsFiniteSet({g[j] : j \in Slots \ {i}})
    BY <1>1, FiniteImage
  <2> QED
    BY <2>2, <2>3
<1> HIDE DEF T
<1>3. IsFiniteSet(T \ {Null})
  BY <1>2, FS_Subset
<1>4. IsFiniteSet(Rest(i) \cup {0})
  BY <1>3, FS_AddElement DEF Rest, T
<1>5. Rest(i) \subseteq Nat
  BY FdFacts, ZenonT(30) DEF Rest, TypeOK
<1> DEFINE R == Rest(i) \cup {0}
<1>6. R \in SUBSET Int /\ R # {} /\ R \subseteq Nat
  BY <1>5
<1> HIDE DEF R
<1>7. Max(R) \in R /\ \A y \in R : Max(R) >= y
  BY <1>4, <1>6, MaxIsGreatest DEF R
<1>8. Max(R) \in Nat /\ \A y \in R : y <= Max(R)
  BY <1>6, <1>7
<1> QED
  BY <1>8 DEF R

(* removeWatch: the slot is free, and nfds still covers what is watched.    *)
LEMMA RemoveWatchEffect ==
  ASSUME TypeOK, NEW i \in Slots, RemoveWatch(i)
  PROVE  /\ watch_table' = [watch_table EXCEPT ![i] = Null]
         /\ watch_table' \in [Slots -> Fds \cup {Null}]
         /\ nfds' \in Nat
         /\ Watched' = Rest(i)
         /\ NfdsCoversWatched => NfdsCoversWatched'
<1>1. watch_table' = [watch_table EXCEPT ![i] = Null]
  BY DEF RemoveWatch
<1>2. watch_table' \in [Slots -> Fds \cup {Null}]
  BY <1>1 DEF TypeOK
<1>3. Watched' = Rest(i)
  BY <1>1 DEF TypeOK, Watched, Rest
<1>4. /\ Max(Rest(i) \cup {0}) \in Nat
      /\ \A f \in Rest(i) : f <= Max(Rest(i) \cup {0})
  BY RestMax
<1>5. nfds' = IF watch_table[i] + 1 = nfds THEN Max(Rest(i) \cup {0}) + 1 ELSE nfds
  BY DEF RemoveWatch, Rest
<1> DEFINE top == Max(Rest(i) \cup {0})
<1>6. top \in Nat /\ (\A f \in Rest(i) : f <= top) /\ (nfds' = top + 1 \/ nfds' = nfds)
  BY <1>4, <1>5
<1> HIDE DEF top
<1>7. nfds' \in Nat
  BY <1>6 DEF TypeOK
<1>8. ASSUME NfdsCoversWatched, NEW f \in Rest(i) PROVE f < nfds'
  <2>1. f \in Nat /\ f \in Watched
    BY FdFacts, ZenonT(30) DEF Rest, TypeOK, Watched
  <2> QED
    BY <1>6, <1>8, <2>1 DEF NfdsCoversWatched, TypeOK
<1> QED
  BY <1>1, <1>2, <1>3, <1>7, <1>8 DEF NfdsCoversWatched

(* upil_event_add: f gets a free slot, or there is none.                    *)
LEMMA EventAddEffect ==
  ASSUME TypeOK, NEW f \in Fds, EventAdd(f)
  PROVE  /\ watch_table' \in [Slots -> Fds \cup {Null}]
         /\ nfds' \in Nat
         /\ \/ UNCHANGED watch_table /\ \A i \in Slots : watch_table[i] # Null
            \/ /\ \E k \in Slots : watch_table[k] = Null
                                   /\ watch_table' = [watch_table EXCEPT ![k] = f]
               /\ Watched' = Watched \cup {f}
         /\ NfdsCoversWatched => NfdsCoversWatched'
<1> DEFINE free == {i \in Slots : watch_table[i] = Null}
<1>0. f \in Nat /\ nfds \in Nat /\ f # Null /\ watch_table \in [Slots -> Fds \cup {Null}]
  BY FdFacts DEF TypeOK
<1>1. CASE free = {}
  <2>1. UNCHANGED <<watch_table, nfds>>
    BY <1>1 DEF EventAdd, watchVars
  <2> QED
    BY <1>0, <1>1, <2>1 DEF NfdsCoversWatched, Watched
<1>2. CASE free # {}
  <2>1. free \in SUBSET Nat
    BY DEF Slots
  <2> DEFINE k == Min(free)
  <2>2. k \in free
    <3> HIDE DEF free
    <3> QED
      BY <1>2, <2>1, MinIsLeast
  <2>3. k \in Slots /\ watch_table[k] = Null
    BY <2>2
  <2>4. /\ watch_table' = [watch_table EXCEPT ![k] = f]
        /\ nfds' = IF f >= nfds THEN f + 1 ELSE nfds
    BY <1>2 DEF EventAdd
  <2> HIDE DEF k, free
  <2>5. watch_table' \in [Slots -> Fds \cup {Null}] /\ nfds' \in Nat
    <3>1. watch_table' \in [Slots -> Fds \cup {Null}]
      BY <1>0, <2>4
    <3>2. nfds' \in Nat
      BY <1>0, <2>4
    <3> QED
      BY <3>1, <3>2
  <2>6. Watched' = Watched \cup {f}
    <3>1. \A i \in Slots : watch_table'[i] = IF i = k THEN f ELSE watch_table[i]
      BY <1>0, <2>4
    <3>2. \A x : x \in Watched' <=> x # Null /\ \E i \in Slots : watch_table'[i] = x
      BY DEF Watched
    <3>3. \A x : x \in Watched <=> x # Null /\ \E i \in Slots : watch_table[i] = x
      BY DEF Watched
    <3>4. ASSUME NEW x PROVE x \in Watched' <=> x \in Watched \cup {f}
      BY <1>0, <2>3, <3>1, <3>2, <3>3
    <3> QED
      BY <3>4
  <2>7. Watched \subseteq Nat
    BY <1>0, FdFacts DEF Watched
  <2>8. NfdsCoversWatched => NfdsCoversWatched'
    BY <1>0, <2>4, <2>6, <2>7 DEF NfdsCoversWatched
  <2> QED
    BY <2>3, <2>4, <2>5, <2>6, <2>8
<1> QED
  BY <1>1, <1>2

(* upil_event_del: f's slot, if it has one, is free.                        *)
LEMMA EventDelEffect ==
  ASSUME TypeOK, NEW f \in Fds, EventDel(f)
  PROVE  /\ watch_table' \in [Slots -> Fds \cup {Null}]
         /\ nfds' \in Nat
         /\ \/ UNCHANGED watch_table
            \/ \E i \in Slots : /\ watch_table[i] = f
                                /\ watch_table' = [watch_table EXCEPT ![i] = Null]
                                /\ Watched' = Rest(i)
         /\ NfdsCoversWatched => NfdsCoversWatched'
<1>1. CASE f \notin Watched
  <2>1. UNCHANGED <<watch_table, nfds>>
    BY <1>1 DEF EventDel, watchVars
  <2> QED
    BY <2>1 DEF NfdsCoversWatched, Watched, TypeOK
<1>2. CASE f \in Watched
  <2> DEFINE i == CHOOSE j \in Slots : watch_table[j] = f
  <2>1. \E j \in Slots : watch_table[j] = f
    BY <1>2 DEF Watched
  <2>2. i \in Slots /\ watch_table[i] = f
    BY <2>1
  <2>3. RemoveWatch(i)
    BY <1>2 DEF EventDel
  <2> HIDE DEF i
  <2> QED
    BY <2>2, <2>3, RemoveWatchEffect
<1> QED
  BY <1>1, <1>2
(* upil_timer_add's search through timer_list always stops: before the      *)
(* first timer that is not due earlier than t, or at the end.               *)
LEMMA InsertPosFound ==
  ASSUME TypeOK, NEW t \in Nat
  PROVE  /\ InsertPos(t) \in 1..(Len(timer_list) + 1)
         /\ \A i \in 1..(InsertPos(t) - 1) : timeout[timer_list[i]] < t
         /\ InsertPos(t) <= Len(timer_list) => timeout[timer_list[InsertPos(t)]] >= t
<1> DEFINE Stop(k) == /\ \A i \in 1..(k - 1) : timeout[timer_list[i]] < t
                      /\ k <= Len(timer_list) => timeout[timer_list[k]] >= t
           T == {k \in 1..Len(timer_list) : timeout[timer_list[k]] >= t}
<1>1. Len(timer_list) \in Nat /\ \A i \in 1..Len(timer_list) : timeout[timer_list[i]] \in Nat
  BY DEF TypeOK
<1>2. \E k \in 1..(Len(timer_list) + 1) : Stop(k)
  <2>1. CASE T = {}
    <3>1. \A i \in 1..Len(timer_list) : timeout[timer_list[i]] < t
      BY <1>1, <2>1
    <3>2. Stop(Len(timer_list) + 1)
      BY <1>1, <3>1
    <3> QED
      BY <1>1, <3>2
  <2>2. CASE T # {}
    <3>1. T \in SUBSET Nat
      BY <1>1
    <3>2. PICK k \in T : \A y \in T : k <= y
      <4> HIDE DEF T
      <4> QED
        BY <2>2, <3>1, LeastNat
    <3>3. k \in 1..Len(timer_list) /\ timeout[timer_list[k]] >= t
      BY <3>2
    <3>4. ASSUME NEW i \in 1..(k - 1) PROVE timeout[timer_list[i]] < t
      <4>1. i \in 1..Len(timer_list) /\ i < k
        BY <1>1, <3>3
      <4>2. i \notin T
        BY <1>1, <3>2, <3>3, <4>1
      <4> QED
        BY <1>1, <4>1, <4>2
    <3>5. Stop(k)
      BY <3>3, <3>4
    <3> QED
      BY <1>1, <3>3, <3>5
  <2> QED
    BY <2>1, <2>2
<1>3. InsertPos(t) = CHOOSE k \in 1..(Len(timer_list) + 1) : Stop(k)
  BY DEF InsertPos
<1>4. InsertPos(t) \in 1..(Len(timer_list) + 1) /\ Stop(InsertPos(t))
  <2> HIDE DEF Stop
  <2> QED
    BY <1>2, <1>3
<1> QED
  BY <1>4

(* processTimeouts' walk takes the timers before the first one that is not  *)
(* overdue.                                                                 *)
LEMMA OverdueFound ==
  ASSUME TypeOK
  PROVE  /\ Overdue \in 0..Len(timer_list)
         /\ \A i \in 1..Overdue : now > timeout[timer_list[i]]
         /\ Overdue < Len(timer_list) => now <= timeout[timer_list[Overdue + 1]]
<1> DEFINE Stop(k) == /\ \A i \in 1..k : now > timeout[timer_list[i]]
                      /\ k < Len(timer_list) => now <= timeout[timer_list[k + 1]]
           T == {k \in 1..Len(timer_list) : now <= timeout[timer_list[k]]}
<1>1. /\ Len(timer_list) \in Nat /\ now \in Nat
      /\ \A i \in 1..Len(timer_list) : timeout[timer_list[i]] \in Nat
  BY DEF TypeOK
<1>2. \E k \in 0..Len(timer_list) : Stop(k)
  <2>1. CASE T = {}
    <3>1. \A i \in 1..Len(timer_list) : now > timeout[timer_list[i]]
      BY <1>1, <2>1
    <3>2. Stop(Len(timer_list))
      BY <1>1, <3>1
    <3> QED
      BY <1>1, <3>2
  <2>2. CASE T # {}
    <3>1. T \in SUBSET Nat
      BY <1>1
    <3>2. PICK k \in T : \A y \in T : k <= y
      <4> HIDE DEF T
      <4> QED
        BY <2>2, <3>1, LeastNat
    <3>3. k \in 1..Len(timer_list) /\ now <= timeout[timer_list[k]]
      BY <3>2
    <3>4. ASSUME NEW i \in 1..(k - 1) PROVE now > timeout[timer_list[i]]
      <4>1. i \in 1..Len(timer_list) /\ i < k
        BY <1>1, <3>3
      <4>2. i \notin T
        BY <1>1, <3>2, <3>3, <4>1
      <4> QED
        BY <1>1, <4>1, <4>2
    <3>5. (k - 1) + 1 = k /\ k - 1 \in 0..Len(timer_list)
      BY <1>1, <3>3
    <3>6. Stop(k - 1)
      BY <3>3, <3>4, <3>5
    <3> QED
      BY <3>5, <3>6
  <2> QED
    BY <2>1, <2>2
<1>3. Overdue = CHOOSE k \in 0..Len(timer_list) : Stop(k)
  BY DEF Overdue
<1>4. Overdue \in 0..Len(timer_list) /\ Stop(Overdue)
  <2> HIDE DEF Stop
  <2> QED
    BY <1>2, <1>3
<1> QED
  BY <1>4

(* upil_timer_add keeps the types of what it changes.                       *)
LEMMA TimerAddType ==
  ASSUME TypeOK, NEW e \in Timers, NEW d \in Delays, TimerAdd(e, d)
  PROVE  now + d \in Nat /\ timeout' \in [Timers -> Nat] /\ timer_list' \in Seq(Timers)
<1>1. now + d \in Nat
  BY DEF TypeOK
<1>2. InsertPos(now + d) \in 1..(Len(timer_list) + 1)
  BY <1>1, InsertPosFound
<1>3. InsertAt(timer_list, InsertPos(now + d), e) \in Seq(Timers)
  <2>1. timer_list \in Seq(Timers)
    BY DEF TypeOK
  <2> QED
    BY <1>2, <2>1, InsertAtProperties
<1> QED
  BY <1>1, <1>3 DEF TypeOK, TimerAdd

(* The first event of a list is an event of the list's type, or NULL.       *)
LEMMA FirstType ==
  ASSUME NEW S, NEW s \in Seq(S)
  PROVE  First(s) \in S \cup {Null}
<1>1. s # <<>> => Head(s) \in S
  OBVIOUS
<1> QED
  BY <1>1 DEF First

(* Every step keeps the types of the loop's state.                          *)
LEMMA TypeStep ==
  ASSUME TypeOK, [Next]_vars
  PROVE  TypeOK'
<1> USE DEF timerVars, watchVars, selectVars, fireVars
<1>1. CASE SignalStarted
  BY <1>1 DEF SignalStarted, TypeOK
<1>2. CASE OpenPipe
  BY <1>2 DEF OpenPipe, TypeOK
<1>3. CASE WatchPipe
  <2>1. watch_table' \in [Slots -> Fds \cup {Null}] /\ nfds' \in Nat
    BY <1>3, FdFacts, EventAddEffect DEF WatchPipe
  <2> QED
    BY <1>3, <2>1 DEF WatchPipe, TypeOK
<1>4. CASE CopyReadFds
  <2>1. Watched \subseteq Fds
    BY DEF Watched, TypeOK
  <2> QED
    BY <1>4, <2>1 DEF CopyReadFds, TypeOK
<1>5. CASE EnterSelect
  <2>1. NextTimeout \in Nat \cup {Null}
    BY DEF NextTimeout, TypeOK
  <2> QED
    BY <1>5, <2>1 DEF EnterSelect, TypeOK
<1>6. CASE SelectReturns
  BY <1>6 DEF SelectReturns, TypeOK
<1>7. CASE ProcessTimeouts
  <2>1. timer_list' \in Seq(Timers) /\ pending_list' \in Seq(Timers \cup Fds)
    <3>1. Overdue \in 0..Len(timer_list) /\ timer_list \in Seq(Timers)
      BY OverdueFound DEF TypeOK
    <3>2. 1 \in 1..(Len(timer_list) + 1) /\ Overdue + 1 \in 1..(Len(timer_list) + 1)
          /\ Len(timer_list) \in 0..Len(timer_list)
      BY <3>1
    <3>3. SubSeq(timer_list, 1, Overdue) \in Seq(Timers)
      BY <3>1, <3>2, SubSeqThins
    <3>4. SubSeq(timer_list, Overdue + 1, Len(timer_list)) \in Seq(Timers)
      BY <3>1, <3>2, SubSeqThins
    <3>5. SubSeq(timer_list, 1, Overdue) \in Seq(Timers \cup Fds)
      BY <3>3
    <3> QED
      BY <1>7, <3>4, <3>5 DEF ProcessTimeouts, TypeOK
  <2> QED
    BY <1>7, <2>1 DEF ProcessTimeouts, TypeOK
<1>8. CASE ProcessReadReady
  <2>0. slot \in Slots
    BY <1>8 DEF ProcessReadReady, TypeOK, Slots
  <2>1. slot' \in Nat \ {0} /\ rfds' \subseteq Fds
    <3>1. slot' = slot + 1
      BY <1>8 DEF ProcessReadReady
    <3>2. rfds' \subseteq rfds
      BY <1>8 DEF ProcessReadReady
    <3> QED
      BY <3>1, <3>2 DEF TypeOK
  <2>2. pending_list' \in Seq(Timers \cup Fds)
    <3>1. CASE watch_table[slot] \in rfds
      <4>1. watch_table[slot] \in Timers \cup Fds
        BY <3>1 DEF TypeOK
      <4>2. pending_list' = Append(pending_list, watch_table[slot])
        BY <1>8, <3>1 DEF ProcessReadReady
      <4> QED
        BY <4>1, <4>2 DEF TypeOK
    <3> QED
      BY <1>8, <3>1 DEF ProcessReadReady, TypeOK
  <2>3. watch_table' \in [Slots -> Fds \cup {Null}] /\ nfds' \in Nat
    <3>1. CASE UNCHANGED watchVars
      BY <3>1 DEF TypeOK
    <3>2. CASE RemoveWatch(slot)
      BY <2>0, <3>2, RemoveWatchEffect
    <3> QED
      BY <1>8, <3>1, <3>2 DEF ProcessReadReady
  <2> QED
    BY <1>8, <2>1, <2>2, <2>3 DEF ProcessReadReady, TypeOK
<1>9. CASE BeginFire
  <2>1. First(pending_list) \in Timers \cup Fds \cup {Null}
    BY FirstType DEF TypeOK
  <2> QED
    BY <1>9, <2>1 DEF BeginFire, TypeOK
<1>10. CASE FireEvent
  <2>1. Tail(pending_list) \in Seq(Timers \cup Fds)
    BY <1>10 DEF FireEvent, TypeOK
  <2>2. First(Tail(pending_list)) \in Timers \cup Fds \cup {Null}
    BY <2>1, FirstType
  <2> QED
    BY <1>10, <2>1, <2>2 DEF FireEvent, TypeOK
<1>11. CASE FireFreed
  BY <1>11 DEF FireFreed, TypeOK
<1>12. CASE FireDone
  BY <1>12 DEF FireDone, TypeOK
<1>13. CASE ProcessWakeup
  BY <1>13 DEF ProcessWakeup, TypeOK
<1>14. CASE \E e \in Timers, d \in Delays : CallbackTimerAdd(e, d)
  <2>1. timeout' \in [Timers -> Nat] /\ timer_list' \in Seq(Timers)
    BY <1>14, TimerAddType DEF CallbackTimerAdd
  <2> QED
    BY <1>14, <2>1 DEF CallbackTimerAdd, TypeOK
<1>15. CASE \E e \in Timers : CallbackTimerDel(e)
  <2>1. timer_list' \in Seq(Timers) /\ pending_list' \in Seq(Timers \cup Fds)
    BY <1>15, RemoveFirstThins DEF CallbackTimerDel, TimerDel, TypeOK
  <2> QED
    BY <1>15, <2>1 DEF CallbackTimerDel, TypeOK
<1>16. CASE \E f \in Files : CallbackEventAdd(f)
  <2>1. watch_table' \in [Slots -> Fds \cup {Null}] /\ nfds' \in Nat
    BY <1>16, FdFacts, EventAddEffect DEF CallbackEventAdd
  <2> QED
    BY <1>16, <2>1 DEF CallbackEventAdd, TypeOK
<1>17. CASE CallbackEventDel
  <2>1. watch_table' \in [Slots -> Fds \cup {Null}] /\ nfds' \in Nat
    BY <1>17, FdFacts, EventDelEffect DEF CallbackEventDel
  <2> QED
    BY <1>17, <2>1 DEF CallbackEventDel, TypeOK
<1>18. CASE CallbackReturn
  BY <1>18 DEF CallbackReturn, TypeOK
<1>19. CASE \E s \in Senders, e \in Timers, d \in Delays : SenderTimerAdd(s, e, d)
  <2>1. timeout' \in [Timers -> Nat] /\ timer_list' \in Seq(Timers)
    BY <1>19, TimerAddType DEF SenderTimerAdd
  <2> QED
    BY <1>19, <2>1 DEF SenderTimerAdd, TypeOK
<1>20. CASE \E s \in Senders, f \in Files : SenderEventAdd(s, f)
  <2>1. watch_table' \in [Slots -> Fds \cup {Null}] /\ nfds' \in Nat
    BY <1>20, FdFacts, EventAddEffect DEF SenderEventAdd
  <2> QED
    BY <1>20, <2>1 DEF SenderEventAdd, TypeOK
<1>21. CASE \E s \in Senders : Trigger(s)
  BY <1>21, FdFacts DEF Trigger, TypeOK
<1>22. CASE SelectFails
  BY <1>22 DEF SelectFails, TypeOK
<1>23. CASE Tick
  BY <1>23 DEF Tick, TypeOK
<1>24. CASE \E f \in Files : DataArrives(f)
  BY <1>24, FdFacts DEF DataArrives, TypeOK
<1>25. CASE UNCHANGED vars
  BY <1>25 DEF vars, TypeOK
<1> QED
  BY <1>1, <1>2, <1>3, <1>4, <1>5, <1>6, <1>7, <1>8, <1>9, <1>10, <1>11, <1>12, <1>13,
     <1>14, <1>15, <1>16, <1>17, <1>18, <1>19, <1>20, <1>21, <1>22, <1>23, <1>24, <1>25
  DEF Next, LoopStep, CallbackStep, SenderStep

(* The loop's state has its types: both lists hold events only, the table   *)
(* descriptors or NULL, nfds is a count.                                    *)
THEOREM TypeCorrect == Spec => []TypeOK
<1>1. Init => TypeOK
  BY DEF Init, TypeOK, Slots
<1>2. TypeOK /\ [Next]_vars => TypeOK'
  BY TypeStep
<1> QED
  BY <1>1, <1>2, PTL DEF Spec
-----------------------------------------------------------------------------
(* watch_table and nfds.                                                   *)

\* Where the loop thread has not watched its pipe.
Before == {"init", "pipe", "addwake", "exited"}

\* No descriptor has two slots.
OneSlotEach ==
  \A i, j \in Slots : watch_table[i] = watch_table[j] /\ watch_table[i] # Null => i = j

\* The part of the inductive invariant about the table: the pipe keeps its
\* slot, since only callbacks of other descriptors delete their own event.
Tables ==
  /\ OneSlotEach
  /\ WakeFd \in Watched <=> pc \notin Before
  /\ NfdsCoversWatched

(* While the pipe is not watched there is a slot for it: the descriptors    *)
(* cannot fill the table.                                                   *)
LEMMA TableHasRoom ==
  ASSUME TypeOK, OneSlotEach, WakeFd \notin Watched
  PROVE  \E i \in Slots : watch_table[i] = Null
<1> SUFFICES ASSUME \A i \in Slots : watch_table[i] # Null PROVE FALSE
  OBVIOUS
<1>1. watch_table \in [Slots -> Files]
  <2>1. \A i \in Slots : watch_table[i] \in Files
    BY DEF TypeOK, Watched, Fds
  <2> QED
    BY <2>1 DEF TypeOK
<1>2. IsFiniteSet(Slots) /\ Cardinality(Slots) = MAX_FD_EVENTS
  BY FS_Interval DEF Slots
<1>3. Cardinality(Files) < Cardinality(Slots) /\ IsFiniteSet(Files)
  BY <1>2, RoomAssumption
<1>4. PICK x, y \in Slots : x # y /\ watch_table[x] = watch_table[y]
  BY <1>1, <1>2, <1>3, FS_PigeonHole
<1> QED
  BY <1>4 DEF OneSlotEach

(* upil_event_add of an unwatched descriptor keeps the slots distinct.      *)
LEMMA EventAddSlots ==
  ASSUME TypeOK, OneSlotEach, NEW f \in Fds, f \notin Watched, EventAdd(f)
  PROVE  /\ OneSlotEach'
         /\ Watched \subseteq Watched' /\ Watched' \subseteq Watched \cup {f}
<1>1. CASE UNCHANGED watch_table
  BY <1>1 DEF OneSlotEach, Watched
<1>2. ASSUME NEW k \in Slots, watch_table' = [watch_table EXCEPT ![k] = f],
             Watched' = Watched \cup {f}
      PROVE  OneSlotEach'
  <2>1. \A i \in Slots : watch_table[i] # f
    BY FdFacts DEF Watched
  <2>2. \A i \in Slots : watch_table'[i] = IF i = k THEN f ELSE watch_table[i]
    BY <1>2 DEF TypeOK
  <2> QED
    BY <2>1, <2>2 DEF OneSlotEach
<1> QED
  BY <1>1, <1>2, EventAddEffect

(* Freeing a slot keeps the slots distinct, and what else is watched.       *)
LEMMA FreedSlots ==
  ASSUME TypeOK, OneSlotEach, NEW i \in Slots,
         watch_table' = [watch_table EXCEPT ![i] = Null], Watched' = Rest(i)
  PROVE  /\ OneSlotEach'
         /\ Watched' = Watched \ {watch_table[i]}
<1>1. \A j \in Slots : watch_table'[j] = IF j = i THEN Null ELSE watch_table[j]
  BY DEF TypeOK
<1>2. OneSlotEach'
  BY <1>1 DEF OneSlotEach
<1>3. ASSUME NEW x PROVE x \in Rest(i) <=> x \in Watched \ {watch_table[i]}
  BY DEF Rest, Watched, OneSlotEach
<1> QED
  BY <1>2, <1>3

(* Every step keeps the table in order.                                     *)
LEMMA TablesStep ==
  ASSUME TypeOK, Tables, [Next]_vars
  PROVE  Tables'
<1> USE DEF timerVars, watchVars, selectVars, fireVars
<1>0. ASSUME UNCHANGED watchVars, pc' \in Before <=> pc \in Before
      PROVE  Tables'
  BY <1>0 DEF Tables, OneSlotEach, Watched, NfdsCoversWatched
<1>1. CASE UNCHANGED watchVars /\ (pc' = pc \/ (pc \notin Before /\ pc' \notin Before))
  BY <1>0, <1>1
<1>2. CASE SignalStarted \/ OpenPipe
  BY <1>0, <1>2 DEF SignalStarted, OpenPipe, Before
<1>3. CASE WatchPipe
  <2>1. EventAdd(WakeFd) /\ pc \in Before /\ pc' \notin Before /\ WakeFd \notin Watched
    BY <1>3 DEF WatchPipe, Before, Tables
  <2>2. OneSlotEach'
    BY <2>1, FdFacts, EventAddSlots DEF Tables
  <2>3. WakeFd \in Watched' /\ NfdsCoversWatched'
    BY <2>1, FdFacts, EventAddEffect, TableHasRoom DEF Tables
  <2> QED
    BY <2>1, <2>2, <2>3 DEF Tables
<1>4. ASSUME NEW f \in Files, f \notin Watched, EventAdd(f), UNCHANGED pc
      PROVE  Tables'
  <2>1. f \in Fds /\ f # WakeFd
    BY FdFacts
  <2>2. OneSlotEach' /\ (WakeFd \in Watched' <=> WakeFd \in Watched)
    BY <1>4, <2>1, EventAddSlots DEF Tables
  <2>3. NfdsCoversWatched'
    BY <1>4, <2>1, EventAddEffect DEF Tables
  <2> QED
    BY <1>4, <2>2, <2>3 DEF Tables
<1>5. ASSUME NEW i \in Slots, watch_table[i] # WakeFd, UNCHANGED pc,
             watch_table' = [watch_table EXCEPT ![i] = Null], Watched' = Rest(i),
             NfdsCoversWatched'
      PROVE  Tables'
  <2>1. OneSlotEach' /\ Watched' = Watched \ {watch_table[i]}
    BY <1>5, FreedSlots DEF Tables
  <2> QED
    BY <1>5, <2>1 DEF Tables
<1>6. CASE ProcessReadReady
  <2>1. slot \in Slots /\ UNCHANGED pc
    BY <1>6 DEF ProcessReadReady, TypeOK, Slots
  <2>2. CASE RemoveWatch(slot) /\ watch_table[slot] \notin Persistent
    BY <1>5, <2>1, <2>2, RemoveWatchEffect DEF Tables
  <2> QED
    BY <1>0, <1>6, <2>1, <2>2 DEF ProcessReadReady
<1>7. CASE CallbackEventDel
  <2>1. ev \in Fds /\ ev # WakeFd /\ EventDel(ev) /\ UNCHANGED pc
    BY <1>7, FdFacts DEF CallbackEventDel
  <2>2. NfdsCoversWatched'
    BY <2>1, EventDelEffect DEF Tables
  <2>3. CASE UNCHANGED watch_table
    BY <2>1, <2>2, <2>3 DEF Tables, OneSlotEach, Watched
  <2> QED
    BY <1>5, <2>1, <2>2, <2>3, EventDelEffect
<1>8. CASE LoopStep
  BY <1>1, <1>2, <1>3, <1>6, <1>8
  DEF LoopStep, CopyReadFds, EnterSelect, SelectReturns, ProcessTimeouts, BeginFire,
      FireEvent, FireFreed, FireDone, ProcessWakeup, Before
<1>9. CASE CallbackStep \/ CallbackReturn
  BY <1>1, <1>4, <1>7, <1>9
  DEF CallbackStep, CallbackTimerAdd, CallbackTimerDel, CallbackEventAdd, CallbackReturn, Before
<1>10. CASE SenderStep
  BY <1>1, <1>4, <1>10 DEF SenderStep, SenderTimerAdd, SenderEventAdd, Trigger
<1> QED
  BY <1>1, <1>8, <1>9, <1>10 DEF Next, SelectFails, Tick, DataArrives, vars, Before

(* select() is always told of a range that covers every watched descriptor, *)
(* although removeWatch and upil_event_add adjust nfds in different ways.   *)
THEOREM NfdsCovers == Spec => []NfdsCoversWatched
<1>1. Init => Tables
  BY FdFacts DEF Init, Tables, OneSlotEach, Watched, NfdsCoversWatched, Before
<1>2. TypeOK /\ Tables /\ [Next]_vars => Tables'
  BY TablesStep
<1>3. Tables => NfdsCoversWatched
  BY DEF Tables
<1> QED
  BY <1>1, <1>2, <1>3, TypeCorrect, PTL DEF Spec
-----------------------------------------------------------------------------
(* The two lists.                                                          *)

\* The part of the inductive invariant about the links: processReadReadies
\* meets a descriptor once, and firePending's cursor is NULL only when
\* nothing is left to fire.
Lists ==
  /\ LinkedOnce
  /\ pc = "ready" => ToSet(pending_list) \cap rfds = {}
  /\ pc = "fire" /\ ev = Null => pending_list = <<>>
  /\ pc = "callback" /\ next = Null => pending_list = <<>>

(* No event is NULL, so NULL as the first event means an empty list.        *)
LEMMA FirstNull ==
  ASSUME NEW s \in Seq(Timers \cup Fds), First(s) = Null
  PROVE  s = <<>>
<1>1. s # <<>> => Head(s) \in Timers \cup Fds
  OBVIOUS
<1>2. Null \notin Timers \cup Fds
  BY FdFacts
<1> QED
  BY <1>1, <1>2 DEF First

(* A list's elements are of its type, and the empty list has none.          *)
LEMMA ElementType ==
  ASSUME NEW S, NEW s \in Seq(S)
  PROVE  ToSet(s) \subseteq S /\ (s = <<>> <=> ToSet(s) = {})
<1>1. DOMAIN s = 1..Len(s) /\ Len(s) \in Nat /\ \A i \in 1..Len(s) : s[i] \in S
  OBVIOUS
<1>2. s = <<>> <=> Len(s) = 0
  OBVIOUS
<1>3. s # <<>> => s[1] \in ToSet(s)
  BY <1>1, <1>2 DEF ToSet
<1>4. s = <<>> => ToSet(s) = {}
  BY <1>1, <1>2 DEF ToSet
<1> QED
  BY <1>1, <1>3, <1>4 DEF ToSet

(* upil_timer_add of a timer that is in no list keeps the links.            *)
LEMMA TimerAddLists ==
  ASSUME TypeOK, Lists, NEW e \in Timers, NEW d \in Delays, TimerAdd(e, d),
         UNCHANGED <<pending_list, pc, rfds, ev, next>>
  PROVE  Lists' /\ ToSet(timer_list') = ToSet(timer_list) \cup {e}
<1>1. now + d \in Nat
  BY DEF TypeOK
<1>2. InsertPos(now + d) \in 1..(Len(timer_list) + 1)
  BY <1>1, InsertPosFound
<1>3. timer_list \in Seq(Timers)
  BY DEF TypeOK
<1>4. timer_list' = InsertAt(timer_list, InsertPos(now + d), e)
  BY DEF TimerAdd
<1>5. e \notin ToSet(timer_list) /\ e \notin ToSet(pending_list)
  BY DEF TimerAdd, Linked
<1>6. ToSet(timer_list') = ToSet(timer_list) \cup {e}
  BY <1>2, <1>3, <1>4, InsertAtElements
<1>7. IsInjective(timer_list')
  BY <1>2, <1>3, <1>4, <1>5, InsertAtElements DEF Lists, LinkedOnce
<1> QED
  BY <1>5, <1>6, <1>7 DEF Lists, LinkedOnce

(* Every step keeps the links.                                              *)
LEMMA ListsStep ==
  ASSUME TypeOK, Lists, [Next]_vars
  PROVE  Lists'
<1> USE DEF timerVars, watchVars, selectVars, fireVars
<1>1. CASE UNCHANGED <<timer_list, pending_list, pc, rfds, ev, next>>
  BY <1>1 DEF Lists, LinkedOnce
<1>2. CASE \/ SignalStarted \/ OpenPipe \/ WatchPipe \/ CopyReadFds \/ EnterSelect
           \/ SelectReturns \/ SelectFails
  <2>1. UNCHANGED <<timer_list, pending_list>> /\ pc \notin {"ready", "fire", "callback", "killed"}
        /\ pc' \notin {"ready", "fire", "callback"}
    BY <1>2 DEF SignalStarted, OpenPipe, WatchPipe, CopyReadFds, EnterSelect, SelectReturns,
                SelectFails
  <2> QED
    BY <2>1 DEF Lists, LinkedOnce
<1>3. CASE ProcessTimeouts
  <2> DEFINE k == Overdue
             n == Len(timer_list)
  <2>1. k \in 0..n /\ n \in Nat /\ timer_list \in Seq(Timers)
    BY OverdueFound DEF TypeOK
  <2>2. 1 \in 1..(n + 1) /\ k + 1 \in 1..(n + 1) /\ n \in 0..n
    BY <2>1
  <2> DEFINE a == SubSeq(timer_list, 1, k)
             b == SubSeq(timer_list, k + 1, n)
  <2>3. a \in Seq(Timers) /\ b \in Seq(Timers)
    BY <2>1, <2>2, SubSeqThins
  <2>4. pending_list = <<>>
    BY <1>3 DEF Lists, LinkedOnce, ProcessTimeouts
  <2>5. pending_list' = a /\ timer_list' = b
    BY <1>3, <2>3, <2>4 DEF ProcessTimeouts
  <2>6. IsInjective(timer_list)
    BY DEF Lists, LinkedOnce
  <2>7. IsInjective(a) /\ IsInjective(b)
    <3>1. Thins(a, timer_list) /\ Thins(b, timer_list)
      BY <2>1, <2>2, SubSeqThins
    <3> HIDE DEF a, b
    <3> QED
      BY <2>1, <2>3, <2>6, <3>1, ThinsKeeps
  <2>8. ToSet(a) \cap ToSet(b) = {}
    BY <2>1, <2>6, CutElements
  <2>9. ToSet(a) \cap rfds = {}
    <3>1. ToSet(a) \subseteq Timers
      BY <2>3, ElementType
    <3> QED
      BY <3>1 DEF TypeOK
  <2>10. pc' = "ready" /\ rfds' = rfds
    BY <1>3 DEF ProcessTimeouts
  <2> HIDE DEF a, b
  <2> QED
    BY <2>5, <2>7, <2>8, <2>9, <2>10 DEF Lists, LinkedOnce
<1>4. CASE ProcessReadReady
  <2>1. pc = "ready" /\ pc' = "ready" /\ UNCHANGED timer_list
    BY <1>4 DEF ProcessReadReady
  <2>2. CASE UNCHANGED <<pending_list, rfds>>
    BY <2>1, <2>2 DEF Lists, LinkedOnce
  <2>3. ASSUME NEW f \in rfds, pending_list' = Append(pending_list, f), rfds' = rfds \ {f}
        PROVE  Lists'
    <3>1. f \in Timers \cup Fds /\ pending_list \in Seq(Timers \cup Fds) /\ f \notin Timers
      BY <2>3 DEF TypeOK
    <3>2. f \notin ToSet(pending_list) /\ f \notin ToSet(timer_list)
      <4>1. ToSet(timer_list) \subseteq Timers
        BY ElementType DEF TypeOK
      <4> QED
        BY <2>1, <3>1, <4>1 DEF Lists
    <3>3. /\ ToSet(pending_list') = ToSet(pending_list) \cup {f}
          /\ IsInjective(pending_list')
      BY <2>3, <3>1, <3>2, AppendElements DEF Lists, LinkedOnce
    <3> QED
      BY <2>1, <2>3, <3>2, <3>3 DEF Lists, LinkedOnce
  <2> QED
    BY <1>4, <2>2, <2>3 DEF ProcessReadReady
<1>5. CASE BeginFire
  <2>1. ev' = Null => pending_list = <<>>
    BY <1>5, FirstNull DEF BeginFire, TypeOK
  <2> QED
    BY <1>5, <2>1 DEF BeginFire, Lists, LinkedOnce
<1>6. CASE FireEvent
  <2>1. pending_list \in Seq(Timers \cup Fds) /\ pending_list # <<>>
    BY <1>6 DEF FireEvent, TypeOK
  <2> DEFINE r == Tail(pending_list)
  <2>2. r \in Seq(Timers \cup Fds) /\ Thins(r, pending_list)
    BY <2>1, TailThins
  <2>3. pending_list' = r /\ next' = First(r) /\ pc' = "callback" /\ UNCHANGED timer_list
    BY <1>6 DEF FireEvent
  <2> HIDE DEF r
  <2>4. ToSet(r) \subseteq ToSet(pending_list) /\ IsInjective(r)
    BY <2>1, <2>2, ThinsKeeps DEF Lists, LinkedOnce
  <2>5. next' = Null => r = <<>>
    BY <2>2, <2>3, FirstNull
  <2> QED
    BY <2>3, <2>4, <2>5 DEF Lists, LinkedOnce
<1>7. CASE FireFreed \/ FireDone \/ ProcessWakeup \/ CallbackReturn
  BY <1>7 DEF FireFreed, FireDone, ProcessWakeup, CallbackReturn, Lists, LinkedOnce
<1>8. CASE \E e \in Timers, d \in Delays : CallbackTimerAdd(e, d)
  BY <1>8, TimerAddLists DEF CallbackTimerAdd
<1>9. CASE \E s \in Senders, e \in Timers, d \in Delays : SenderTimerAdd(s, e, d)
  BY <1>9, TimerAddLists DEF SenderTimerAdd
<1>10. ASSUME NEW e \in Timers, CallbackTimerDel(e) PROVE Lists'
  <2> DEFINE a == RemoveFirst(timer_list, e)
             b == RemoveFirst(pending_list, e)
  <2>1. timer_list \in Seq(Timers) /\ pending_list \in Seq(Timers \cup Fds)
    BY DEF TypeOK
  <2>2. /\ a \in Seq(Timers) /\ Thins(a, timer_list)
        /\ b \in Seq(Timers \cup Fds) /\ Thins(b, pending_list)
    BY <2>1, RemoveFirstThins
  <2>3. timer_list' = a /\ pending_list' = b /\ UNCHANGED <<pc, rfds, ev, next>> /\ pc = "callback"
    BY <1>10 DEF CallbackTimerDel, TimerDel
  <2> HIDE DEF a, b
  <2>4. /\ ToSet(a) \subseteq ToSet(timer_list) /\ ToSet(b) \subseteq ToSet(pending_list)
        /\ IsInjective(a) /\ IsInjective(b)
    BY <2>1, <2>2, ThinsKeeps DEF Lists, LinkedOnce
  <2>5. pending_list = <<>> => b = <<>>
    <3>1. pending_list = <<>> <=> ToSet(pending_list) = {}
      BY <2>1, ElementType
    <3>2. b = <<>> <=> ToSet(b) = {}
      BY <2>2, ElementType
    <3> QED
      BY <2>4, <3>1, <3>2
  <2> QED
    BY <2>3, <2>4, <2>5 DEF Lists, LinkedOnce
<1>11. CASE LoopStep
  BY <1>2, <1>3, <1>4, <1>5, <1>6, <1>7, <1>11 DEF LoopStep
<1>12. CASE CallbackStep
  BY <1>1, <1>8, <1>10, <1>12 DEF CallbackStep, CallbackEventAdd, CallbackEventDel
<1>13. CASE SenderStep
  BY <1>1, <1>9, <1>13 DEF SenderStep, SenderEventAdd, Trigger
<1> QED
  BY <1>1, <1>2, <1>7, <1>11, <1>12, <1>13 DEF Next, Tick, DataArrives, vars

(* The initial lists are empty.                                             *)
LEMMA ListsInit == Init => Lists
BY DEF Init, Lists, LinkedOnce, IsInjective, ToSet

(* An event is never linked twice, whatever senders and callbacks do while  *)
(* events are moved from one list to the other and fired.                   *)
THEOREM LinkedAtMostOnce == Spec => []LinkedOnce
<1>1. TypeOK /\ Lists /\ [Next]_vars => Lists'
  BY ListsStep
<1>2. Lists => LinkedOnce
  BY DEF Lists
<1> QED
  BY <1>1, <1>2, ListsInit, TypeCorrect, PTL DEF Spec
-----------------------------------------------------------------------------
(* The order of the timers.                                                *)

(* Taking events out of the lists, and time passing, keeps them sorted.     *)
LEMMA ThinsSorted ==
  ASSUME TypeOK, TypeOK', TimersSorted, UNCHANGED timeout, now' >= now,
         Thins(timer_list', timer_list), Thins(pending_list', pending_list)
  PROVE  TimersSorted'
<1>1. PICK h \in [1..Len(timer_list') -> 1..Len(timer_list)] :
        /\ \A i, j \in 1..Len(timer_list') : i < j => h[i] < h[j]
        /\ \A i \in 1..Len(timer_list') : timer_list'[i] = timer_list[h[i]]
  BY DEF Thins
<1>2. PICK g \in [1..Len(pending_list') -> 1..Len(pending_list)] :
        /\ \A i, j \in 1..Len(pending_list') : i < j => g[i] < g[j]
        /\ \A i \in 1..Len(pending_list') : pending_list'[i] = pending_list[g[i]]
  BY DEF Thins
<1>3. /\ Len(timer_list') \in Nat /\ Len(timer_list) \in Nat
      /\ Len(pending_list') \in Nat /\ Len(pending_list) \in Nat
  BY DEF TypeOK
<1>4. /\ \A i, j \in 1..Len(timer_list') : i <= j => h[i] <= h[j]
      /\ \A i, j \in 1..Len(pending_list') : i <= j => g[i] <= g[j]
  <2>1. ASSUME NEW i \in 1..Len(timer_list'), NEW j \in 1..Len(timer_list'), i <= j
        PROVE  h[i] <= h[j]
    <3>1. i = j \/ i < j
      BY <1>3, <2>1
    <3>2. h[i] \in Nat /\ h[j] \in Nat
      BY <1>3
    <3> QED
      BY <1>1, <3>1, <3>2
  <2>2. ASSUME NEW i \in 1..Len(pending_list'), NEW j \in 1..Len(pending_list'), i <= j
        PROVE  g[i] <= g[j]
    <3>1. i = j \/ i < j
      BY <1>3, <2>2
    <3>2. g[i] \in 1..Len(pending_list) /\ g[j] \in 1..Len(pending_list)
      OBVIOUS
    <3> QED
      BY <1>2, <3>1, <3>2
  <2> QED
    BY <2>1, <2>2
<1>5. ASSUME NEW i \in 1..Len(timer_list'), NEW j \in 1..Len(timer_list'), i <= j
      PROVE  timeout'[timer_list'[i]] <= timeout'[timer_list'[j]]
  <2>1. h[i] \in 1..Len(timer_list) /\ h[j] \in 1..Len(timer_list) /\ h[i] <= h[j]
    BY <1>4, <1>5
  <2>2. timeout[timer_list[h[i]]] <= timeout[timer_list[h[j]]]
    BY <2>1 DEF TimersSorted
  <2> QED
    BY <1>1, <2>2
<1>6. ASSUME NEW i \in 1..Len(pending_list'), NEW j \in 1..Len(pending_list'), i <= j,
             pending_list'[i] \in Timers, pending_list'[j] \in Timers
      PROVE  timeout'[pending_list'[i]] <= timeout'[pending_list'[j]]
  BY <1>2, <1>4, <1>6, SMTT(30) DEF TimersSorted
<1>7. ASSUME NEW i \in 1..Len(pending_list'), pending_list'[i] \in Timers
      PROVE  /\ timeout'[pending_list'[i]] <= now'
             /\ \A j \in 1..Len(timer_list') :
                  timeout'[pending_list'[i]] <= timeout'[timer_list'[j]]
  <2>1. g[i] \in 1..Len(pending_list) /\ pending_list[g[i]] = pending_list'[i]
    BY <1>2
  <2>2. timeout[pending_list[g[i]]] <= now /\ timeout[pending_list[g[i]]] \in Nat
    BY <1>7, <2>1 DEF TimersSorted, TypeOK
  <2>3. timeout[pending_list[g[i]]] <= now'
    BY <2>2 DEF TypeOK
  <2>4. \A j \in 1..Len(timer_list') : timeout[pending_list[g[i]]] <= timeout[timer_list'[j]]
    BY <1>1, <1>7, <2>1 DEF TimersSorted
  <2> QED
    BY <2>1, <2>3, <2>4
<1> QED
  BY <1>5, <1>6, <1>7 DEF TimersSorted

(* A list is what is left of it when nothing is taken out.                  *)
LEMMA ThinsItself ==
  ASSUME NEW S, NEW s \in Seq(S)
  PROVE  Thins(s, s)
<1> DEFINE h == [i \in 1..Len(s) |-> i]
<1>1. /\ h \in [1..Len(s) -> 1..Len(s)]
      /\ \A i, j \in 1..Len(s) : i < j => h[i] < h[j]
      /\ \A i \in 1..Len(s) : s[i] = s[h[i]]
  OBVIOUS
<1> HIDE DEF h
<1> QED
  BY <1>1 DEF Thins

(* upil_timer_add finds the place that keeps timer_list sorted, and a timer *)
(* added now is not due before one that has expired.                        *)
LEMMA TimerAddSorted ==
  ASSUME TypeOK, TimersSorted, NEW e \in Timers, NEW d \in Delays, TimerAdd(e, d),
         UNCHANGED <<now, pending_list>>
  PROVE  TimersSorted'
<1> DEFINE k == InsertPos(now + d)
           n == Len(timer_list)
           L == timer_list'
           T(i) == timeout[timer_list[i]]
<1>1. now + d \in Nat /\ now \in Nat /\ n \in Nat /\ timer_list \in Seq(Timers) /\ d \in Nat
  BY DEF TypeOK
<1>2. /\ k \in 1..(n + 1)
      /\ \A i \in 1..(k - 1) : T(i) < now + d
      /\ k <= n => T(k) >= now + d
  BY <1>1, InsertPosFound
<1>3. \A i \in 1..n : timer_list[i] \in Timers /\ timer_list[i] # e /\ T(i) \in Nat
  <2>1. \A i \in 1..n : timer_list[i] \in ToSet(timer_list)
    BY <1>1 DEF ToSet
  <2> QED
    BY <2>1 DEF TimerAdd, Linked, TypeOK
<1>4. \A i \in 1..Len(pending_list) : pending_list[i] # e
  <2>1. \A i \in 1..Len(pending_list) : pending_list[i] \in ToSet(pending_list)
    BY DEF ToSet, TypeOK
  <2> QED
    BY <2>1 DEF TimerAdd, Linked
<1>5. /\ timeout'[e] = now + d
      /\ \A x \in Timers : x # e => timeout'[x] = timeout[x]
  BY DEF TimerAdd, TypeOK
<1>6. /\ Len(L) = n + 1
      /\ \A i \in 1..(n + 1) :
           L[i] = IF i < k THEN timer_list[i] ELSE IF i = k THEN e ELSE timer_list[i - 1]
  <2>1. L = InsertAt(timer_list, k, e)
    BY DEF TimerAdd
  <2> HIDE DEF k
  <2> QED
    BY <1>1, <1>2, <2>1, InsertAtProperties, SMTT(30)
<1> HIDE DEF k, n, L
<1>7. ASSUME NEW i \in 1..(n + 1)
      PROVE  /\ i < k => timeout'[L[i]] = T(i) /\ i \in 1..n /\ i \in 1..(k - 1)
             /\ i = k => timeout'[L[i]] = now + d
             /\ i > k => timeout'[L[i]] = T(i - 1) /\ i - 1 \in 1..n /\ i - 1 >= k
  <2>1. i < k => i \in 1..n /\ i \in 1..(k - 1)
    BY <1>1, <1>2
  <2>2. i > k => i - 1 \in 1..n /\ i - 1 >= k /\ ~(i < k) /\ i # k
    BY <1>1, <1>2
  <2>3. i = k => ~(i < k)
    BY <1>1, <1>2
  <2> QED
    BY <1>3, <1>5, <1>6, <2>1, <2>2, <2>3
<1>8. \A i, j \in 1..n : i <= j => T(i) <= T(j)
  BY DEF TimersSorted, n
<1>9. \A i \in 1..n : i >= k => now + d <= T(i)
  <2> SUFFICES ASSUME NEW i \in 1..n, i >= k PROVE now + d <= T(i)
    OBVIOUS
  <2>1. k \in 1..n /\ k <= i
    BY <1>1, <1>2
  <2>2. T(k) <= T(i) /\ T(k) >= now + d /\ T(k) \in Nat /\ T(i) \in Nat
    BY <1>2, <1>3, <1>8, <2>1
  <2> QED
    BY <1>1, <2>2
<1> HIDE DEF T
<1>10. ASSUME NEW i \in 1..(n + 1), NEW j \in 1..(n + 1), i <= j
       PROVE  timeout'[L[i]] <= timeout'[L[j]]
  <2>0. i \in Nat /\ j \in Nat /\ k \in Nat
    BY <1>1, <1>2
  <2>1. CASE j < k
    BY <1>7, <1>8, <1>10, <2>0, <2>1
  <2>2. CASE i < k /\ j = k
    <3>1. T(i) < now + d /\ T(i) \in Nat
      BY <1>2, <1>3, <1>7, <2>2
    <3> QED
      BY <1>1, <1>7, <2>2, <3>1
  <2>3. CASE i < k /\ j > k
    <3>1. T(i) < now + d /\ now + d <= T(j - 1) /\ T(i) \in Nat /\ T(j - 1) \in Nat
      BY <1>2, <1>3, <1>7, <1>9, <2>3
    <3> QED
      BY <1>1, <1>7, <2>3, <3>1
  <2>4. CASE i = k /\ j = k
    BY <1>1, <1>7, <2>4
  <2>5. CASE i = k /\ j > k
    BY <1>7, <1>9, <2>5
  <2>6. CASE i > k /\ j > k
    <3>1. i - 1 <= j - 1
      BY <1>10, <2>0
    <3> QED
      BY <1>7, <1>8, <2>6, <3>1
  <2> QED
    BY <1>10, <2>0, <2>1, <2>2, <2>3, <2>4, <2>5, <2>6
<1>11. ASSUME NEW i \in 1..Len(pending_list), pending_list[i] \in Timers
       PROVE  /\ timeout'[pending_list[i]] = timeout[pending_list[i]]
              /\ timeout[pending_list[i]] \in Nat
              /\ timeout[pending_list[i]] <= now
              /\ \A j \in 1..n : timeout[pending_list[i]] <= T(j)
  <2>1. pending_list[i] # e
    BY <1>4
  <2> QED
    BY <1>5, <1>11, <2>1 DEF TimersSorted, TypeOK, n, T
<1>12. ASSUME NEW i \in 1..Len(pending_list), pending_list[i] \in Timers, NEW j \in 1..(n + 1)
       PROVE  timeout'[pending_list[i]] <= timeout'[L[j]]
  <2>0. j \in Nat /\ k \in Nat
    BY <1>1, <1>2
  <2>1. CASE j < k
    BY <1>7, <1>11, <1>12, <2>1
  <2>2. CASE j = k
    <3>1. timeout[pending_list[i]] <= now + d
      BY <1>1, <1>11, <1>12
    <3> QED
      BY <1>7, <1>11, <1>12, <2>2, <3>1
  <2>3. CASE j > k
    BY <1>7, <1>11, <1>12, <2>3
  <2> QED
    BY <2>0, <2>1, <2>2, <2>3
<1>13. \A i, j \in 1..Len(pending_list) :
         i <= j /\ pending_list[i] \in Timers /\ pending_list[j] \in Timers
           => timeout'[pending_list[i]] <= timeout'[pending_list[j]]
  BY <1>11 DEF TimersSorted
<1> QED
  BY <1>6, <1>10, <1>11, <1>12, <1>13 DEF TimersSorted, L
(* Every step keeps the timers in the order of their timeouts.              *)
LEMMA SortedStep ==
  ASSUME TypeOK, TypeOK', Lists, TimersSorted, [Next]_vars
  PROVE  TimersSorted'
<1> USE DEF timerVars, watchVars, selectVars, fireVars
<1>0. /\ now \in Nat /\ timer_list \in Seq(Timers) /\ pending_list \in Seq(Timers \cup Fds)
      /\ timeout \in [Timers -> Nat]
  BY DEF TypeOK
<1>1. CASE UNCHANGED <<now, timeout, timer_list, pending_list>>
  BY <1>1 DEF TimersSorted
<1>2. CASE Tick
  <2>1. now' >= now /\ UNCHANGED <<timeout, timer_list, pending_list>>
    BY <1>0, <1>2 DEF Tick
  <2>2. Thins(timer_list, timer_list) /\ Thins(pending_list, pending_list)
    BY <1>0, ThinsItself
  <2> QED
    BY <2>1, <2>2, ThinsSorted
<1>3. CASE FireEvent
  <2>1. now' >= now /\ UNCHANGED <<timeout, timer_list>> /\ pending_list' = Tail(pending_list)
        /\ pending_list # <<>>
    BY <1>0, <1>3 DEF FireEvent
  <2>2. Thins(timer_list, timer_list) /\ Thins(Tail(pending_list), pending_list)
    BY <1>0, <2>1, ThinsItself, TailThins
  <2> QED
    BY <2>1, <2>2, ThinsSorted
<1>4. ASSUME NEW e \in Timers, CallbackTimerDel(e) PROVE TimersSorted'
  <2>1. /\ now' >= now /\ UNCHANGED timeout
        /\ timer_list' = RemoveFirst(timer_list, e)
        /\ pending_list' = RemoveFirst(pending_list, e)
    BY <1>0, <1>4 DEF CallbackTimerDel, TimerDel
  <2>2. /\ Thins(RemoveFirst(timer_list, e), timer_list)
        /\ Thins(RemoveFirst(pending_list, e), pending_list)
    BY <1>0, RemoveFirstThins
  <2> QED
    BY <2>1, <2>2, ThinsSorted
<1>5. CASE \E e \in Timers, d \in Delays : CallbackTimerAdd(e, d)
  BY <1>5, TimerAddSorted DEF CallbackTimerAdd
<1>6. CASE \E s \in Senders, e \in Timers, d \in Delays : SenderTimerAdd(s, e, d)
  BY <1>6, TimerAddSorted DEF SenderTimerAdd
<1>7. CASE ProcessTimeouts
  <2> DEFINE k == Overdue
             n == Len(timer_list)
             a == SubSeq(timer_list, 1, k)
             b == SubSeq(timer_list, k + 1, n)
             T(i) == timeout[timer_list[i]]
  <2>1. k \in 0..n /\ n \in Nat /\ \A i \in 1..k : now > T(i)
    BY <1>0, OverdueFound
  <2>2. /\ Len(a) = k /\ \A i \in 1..k : a[i] = timer_list[i]
        /\ Len(b) = n - k /\ \A i \in 1..(n - k) : b[i] = timer_list[k + i]
    <3>1. k \in 0..Len(timer_list)
      BY <2>1
    <3> HIDE DEF k, T
    <3>2. Len(a) = k /\ \A i \in 1..k : a[i] = timer_list[i]
      BY <1>0, <3>1, CutElements
    <3>3. Len(b) = n - k /\ \A i \in 1..(n - k) : b[i] = timer_list[k + i]
      BY <1>0, <3>1, CutElements
    <3> QED
      BY <3>2, <3>3
  <2>3. pending_list = <<>>
    BY <1>7 DEF ProcessTimeouts, Lists, LinkedOnce
  <2>4. a \in Seq(Timers)
    BY <1>0, <2>1, SubSeqThins
  <2>5. pending_list' = a /\ timer_list' = b /\ UNCHANGED <<now, timeout>>
    BY <1>7, <2>3, <2>4 DEF ProcessTimeouts
  <2>6. \A i, j \in 1..n : i <= j => T(i) <= T(j)
    BY DEF TimersSorted
  <2> HIDE DEF k, n, a, b
  <2>7. ASSUME NEW i \in 1..(n - k), NEW j \in 1..(n - k), i <= j
        PROVE  timeout[b[i]] <= timeout[b[j]]
    <3>1. k + i \in 1..n /\ k + j \in 1..n /\ k + i <= k + j
      BY <2>1, <2>7
    <3> QED
      BY <2>2, <2>6, <3>1
  <2>8. ASSUME NEW i \in 1..k, NEW j \in 1..k, i <= j
        PROVE  timeout[a[i]] <= timeout[a[j]]
    <3>1. i \in 1..n /\ j \in 1..n
      BY <2>1
    <3> QED
      BY <2>2, <2>6, <2>8, <3>1
  <2>9. ASSUME NEW i \in 1..k
        PROVE  timeout[a[i]] <= now
    <3>1. now > T(i) /\ T(i) \in Nat
      <4>1. i \in 1..n
        BY <2>1
      <4> QED
        BY <1>0, <2>1, <4>1 DEF n
    <3> QED
      BY <1>0, <2>2, <3>1
  <2>10. ASSUME NEW i \in 1..k, NEW j \in 1..(n - k)
         PROVE  timeout[a[i]] <= timeout[b[j]]
    <3>1. i \in 1..n /\ k + j \in 1..n /\ i <= k + j
      BY <2>1
    <3> QED
      BY <2>2, <2>6, <3>1
  <2> QED
    BY <2>2, <2>5, <2>7, <2>8, <2>9, <2>10 DEF TimersSorted
<1>8. CASE ProcessReadReady
  <2>1. UNCHANGED <<now, timeout, timer_list>>
    BY <1>8 DEF ProcessReadReady
  <2>2. ASSUME NEW f \in rfds, pending_list' = Append(pending_list, f)
        PROVE  TimersSorted'
    <3> DEFINE n == Len(pending_list)
    <3>1. /\ n \in Nat /\ Len(pending_list') = n + 1
          /\ \A i \in 1..n : pending_list'[i] = pending_list[i]
          /\ pending_list'[n + 1] = f
      BY <1>0, <2>2
    <3>2. f \notin Timers
      BY DEF TypeOK
    <3>3. \A i \in 1..(n + 1) : pending_list'[i] \in Timers =>
                                  i \in 1..n /\ pending_list'[i] = pending_list[i]
      BY <3>1, <3>2
    <3> QED
      BY <2>1, <3>1, <3>3 DEF TimersSorted
  <2> QED
    BY <1>1, <1>8, <2>1, <2>2 DEF ProcessReadReady
<1>9. CASE LoopStep
  BY <1>1, <1>3, <1>7, <1>8, <1>9
  DEF LoopStep, SignalStarted, OpenPipe, WatchPipe, CopyReadFds, EnterSelect, SelectReturns,
      BeginFire, FireFreed, FireDone, ProcessWakeup
<1>10. CASE CallbackStep \/ CallbackReturn
  BY <1>1, <1>4, <1>5, <1>10
  DEF CallbackStep, CallbackEventAdd, CallbackEventDel, CallbackReturn
<1>11. CASE SenderStep
  BY <1>1, <1>6, <1>11 DEF SenderStep, SenderEventAdd, Trigger
<1> QED
  BY <1>1, <1>2, <1>9, <1>10, <1>11 DEF Next, SelectFails, DataArrives, vars

(* The lists are sorted by timeout, the expired timers before the others:   *)
(* it is enough that calcNextTimeout and processTimeouts look at the head.  *)
THEOREM SortedByTimeout == Spec => []TimersSorted
<1>1. Init => TimersSorted
  BY DEF Init, TimersSorted
<1>2. TypeOK /\ TypeOK' /\ Lists /\ TimersSorted /\ [Next]_vars => TimersSorted'
  BY SortedStep
<1>3. TypeOK /\ Lists /\ [Next]_vars => Lists'
  BY ListsStep
<1> QED
  BY <1>1, <1>2, <1>3, ListsInit, TypeCorrect, PTL DEF Spec

-----------------------------------------------------------------------------
(* The loop does not sleep through what another thread added.              *)

\* The part of the inductive invariant about select(): the pipe is in the set
\* select() works on, and a descriptor added after the set was copied has a
\* wakeup behind it.
Sleep ==
  /\ pc \in {"calc", "select"} => WakeFd \in rfds
  /\ pc = "calc" => Watched \subseteq rfds \/ WakeupPending
  /\ NoTimerSleptThrough
  /\ NoWatchSleptThrough

(* select()'s timeout, from the head of the list, is right for every timer. *)
LEMMA TimeoutCovers ==
  ASSUME TypeOK, TimersSorted, wait_until' = NextTimeout,
         UNCHANGED <<now, timeout, timer_list>>, NEW e \in ToSet(timer_list)
  PROVE  Covered(e)'
<1>1. PICK i \in 1..Len(timer_list) : timer_list[i] = e
  BY DEF ToSet, TypeOK
<1> DEFINE t == timeout[Head(timer_list)]
<1>2. timer_list # <<>> /\ 1 \in 1..Len(timer_list) /\ Head(timer_list) = timer_list[1] /\ 1 <= i
  BY <1>1 DEF TypeOK
<1>3. t <= timeout[e] /\ t \in Nat /\ timeout[e] \in Nat /\ now \in Nat
  BY <1>1, <1>2 DEF TimersSorted, TypeOK
<1>4. wait_until' = IF t > now THEN t ELSE now
  BY <1>2 DEF NextTimeout
<1> HIDE DEF t
<1>5. wait_until' \in Nat /\ (wait_until' <= timeout[e] \/ wait_until' <= now)
  BY <1>3, <1>4
<1> QED
  BY <1>5 DEF Covered

(* Every step keeps the sleep safe.                                         *)
LEMMA SleepStep ==
  ASSUME TypeOK, Tables, TimersSorted, Sleep, [Next]_vars
  PROVE  Sleep'
<1> USE DEF timerVars, watchVars, selectVars, fireVars
<1>1. CASE pc' \notin {"calc", "select"}
  BY <1>1 DEF Sleep, NoTimerSleptThrough, NoWatchSleptThrough
<1>2. CASE UNCHANGED <<now, timeout, timer_list, watch_table, readable, pc, rfds, wait_until, spc>>
  BY <1>2 DEF Sleep, NoTimerSleptThrough, NoWatchSleptThrough, WakeupPending, Watched, Covered
<1>3. CASE CopyReadFds
  <2>1. WakeFd \in Watched /\ rfds' = Watched /\ Watched' = Watched /\ pc' = "calc"
    BY <1>3 DEF CopyReadFds, Tables, Before, Watched
  <2> QED
    BY <2>1 DEF Sleep, NoTimerSleptThrough, NoWatchSleptThrough
<1>4. CASE EnterSelect
  <2>1. /\ pc = "calc" /\ pc' = "select" /\ rfds' = {f \in rfds : f < nfds}
        /\ Watched' = Watched /\ WakeFd \in Watched /\ WakeFd \in rfds
    BY <1>4 DEF EnterSelect, Tables, Before, Watched, Sleep
  <2>2. WakeFd \in rfds'
    BY <2>1 DEF Tables, NfdsCoversWatched
  <2>3. Watched \subseteq rfds => Watched' \subseteq rfds'
    BY <2>1 DEF Tables, NfdsCoversWatched
  <2>4. WakeupPending => WakeupPending'
    BY <1>4, <2>2 DEF WakeupPending, EnterSelect
  <2>5. \A e \in ToSet(timer_list') : Covered(e)'
    BY <1>4, TimeoutCovers DEF EnterSelect
  <2> QED
    BY <2>1, <2>2, <2>3, <2>4, <2>5 DEF Sleep, NoTimerSleptThrough, NoWatchSleptThrough
<1>5. ASSUME WakeupPending', UNCHANGED <<pc, rfds>>
      PROVE  Sleep'
  BY <1>5 DEF Sleep, NoTimerSleptThrough, NoWatchSleptThrough
<1>6. ASSUME NEW s \in Senders, spc' = [spc EXCEPT ![s] = "trigger"]
      PROVE  WakeupPending'
  BY <1>6 DEF WakeupPending, TypeOK
<1>7. CASE SenderStep
  <2>1. ASSUME NEW s \in Senders, NEW e \in Timers, NEW d \in Delays, SenderTimerAdd(s, e, d)
        PROVE  Sleep'
    BY <1>5, <1>6, <2>1 DEF SenderTimerAdd
  <2>2. ASSUME NEW s \in Senders, NEW f \in Files, SenderEventAdd(s, f)
        PROVE  Sleep'
    BY <1>5, <1>6, <2>2 DEF SenderEventAdd
  <2>3. ASSUME NEW s \in Senders, Trigger(s)
        PROVE  Sleep'
    <3>1. CASE pc \in {"calc", "select"}
      <4>1. WakeFd \in readable' \cap rfds' /\ UNCHANGED <<pc, rfds>>
        BY <2>3, <3>1 DEF Trigger, Sleep
      <4> QED
        BY <1>5, <4>1 DEF WakeupPending
    <3> QED
      BY <1>1, <2>3, <3>1 DEF Trigger
  <2> QED
    BY <1>7, <2>1, <2>2, <2>3 DEF SenderStep
<1>8. CASE Tick
  <2>1. now \in Nat /\ now' = now + 1 /\ wait_until \in Nat \cup {Null}
    BY <1>8 DEF Tick, TypeOK
  <2>2. ASSUME NEW e \in ToSet(timer_list), Covered(e) PROVE Covered(e)'
    <3>1. wait_until # Null /\ wait_until \in Nat /\ UNCHANGED <<wait_until, timeout>>
      BY <1>8, <2>1, <2>2 DEF Covered, Tick
    <3>2. wait_until <= now => wait_until <= now'
      BY <2>1, <3>1
    <3> QED
      BY <2>2, <3>1, <3>2 DEF Covered
  <2>3. UNCHANGED <<pc, rfds, timer_list, Watched, WakeupPending>>
    BY <1>8 DEF Tick, Watched, WakeupPending
  <2> QED
    BY <2>2, <2>3 DEF Sleep, NoTimerSleptThrough, NoWatchSleptThrough
<1>9. CASE \E f \in Files : DataArrives(f)
  <2>1. UNCHANGED <<now, timeout, timer_list, watch_table, pc, rfds, wait_until, spc>>
        /\ readable \subseteq readable'
    BY <1>9 DEF DataArrives
  <2>2. WakeupPending => WakeupPending'
    BY <2>1 DEF WakeupPending
  <2> QED
    BY <2>1, <2>2 DEF Sleep, NoTimerSleptThrough, NoWatchSleptThrough, Watched, Covered
<1>10. CASE LoopStep
  BY <1>1, <1>3, <1>4, <1>10
  DEF LoopStep, SignalStarted, OpenPipe, WatchPipe, SelectReturns, ProcessTimeouts,
      ProcessReadReady, BeginFire, FireEvent, FireFreed, FireDone, ProcessWakeup
<1>11. CASE SelectFails \/ CallbackStep \/ CallbackReturn
  BY <1>1, <1>11
  DEF SelectFails, CallbackStep, CallbackTimerAdd, CallbackTimerDel, CallbackEventAdd,
      CallbackEventDel, CallbackReturn
<1> QED
  BY <1>2, <1>7, <1>8, <1>9, <1>10, <1>11 DEF Next, vars

\* The inductive invariant of the event loop.
LoopInv == TypeOK /\ Tables /\ Lists /\ TimersSorted /\ Sleep

(* All its parts hold of every state of every behaviour.                    *)
THEOREM LoopInvariant == Spec => []LoopInv
<1>1. Init => LoopInv
  BY FdFacts, ListsInit
  DEF Init, LoopInv, TypeOK, Slots, Tables, OneSlotEach, Watched, NfdsCoversWatched, Before,
      TimersSorted, Sleep, NoTimerSleptThrough, NoWatchSleptThrough
<1>2. LoopInv /\ [Next]_vars => LoopInv'
  <2> SUFFICES ASSUME LoopInv, [Next]_vars PROVE LoopInv'
    OBVIOUS
  <2> USE DEF LoopInv
  <2>1. TypeOK'
    BY TypeStep
  <2>2. Tables'
    BY TablesStep
  <2>3. Lists'
    BY ListsStep
  <2>4. TimersSorted'
    BY <2>1, SortedStep
  <2>5. Sleep'
    BY SleepStep
  <2> QED
    BY <2>1, <2>2, <2>3, <2>4, <2>5
<1> QED
  BY <1>1, <1>2, PTL DEF Spec

(* A timer added while the loop is on its way into select(), or sleeping in *)
(* it, is covered by select()'s timeout or has a wakeup behind it.          *)
THEOREM TimersNotSleptThrough == Spec => []NoTimerSleptThrough
<1>1. LoopInv => NoTimerSleptThrough
  BY DEF LoopInv, Sleep
<1> QED
  BY <1>1, LoopInvariant, PTL

(* A descriptor added while the loop sleeps on an older copy of readFds has *)
(* a wakeup behind it.                                                      *)
THEOREM WatchesNotSleptThrough == Spec => []NoWatchSleptThrough
<1>1. LoopInv => NoWatchSleptThrough
  BY DEF LoopInv, Sleep
<1> QED
  BY <1>1, LoopInvariant, PTL
-----------------------------------------------------------------------------
(* EventLoop implements TimerService.                                      *)

\* What the refinement mapping of Service shows of the loop's state.
Armed == Linked \cap Timers
Running == IF pc = "callback" /\ ev \in Timers THEN ev ELSE Null

(* The promised steps, in terms of the mapped state.                        *)
LEMMA ServiceSteps ==
  /\ UNCHANGED <<now, Armed, timeout, Running>> => UNCHANGED Service!tsVars
  /\ now' = now + 1 /\ UNCHANGED <<Armed, timeout, Running>> => Service!Next
  /\ \A e \in Timers :
       /\ /\ e \notin Armed /\ Armed' = Armed \cup {e}
          /\ timeout' = [timeout EXCEPT ![e] = timeout'[e]]
          /\ timeout'[e] >= now
          /\ UNCHANGED <<now, Running>>
          => Service!Next
       /\ /\ e \in Armed /\ Armed' = Armed \ {e}
          /\ UNCHANGED <<now, timeout, Running>>
          => Service!Next
       /\ /\ Running = Null /\ e \in Armed /\ now >= timeout[e]
          /\ \A f \in Armed : timeout[e] <= timeout[f]
          /\ Armed' = Armed \ {e} /\ Running' = e
          /\ UNCHANGED <<now, timeout>>
          => Service!Next
  /\ Running # Null /\ Running' = Null /\ UNCHANGED <<now, Armed, timeout>> => Service!Next
BY DEF Service!tsVars, Service!Next, Service!Advance, Service!Arm, Service!Cancel, Service!Fire,
       Service!Return, Armed, Running

(* upil_timer_add arms the timer, for a time that is not in the past.       *)
LEMMA TimerAddArms ==
  ASSUME TypeOK, Lists, NEW e \in Timers, NEW d \in Delays, TimerAdd(e, d),
         UNCHANGED <<now, pending_list, pc, rfds, ev, next>>
  PROVE  Service!Next
<1>1. Armed' = Armed \cup {e} /\ e \notin Armed
  <2>1. ToSet(timer_list') = ToSet(timer_list) \cup {e}
    BY TimerAddLists
  <2>2. e \notin Linked
    BY DEF TimerAdd
  <2> QED
    BY <2>1, <2>2 DEF Armed, Linked
<1>2. timeout'[e] = now + d /\ now + d >= now
  BY DEF TimerAdd, TypeOK
<1>3. timeout' = [timeout EXCEPT ![e] = timeout'[e]]
  BY <1>2 DEF TimerAdd
<1>4. UNCHANGED Running
  BY DEF Running
<1> QED
  BY <1>1, <1>2, <1>3, <1>4, ServiceSteps

(* firePending fires the timer that is first in pending_list: it is due     *)
(* and nothing that is armed is due before it.                              *)
LEMMA FireEventFires ==
  ASSUME LoopInv, FireEvent, ev \in Timers
  PROVE  Service!Next
<1>1. pending_list \in Seq(Timers \cup Fds) /\ pending_list # <<>> /\ timer_list \in Seq(Timers)
  BY DEF FireEvent, LoopInv, TypeOK
<1>2. /\ ev = Head(pending_list) /\ pending_list' = Tail(pending_list)
      /\ pc = "fire" /\ pc' = "callback" /\ UNCHANGED <<now, timeout, timer_list, ev>>
  BY DEF FireEvent, timerVars
<1>3. ToSet(Tail(pending_list)) = ToSet(pending_list) \ {ev} /\ ev \in ToSet(pending_list)
  BY <1>1, <1>2, TailThins DEF LoopInv, Lists, LinkedOnce
<1>4. ev \notin ToSet(timer_list)
  BY <1>3 DEF LoopInv, Lists, LinkedOnce
<1>5. ev \in Armed /\ Armed' = Armed \ {ev}
  BY <1>2, <1>3, <1>4 DEF Armed, Linked
<1>6. Running = Null /\ Running' = ev
  BY <1>2 DEF Running
<1>7. 1 \in 1..Len(pending_list) /\ pending_list[1] = ev
  BY <1>1, <1>2
<1>8. timeout[ev] <= now /\ timeout[ev] \in Nat /\ now \in Nat
  BY <1>7 DEF LoopInv, TimersSorted, TypeOK
<1>9. ASSUME NEW f \in Armed PROVE timeout[ev] <= timeout[f]
  <2>1. CASE f \in ToSet(timer_list)
    <3>1. PICK j \in 1..Len(timer_list) : timer_list[j] = f
      BY <1>1, <2>1 DEF ToSet
    <3> QED
      BY <1>7, <3>1 DEF LoopInv, TimersSorted
  <2>2. CASE f \in ToSet(pending_list)
    <3>1. PICK j \in 1..Len(pending_list) : pending_list[j] = f
      BY <1>1, <2>2 DEF ToSet
    <3>2. 1 <= j /\ f \in Timers
      BY <1>1, <3>1 DEF Armed
    <3> QED
      BY <1>7, <3>1, <3>2 DEF LoopInv, TimersSorted
  <2> QED
    BY <2>1, <2>2 DEF Armed, Linked
<1>10. now >= timeout[ev]
  BY <1>8
<1> QED
  BY <1>2, <1>5, <1>6, <1>9, <1>10, ServiceSteps

(* Every step of the loop, its callbacks and the senders is a step of the   *)
(* service, or changes nothing the service shows.                           *)
LEMMA ServiceStep ==
  ASSUME LoopInv, [Next]_vars
  PROVE  [Service!Next]_Service!tsVars
<1> USE DEF timerVars, watchVars, selectVars, fireVars
<1>0. /\ TypeOK /\ Lists /\ timer_list \in Seq(Timers)
      /\ pending_list \in Seq(Timers \cup Fds)
  BY DEF LoopInv, TypeOK
<1>1. ASSUME UNCHANGED <<now, timeout, Armed, Running>> PROVE UNCHANGED Service!tsVars
  BY <1>1, ServiceSteps
<1>2. ASSUME UNCHANGED <<now, timeout, timer_list, pending_list>>,
             UNCHANGED <<pc, ev>> \/ (Running = Null /\ Running' = Null)
      PROVE  UNCHANGED Service!tsVars
  BY <1>1, <1>2 DEF Armed, Linked, Running
<1>3. pc # "callback" => Running = Null
  BY DEF Running
<1>4. pc' # "callback" => Running' = Null
  BY DEF Running
<1>5. CASE \/ SignalStarted \/ OpenPipe \/ WatchPipe \/ CopyReadFds \/ EnterSelect
           \/ SelectReturns \/ SelectFails \/ BeginFire \/ FireFreed \/ FireDone
  <2>1. UNCHANGED <<now, timeout, timer_list, pending_list>> /\ pc # "callback" /\ pc' # "callback"
    BY <1>5 DEF SignalStarted, OpenPipe, WatchPipe, CopyReadFds, EnterSelect, SelectReturns,
                SelectFails, BeginFire, FireFreed, FireDone
  <2> QED
    BY <1>2, <1>3, <1>4, <2>1
<1>6. CASE ProcessTimeouts
  <2> DEFINE k == Overdue
             a == SubSeq(timer_list, 1, k)
             b == SubSeq(timer_list, k + 1, Len(timer_list))
  <2>1. k \in 0..Len(timer_list)
    BY <1>0, OverdueFound
  <2>2. ToSet(a) \cup ToSet(b) = ToSet(timer_list)
    <3> HIDE DEF k
    <3> QED
      BY <1>0, <2>1, CutElements
  <2>3. a \in Seq(Timers)
    BY <1>0, <2>1, SubSeqThins
  <2>4. pending_list = <<>>
    BY <1>0, <1>6 DEF ProcessTimeouts, Lists, LinkedOnce
  <2>5. pending_list' = a /\ timer_list' = b /\ UNCHANGED <<now, timeout>>
    BY <1>6, <2>3, <2>4 DEF ProcessTimeouts
  <2>6. ToSet(pending_list) = {}
    BY <1>0, <2>4, ElementType
  <2> HIDE DEF a, b
  <2>7. Armed' = Armed
    BY <2>2, <2>5, <2>6 DEF Armed, Linked
  <2> QED
    BY <1>1, <1>3, <1>4, <1>6, <2>5, <2>7 DEF ProcessTimeouts
<1>7. CASE ProcessReadReady
  <2>1. UNCHANGED <<now, timeout, timer_list>> /\ pc # "callback" /\ pc' # "callback"
    BY <1>7 DEF ProcessReadReady
  <2>2. Armed' = Armed
    <3>1. CASE UNCHANGED pending_list
      BY <2>1, <3>1 DEF Armed, Linked
    <3>2. ASSUME NEW f \in rfds, pending_list' = Append(pending_list, f) PROVE Armed' = Armed
      <4>1. f \in Timers \cup Fds /\ f \notin Timers
        BY <1>0 DEF TypeOK
      <4>2. ToSet(pending_list') = ToSet(pending_list) \cup {f}
        BY <1>0, <3>2, <4>1, AppendElements
      <4> QED
        BY <2>1, <4>1, <4>2 DEF Armed, Linked
    <3> QED
      BY <1>7, <3>1, <3>2 DEF ProcessReadReady
  <2> QED
    BY <1>1, <1>3, <1>4, <2>1, <2>2
<1>8. CASE FireEvent
  <2>1. CASE ev \in Timers
    BY <1>8, <2>1, FireEventFires
  <2>2. CASE ev \notin Timers
    <3>1. ToSet(Tail(pending_list)) = ToSet(pending_list) \ {ev}
      BY <1>0, <1>8, TailThins DEF FireEvent, Lists, LinkedOnce
    <3>2. /\ pending_list' = Tail(pending_list) /\ UNCHANGED <<now, timeout, timer_list, ev>>
          /\ pc # "callback"
      BY <1>8 DEF FireEvent
    <3>3. Armed' = Armed
      BY <2>2, <3>1, <3>2 DEF Armed, Linked
    <3>4. Running' = Null /\ Running = Null
      BY <2>2, <3>2 DEF Running
    <3> QED
      BY <1>1, <3>2, <3>3, <3>4
  <2> QED
    BY <2>1, <2>2
<1>9. CASE ProcessWakeup \/ CallbackReturn
  <2>1. /\ UNCHANGED <<now, timeout, timer_list, pending_list>> /\ pc = "callback"
        /\ pc' # "callback"
    BY <1>9 DEF ProcessWakeup, CallbackReturn
  <2>2. CASE ev \in Timers
    <3>1. Running = ev /\ Running # Null /\ Running' = Null
      BY <2>1, <2>2 DEF Running
    <3> QED
      BY <2>1, <3>1, ServiceSteps DEF Armed, Linked
  <2>3. CASE ev \notin Timers
    BY <1>2, <1>4, <2>1, <2>3 DEF Running
  <2> QED
    BY <2>2, <2>3
<1>10. ASSUME NEW e \in Timers, NEW d \in Delays, CallbackTimerAdd(e, d) PROVE Service!Next
  BY <1>0, <1>10, TimerAddArms DEF CallbackTimerAdd
<1>11. ASSUME NEW s \in Senders, NEW e \in Timers, NEW d \in Delays, SenderTimerAdd(s, e, d)
       PROVE  Service!Next
  BY <1>0, <1>11, TimerAddArms DEF SenderTimerAdd
<1>12. ASSUME NEW e \in Timers, CallbackTimerDel(e) PROVE Service!Next
  <2>1. /\ timer_list' = RemoveFirst(timer_list, e) /\ pending_list' = RemoveFirst(pending_list, e)
        /\ UNCHANGED <<now, timeout, pc, ev>> /\ e \in Linked
    BY <1>12 DEF CallbackTimerDel, TimerDel
  <2>2. /\ ToSet(timer_list') = ToSet(timer_list) \ {e}
        /\ ToSet(pending_list') = ToSet(pending_list) \ {e}
    BY <1>0, <2>1, RemoveFirstThins DEF Lists, LinkedOnce
  <2>3. e \in Armed /\ Armed' = Armed \ {e} /\ UNCHANGED Running
    BY <2>1, <2>2 DEF Armed, Linked, Running
  <2> QED
    BY <2>1, <2>3, ServiceSteps
<1>13. CASE Tick
  BY <1>13, ServiceSteps DEF Tick, Armed, Linked, Running
<1>14. CASE LoopStep
  BY <1>5, <1>6, <1>7, <1>8, <1>9, <1>14 DEF LoopStep
<1>15. CASE CallbackStep
  BY <1>2, <1>10, <1>12, <1>15 DEF CallbackStep, CallbackEventAdd, CallbackEventDel
<1>16. CASE SenderStep
  BY <1>2, <1>11, <1>16 DEF SenderStep, SenderEventAdd, Trigger
<1> QED
  BY <1>2, <1>5, <1>9, <1>13, <1>14, <1>15, <1>16 DEF Next, DataArrives, vars

(* EventLoop implements TimerService: a timer fires at most once, not       *)
(* before its time, not after it was deleted, not before one that was due   *)
(* earlier, and callbacks run one at a time.                                *)
THEOREM ImplementsTimerService == Spec => TimerServiceSpec
<1>1. Init => Service!Init
  BY DEF Init, Service!Init, Linked, ToSet
<1>2. LoopInv /\ [Next]_vars => [Service!Next]_Service!tsVars
  BY ServiceStep
<1> QED
  BY <1>1, <1>2, LoopInvariant, PTL DEF Spec, TimerServiceSpec, Service!Spec
=============================================================================
