---------------------------- MODULE UpilSMProofs ----------------------------
(***************************************************************************)
(* Proofs about UpilSM, for every size of the message pool, every delay    *)
(* and every choice of what the other threads post.                        *)
(***************************************************************************)
EXTENDS UpilSM, FiniteSetTheorems, TLAPS

-----------------------------------------------------------------------------
(* The queue operators keep queues queues, and finite.                     *)

(* The image of a finite set under a function is finite.                    *)
LEMMA ImageFinite ==
  ASSUME NEW S, IsFiniteSet(S), NEW f, f = [x \in S |-> f[x]]
  PROVE  IsFiniteSet({f[x] : x \in S})
<1> DEFINE T == {f[x] : x \in S}
<1>1. f \in Surjection(S, T)
  BY DEF Surjection
<1> HIDE DEF T
<1>2. IsFiniteSet(T)
  BY <1>1, FS_Surjection
<1> QED
  BY <1>2 DEF T

FiniteQueues == {q \in Queues : IsFiniteSet(q.msgs)}

(* Renumbering the order keys keeps a finite set of messages one. *)
LEMMA RenumberType ==
  ASSUME NEW S \in SUBSET Messages, IsFiniteSet(S)
  PROVE  Renumber(S) \in SUBSET Messages /\ IsFiniteSet(Renumber(S))
<1> DEFINE Rank(m) == Cardinality({k \in S : k.pos <= m.pos})
<1>1. \A m \in S : Rank(m) \in Nat
  <2> TAKE m \in S
  <2>1. IsFiniteSet({k \in S : k.pos <= m.pos})
    BY FS_Subset
  <2> QED
    BY <2>1, FS_CardinalityType
<1>2. \A m \in S : [m EXCEPT !.pos = Rank(m)] \in Messages
  <2> HIDE DEF Rank
  <2> QED
    BY <1>1 DEF Messages, Payload
<1>3. Renumber(S) = {[m EXCEPT !.pos = Rank(m)] : m \in S}
  BY DEF Renumber
<1> HIDE DEF Rank
<1>4. IsFiniteSet({[m EXCEPT !.pos = Rank(m)] : m \in S})
  <2> DEFINE f == [m \in S |-> [m EXCEPT !.pos = Rank(m)]]
  <2>1. f = [m \in S |-> f[m]]
    OBVIOUS
  <2>2. {[m EXCEPT !.pos = Rank(m)] : m \in S} = {f[m] : m \in S}
    OBVIOUS
  <2> HIDE DEF f
  <2>3. IsFiniteSet({f[m] : m \in S})
    BY <2>1, ImageFinite
  <2> QED
    BY <2>2, <2>3
<1> QED
  BY <1>2, <1>3, <1>4

(* Removing messages by id (remove_message_id) keeps the queue typed and finite. *)
LEMMA PurgeType ==
  ASSUME NEW q \in FiniteQueues, NEW what
  PROVE  Purge(q, what) \in FiniteQueues
<1> DEFINE S == {k \in q.msgs : k.what # what}
<1>1. S \in SUBSET Messages /\ IsFiniteSet(S)
  BY FS_Subset DEF FiniteQueues, Queues
<1>2. Renumber(S) \in SUBSET Messages /\ IsFiniteSet(Renumber(S))
  BY <1>1, RenumberType
<1> HIDE DEF S
<1>3. Purge(q, what) = [q EXCEPT !.msgs = Renumber(S)]
  BY DEF Purge, S
<1> QED
  BY <1>2, <1>3 DEF FiniteQueues, Queues

(* Sending a message (send_message_delay) keeps the queue typed and finite. *)
LEMMA PostType ==
  ASSUME NEW q \in FiniteQueues, NEW what \in MsgIds, NEW data \in Data,
         NEW delay \in Nat, what = "SM_TRANSITION" <=> data \in States
  PROVE  Post(q, what, data, delay) \in FiniteQueues
<1> DEFINE p == Place(q.msgs, delay)
<1> DEFINE m == [what |-> what, data |-> data, left |-> delay, pos |-> p, pend |-> FALSE]
<1>1. q.msgs \in SUBSET Messages /\ IsFiniteSet(q.msgs)
  BY DEF FiniteQueues, Queues
<1>2. p \in Nat
  <2>1. IsFiniteSet({k \in q.msgs : k.pend \/ k.left <= delay})
    BY <1>1, FS_Subset
  <2> QED
    BY <2>1, FS_CardinalityType DEF Place
<1> HIDE DEF p
<1>3. m \in Messages
  BY <1>2 DEF Messages, Payload
<1> HIDE DEF m
<1>4. MakeRoom(q.msgs, p) \in SUBSET Messages
  BY <1>1, <1>2 DEF MakeRoom, Messages, Payload
<1>5. IsFiniteSet(MakeRoom(q.msgs, p))
  <2> DEFINE f == [k \in q.msgs |->
                     IF k.pos < p THEN k ELSE [k EXCEPT !.pos = k.pos + 1]]
  <2>1. f = [k \in q.msgs |-> f[k]]
    OBVIOUS
  <2>2. MakeRoom(q.msgs, p) = {f[k] : k \in q.msgs}
    BY DEF MakeRoom
  <2> HIDE DEF f
  <2>3. IsFiniteSet({f[k] : k \in q.msgs})
    BY <1>1, <2>1, ImageFinite
  <2> QED
    BY <2>2, <2>3
<1>6. IsFiniteSet(MakeRoom(q.msgs, p) \cup {m})
  BY <1>5, FS_AddElement
<1>7. \/ Post(q, what, data, delay) = [q EXCEPT !.msgs = MakeRoom(q.msgs, p) \cup {m}]
      \/ Post(q, what, data, delay) = [q EXCEPT !.lost = TRUE]
  BY DEF Post, p, m
<1>8. [q EXCEPT !.lost = TRUE] \in FiniteQueues
  BY DEF FiniteQueues, Queues
<1> DEFINE S == MakeRoom(q.msgs, p) \cup {m}
<1>9. S \in SUBSET Messages /\ IsFiniteSet(S)
  BY <1>3, <1>4, <1>6
<1> HIDE DEF S
<1>10. [q EXCEPT !.msgs = S] \in FiniteQueues
  BY <1>9 DEF FiniteQueues, Queues
<1> QED
  BY <1>7, <1>8, <1>10 DEF S
-----------------------------------------------------------------------------
(* Type correctness.                                                       *)

SMType == TypeOK /\ queue \in FiniteQueues

(* The messages the state machine sends to itself.                          *)
LEMMA PostTransitionType ==
  ASSUME NEW q \in FiniteQueues, NEW s \in States
  PROVE  PostTransition(q, s) \in FiniteQueues
BY PostType DEF PostTransition, MsgIds, Internal, Data

(* The same for the messages that are not transitions. *)
LEMMA PostPlain ==
  ASSUME NEW q \in FiniteQueues, NEW what \in MsgIds, what # "SM_TRANSITION",
         NEW data \in {"number", "NULL"}, NEW delay \in Nat
  PROVE  Post(q, what, data, delay) \in FiniteQueues
BY PostType DEF Data, States

(* Putting a timer off, which is removing it and sending it again, does too. *)
LEMMA RearmType ==
  ASSUME NEW q \in FiniteQueues
  PROVE  /\ RearmSync(q) \in FiniteQueues
         /\ RearmDialEnd(q) \in FiniteQueues
         /\ RearmRing(q) \in FiniteQueues
<1>1. {"SYNC_TIMEOUT", "DIAL_END_CHECK", "RING_TIMEOUT"} \subseteq MsgIds
  BY DEF MsgIds, Internal
<1>2. {SYNCING_TIMEOUT, DIALINGTIMEOUT, RING_TIMEOUT} \subseteq Nat
  BY DelayAssumption
<1> QED
  BY <1>1, <1>2, PurgeType, PostPlain DEF RearmSync, RearmDialEnd, RearmRing

\* What a handler may do to the variables it works on.
HandlerType ==
  /\ cur' \in States
  /\ queue' \in FiniteQueues
  /\ ring_count' \in Nat
  /\ outgoing' \in {"number", "NULL"}
  /\ audio' \in {"off", "talk", "play", "ending", "record"}
  /\ alive' \in BOOLEAN
  /\ UNCHANGED envVars

(* default_process keeps the types. *)
LEMMA DefaultType ==
  ASSUME SMType, NEW m \in Taken, DefaultProcess(m)
  PROVE  HandlerType
<1>1. Post(queue, "USB_ON", "NULL", USB_KEEP_ALIVE_TIMER) \in FiniteQueues
  BY PostPlain, DelayAssumption DEF SMType, MsgIds, Internal
<1> QED
  BY <1>1 DEF DefaultProcess, HandlerType, SMType, TypeOK, smVars

(* Each state's process function keeps the types. *)
LEMMA ProcessType ==
  ASSUME SMType, NEW m \in Taken, m.what # "SM_TRANSITION",
         \/ OfflineProcess(m) \/ SyncingProcess(m) \/ IdleProcess(m)
         \/ DialingProcess(m) \/ IncomingProcess(m)
         \/ ConversationProcess(m) \/ MemoProcess(m)
  PROVE  HandlerType
<1>1. \A s \in States : PostTransition(queue, s) \in FiniteQueues
  BY PostTransitionType DEF SMType
<1>2. /\ RearmSync(queue) \in FiniteQueues
      /\ RearmDialEnd(queue) \in FiniteQueues
      /\ RearmRing(queue) \in FiniteQueues
  BY RearmType DEF SMType
<1>3. PostTransition(Purge(queue, "SYNC_TIMEOUT"), "IDLE") \in FiniteQueues
  BY PurgeType, PostTransitionType DEF SMType, States
<1>4. Post(queue, "DIAL_END_CHECK", "NULL", DIALINGTIMEOUT) \in FiniteQueues
  BY PostPlain, DelayAssumption DEF SMType, MsgIds, Internal
<1>5. Post(queue, "HANDFREE_OFF", "NULL", 0) \in FiniteQueues
  BY PostPlain DEF SMType, MsgIds, Inputs
<1>6. \A ids : Purges(ids) => alive' \in BOOLEAN
  BY DEF Purges
<1>7. m.data \in {"number", "NULL"}
  BY DEF Taken, Payload, Data
<1>8. \A kind \in {"talk", "play", "record"} : StartAudio(kind) =>
        audio' \in {"off", "talk", "play", "ending", "record"}
  BY DEF StartAudio, SMType, TypeOK
<1>9. {"SYNCING", "IDLE", "DIALING", "INCOMING", "CONVERSATION", "MEMO"} \subseteq States
  BY DEF States
<1>10. queue \in FiniteQueues /\ ring_count \in Nat /\ alive \in BOOLEAN
       /\ cur \in States /\ outgoing \in {"number", "NULL"}
       /\ audio \in {"off", "talk", "play", "ending", "record"}
  BY DEF SMType, TypeOK
<1> USE DEF HandlerType, smVars
<1>11. CASE DefaultProcess(m)
  BY <1>11, DefaultType
<1>12. CASE OfflineProcess(m)
  BY <1>1, <1>9, <1>10, <1>12 DEF OfflineProcess
<1>13. CASE SyncingProcess(m)
  BY <1>1, <1>2, <1>3, <1>6, <1>9, <1>10, <1>11, <1>13 DEF SyncingProcess
<1>14. CASE IdleProcess(m)
  BY <1>1, <1>7, <1>9, <1>10, <1>11, <1>14 DEF IdleProcess
<1>15. CASE DialingProcess(m)
  BY <1>1, <1>2, <1>4, <1>6, <1>9, <1>10, <1>11, <1>15 DEF DialingProcess
<1>16. CASE IncomingProcess(m)
  BY <1>1, <1>2, <1>6, <1>9, <1>10, <1>11, <1>16 DEF IncomingProcess
<1>17. CASE ConversationProcess(m)
  BY <1>1, <1>5, <1>9, <1>10, <1>11, <1>17 DEF ConversationProcess
<1>18. CASE MemoProcess(m)
  BY <1>1, <1>5, <1>8, <1>9, <1>10, <1>11, <1>18 DEF MemoProcess
<1> QED
  BY <1>12, <1>13, <1>14, <1>15, <1>16, <1>17, <1>18

(* A transition, with the enter function of the new state, keeps the types. *)
LEMMA EnterType ==
  ASSUME SMType, NEW m \in Taken, TransitionTo(m)
  PROVE  HandlerType
<1>1. m.data \in States
  BY DEF TransitionTo, Taken, Payload
<1>2. queue \in FiniteQueues /\ ring_count \in Nat /\ alive \in BOOLEAN
      /\ outgoing \in {"number", "NULL"}
      /\ audio \in {"off", "talk", "play", "ending", "record"}
  BY DEF SMType, TypeOK
<1>3. Post(Post(queue, "USB_ON", "NULL", USB_KEEP_ALIVE_TIMER),
           "SYNC_TIMEOUT", "NULL", SYNCING_TIMEOUT) \in FiniteQueues
  <2>1. Post(queue, "USB_ON", "NULL", USB_KEEP_ALIVE_TIMER) \in FiniteQueues
    BY <1>2, PostPlain, DelayAssumption DEF MsgIds, Internal
  <2> QED
    BY <2>1, PostPlain, DelayAssumption DEF MsgIds, Internal
<1>4. Post(queue, "ASK_DTMF_TX", "number", DIAL_DELAY) \in FiniteQueues
  BY <1>2, PostPlain, DelayAssumption DEF MsgIds, Internal
<1>5. Post(Purge(RearmRing(queue), "RECORD_START"),
           "RECORD_START", "NULL", RECORD_START_TIMEOUT) \in FiniteQueues
  <2>1. Purge(RearmRing(queue), "RECORD_START") \in FiniteQueues
    BY <1>2, RearmType, PurgeType
  <2> QED
    BY <2>1, PostPlain, DelayAssumption DEF MsgIds, Internal
<1>6. \A ids : Purges(ids) => alive' \in BOOLEAN
  BY DEF Purges
<1>7. StartAudio("talk") => audio' \in {"off", "talk", "play", "ending", "record"}
  BY <1>2 DEF StartAudio
<1> USE DEF HandlerType
<1>8. CASE SyncingEnter
  BY <1>1, <1>2, <1>3, <1>8 DEF SyncingEnter, TransitionTo
<1>9. CASE IdleEnter
  BY <1>1, <1>2, <1>9 DEF IdleEnter, TransitionTo
<1>10. CASE DialingEnter
  BY <1>1, <1>2, <1>4, <1>7, <1>10 DEF DialingEnter, TransitionTo
<1>11. CASE IncomingEnter
  BY <1>1, <1>2, <1>5, <1>6, <1>11 DEF IncomingEnter, TransitionTo
<1>12. CASE ConversationEnter
  BY <1>1, <1>2, <1>7, <1>12 DEF ConversationEnter, TransitionTo
<1>13. CASE MemoEnter
  BY <1>1, <1>2, <1>13 DEF MemoEnter, TransitionTo
<1>14. CASE UNCHANGED <<queue, ring_count, outgoing, audio, alive>>
  BY <1>1, <1>2, <1>14 DEF TransitionTo
<1> QED
  BY <1>8, <1>9, <1>10, <1>11, <1>12, <1>13, <1>14 DEF TransitionTo

(* Taking a message out of the queue to handle it keeps the types. *)
LEMMA TakeType ==
  ASSUME SMType, NEW m \in queue.msgs, TakeMessage(m)
  PROVE  SMType'
<1> DEFINE S == queue.msgs \ {m}
<1>1. S \in SUBSET Messages /\ IsFiniteSet(S)
  BY FS_Subset DEF SMType, FiniteQueues, Queues
<1>2. Renumber(S) \in SUBSET Messages /\ IsFiniteSet(Renumber(S))
  BY <1>1, RenumberType
<1>3. queue' = [queue EXCEPT !.msgs = Renumber(S)]
  BY DEF TakeMessage, Take
<1> HIDE DEF S
<1>4. queue' \in FiniteQueues
  BY <1>2, <1>3 DEF SMType, FiniteQueues, Queues
<1>5. [what |-> m.what, data |-> m.data] \in Taken
  BY DEF SMType, FiniteQueues, Queues, Messages, Taken, Payload
<1>6. busy' \in SUBSET Taken
  BY <1>5 DEF TakeMessage
<1> QED
  BY <1>4, <1>6 DEF SMType, TypeOK, TakeMessage, smVars, envVars, FiniteQueues

(* Handling the message that was taken keeps the types. *)
LEMMA HandledType ==
  ASSUME SMType, NEW m \in busy, ProcessMessage(m)
  PROVE  SMType'
<1>1. m \in Taken
  BY DEF SMType, TypeOK
<1>2. HandlerType
  <2>1. CASE TransitionTo(m)
    BY <1>1, <2>1, EnterType
  <2>2. CASE ~TransitionTo(m)
    BY <1>1, <2>2, ProcessType DEF ProcessMessage
  <2> QED
    BY <2>1, <2>2
<1>3. busy' = {}
  BY DEF ProcessMessage
<1> QED
  BY <1>2, <1>3 DEF HandlerType, SMType, TypeOK, envVars, FiniteQueues

(* A message that another thread sends leaves the queue typed. *)
LEMMA SendType ==
  ASSUME SMType, NEW what, NEW data \in {"number", "NULL"}, Send(what, data)
  PROVE  queue' \in FiniteQueues
<1>1. what \in MsgIds /\ what # "SM_TRANSITION"
  BY PostsAssumption DEF Send, MsgIds, Inputs, DeviceEvents, AudioEvents
<1> QED
  BY <1>1, PostPlain DEF Send, SMType

\* Messages that only change as f says.
LEMMA ChangeType ==
  ASSUME SMType, NEW f \in [queue.msgs -> Messages],
         queue' = [queue EXCEPT !.msgs = {f[k] : k \in queue.msgs}]
  PROVE  queue' \in FiniteQueues
<1> DEFINE S == {f[k] : k \in queue.msgs}
<1>1. S \in SUBSET Messages
  OBVIOUS
<1>2. IsFiniteSet(S)
  BY ImageFinite DEF SMType, FiniteQueues
<1>3. queue' = [queue EXCEPT !.msgs = S]
  OBVIOUS
<1> HIDE DEF S
<1> QED
  BY <1>1, <1>2, <1>3 DEF SMType, FiniteQueues, Queues

(* Time passing, and moving due messages to the pending list, keep the types. *)
LEMMA ClockType ==
  ASSUME SMType, ProcessTimeouts \/ Tick
  PROVE  SMType'
<1>0. queue.msgs \in SUBSET Messages
  BY DEF SMType, FiniteQueues, Queues
<1>1. CASE ProcessTimeouts
  <2> DEFINE f == [k \in queue.msgs |-> [k EXCEPT !.pend = (k.left = 0)]]
  <2>1. f \in [queue.msgs -> Messages]
    BY <1>0, ZenonT(30) DEF Messages, Payload
  <2>2. queue' = [queue EXCEPT !.msgs = {f[k] : k \in queue.msgs}]
    BY <1>1 DEF ProcessTimeouts
  <2> HIDE DEF f
  <2>3. queue' \in FiniteQueues
    BY <2>1, <2>2, ChangeType
  <2> QED
    BY <1>1, <2>3 DEF ProcessTimeouts, SMType, TypeOK, smVars, envVars, FiniteQueues
<1>2. CASE Tick
  <2> DEFINE f == [k \in queue.msgs |->
                     IF k.left > 0 THEN [k EXCEPT !.left = k.left - 1] ELSE k]
  <2>1. f \in [queue.msgs -> Messages]
    BY <1>0 DEF Messages, Payload
  <2>2. queue' = [queue EXCEPT !.msgs = {f[k] : k \in queue.msgs}]
    BY <1>2 DEF Tick
  <2> HIDE DEF f
  <2>3. queue' \in FiniteQueues
    BY <2>1, <2>2, ChangeType
  <2> QED
    BY <1>2, <2>3 DEF Tick, SMType, TypeOK, smVars, envVars, FiniteQueues
<1> QED
  BY <1>1, <1>2

(* The daemon starts well typed. *)
LEMMA InitType == Init => SMType
<1> SUFFICES ASSUME Init PROVE SMType
  OBVIOUS
<1>1. queue \in FiniteQueues
  BY FS_EmptySet DEF Init, FiniteQueues, Queues
<1> QED
  BY <1>1 DEF Init, SMType, TypeOK, States, FiniteQueues

(* Every step keeps the types. *)
LEMMA NextType == SMType /\ [Next]_vars => SMType'
<1> SUFFICES ASSUME SMType, [Next]_vars PROVE SMType'
  OBVIOUS
<1> USE DEF FiniteQueues
<1>1. CASE SMStep
  BY <1>1, TakeType, HandledType DEF SMStep
<1>2. CASE ProcessTimeouts \/ Tick
  BY <1>2, ClockType
<1>3. CASE Attach
  BY <1>3, SendType DEF Attach, Send, SMType, TypeOK, smVars
<1>4. ASSUME NEW number \in {"number", "NULL"}, Dial(number) PROVE SMType'
  BY <1>4, SendType DEF Dial, Send, SMType, TypeOK, smVars, envVars
<1>5. CASE Hangup
  BY <1>5, SendType DEF Hangup, Send, SMType, TypeOK, smVars, envVars
<1>6. CASE HookOn
  BY <1>6, SendType DEF HookOn, Send, SMType, TypeOK, smVars
<1>7. CASE HookOff
  BY <1>7, SendType DEF HookOff, Send, SMType, TypeOK, smVars
<1>8. ASSUME NEW event \in DeviceEvents, Report(event) PROVE SMType'
  BY <1>8, SendType DEF Report, Send, SMType, TypeOK, smVars, envVars
<1>9. CASE PromptEnds
  BY <1>9, SendType DEF PromptEnds, Send, SMType, TypeOK, smVars, envVars
<1>10. CASE AudioThreadExits
  BY <1>10 DEF AudioThreadExits, SMType, TypeOK, smVars, envVars
<1>11. CASE RecordingEnds
  BY <1>11, SendType DEF RecordingEnds, Send, SMType, TypeOK, smVars, envVars
<1>12. CASE UNCHANGED vars
  BY <1>12 DEF vars, SMType, TypeOK
<1> QED
  BY <1>1, <1>2, <1>3, <1>4, <1>5, <1>6, <1>7, <1>8, <1>9, <1>10, <1>11, <1>12
  DEF Next

(* TypeOK of upil_sm.c's state holds in every state: in particular every    *)
(* queued transition carries a state of my_state_table, and no other        *)
(* message does, whatever the size of the pool and the delays.              *)
THEOREM TypeCorrect == Spec => []TypeOK
<1>1. SMType => TypeOK
  BY DEF SMType
<1> QED
  BY <1>1, InitType, NextType, PTL DEF Spec

-----------------------------------------------------------------------------
(* One keep-alive.  USB_ATTACH, the transition to SYNCING and USB_ON are    *)
(* the three forms of one token that the handlers pass on.                  *)

Token(m) == m.what \in {"USB_ATTACH", "USB_ON"} \/ m.data = "SYNCING"

NoToken(S) == \A k \in S : ~Token(k)

OneToken(S) == \A k, l \in S : Token(k) /\ Token(l) => k = l

Like(k, l) == k.what = l.what /\ k.data = l.data

\* What only moves messages about in the queue: ids and data stay.
Kept(S, T) ==
  /\ \A k \in T : \E l \in S : Like(k, l)
  /\ \A k \in S : \E l \in T : Like(k, l)
  /\ OneToken(S) => OneToken(T)

\* What may come with it: messages that are no token, nor lead to OFFLINE.
Calm(q, r) ==
  /\ q.lost => r.lost
  /\ \A k \in r.msgs : Token(k) \/ k.data = "OFFLINE" => \E l \in q.msgs : Like(k, l)
  /\ \A k \in q.msgs : Token(k) => \E l \in r.msgs : Like(k, l)
  /\ OneToken(q.msgs) => OneToken(r.msgs)

\* Calm, and no transition is added either.
Quiet(q, r) ==
  /\ Calm(q, r)
  /\ \A k \in r.msgs : k.what = "SM_TRANSITION" => \E l \in q.msgs : Like(k, l)

\* The invariant.  S is what is in flight: queued or being handled.
ChainOf(S) ==
  /\ \A k \in S : k.data # "OFFLINE"
  /\ ~attached => cur = "OFFLINE" /\ NoToken(S)
  /\ cur = "OFFLINE" => \A k \in S : /\ k.what # "USB_ON"
                                     /\ k.what = "SM_TRANSITION" => k.data = "SYNCING"
  /\ cur # "OFFLINE" => \A k \in S : Token(k) => k.what = "USB_ON"

Chain ==
  /\ OneToken(queue.msgs)
  /\ NoToken(busy) \/ NoToken(queue.msgs)
  /\ ChainOf(queue.msgs \cup busy)
  /\ cur # "OFFLINE" /\ ~queue.lost => ~NoToken(queue.msgs \cup busy)

(* A function on messages that keeps ids and data keeps the tokens.         *)
LEMMA MapKeeps ==
  ASSUME NEW S, NEW f, f = [k \in S |-> f[k]], \A k \in S : Like(f[k], k)
  PROVE  Kept(S, {f[k] : k \in S})
<1> DEFINE T == {f[k] : k \in S}
<1>1. \A k \in T : \E l \in S : k = f[l]
  OBVIOUS
<1>2. \A k \in S : f[k] \in T
  OBVIOUS
<1> HIDE DEF T
<1>3. OneToken(S) => OneToken(T)
  <2> SUFFICES ASSUME OneToken(S), NEW k \in T, NEW l \in T, Token(k), Token(l)
               PROVE  k = l
    BY DEF OneToken
  <2>1. PICK i \in S : k = f[i]
    BY <1>1
  <2>2. PICK j \in S : l = f[j]
    BY <1>1
  <2>3. Token(i) /\ Token(j)
    BY <2>1, <2>2 DEF Like, Token
  <2> QED
    BY <2>1, <2>2, <2>3 DEF OneToken
<1>4. Kept(S, T)
  BY <1>1, <1>2, <1>3 DEF Kept, Like
<1> QED
  BY <1>4 DEF T

(* Renumbering changes nothing of a message but its place. *)
LEMMA RenumberKeeps ==
  ASSUME NEW S \in SUBSET Messages
  PROVE  Kept(S, Renumber(S))
<1> DEFINE f == [m \in S |-> [m EXCEPT !.pos = Cardinality({k \in S : k.pos <= m.pos})]]
<1>1. \A k \in S : Like(f[k], k)
  BY DEF Like, Messages
<1>2. Renumber(S) = {f[m] : m \in S} /\ f = [m \in S |-> f[m]]
  BY DEF Renumber
<1> HIDE DEF f
<1> QED
  BY <1>1, <1>2, MapKeeps

(* Post refuses, or adds one message to the ones there are.                 *)
LEMMA PostShape ==
  ASSUME NEW q \in Queues, NEW what, NEW data, NEW delay
  PROVE  LET r == Post(q, what, data, delay)
         IN \/ r.msgs = q.msgs /\ r.lost
            \/ /\ r.lost = q.lost
               /\ \E R, m : /\ r.msgs = R \cup {m}
                            /\ Kept(q.msgs, R)
                            /\ m.what = what /\ m.data = data
<1> DEFINE p == Place(q.msgs, delay)
<1> DEFINE m == [what |-> what, data |-> data, left |-> delay, pos |-> p, pend |-> FALSE]
<1>1. q.msgs \in SUBSET Messages
  BY DEF Queues
<1> DEFINE f == [k \in q.msgs |->
                   IF k.pos < p THEN k ELSE [k EXCEPT !.pos = k.pos + 1]]
<1>2. m.what = what /\ m.data = data
  OBVIOUS
<1>3. \A k \in q.msgs : Like(f[k], k)
  <2> HIDE DEF p, m
  <2> QED
    BY <1>1 DEF Like, Messages
<1>4. MakeRoom(q.msgs, p) = {f[k] : k \in q.msgs} /\ f = [k \in q.msgs |-> f[k]]
  BY DEF MakeRoom
<1>5. \/ Post(q, what, data, delay) = [q EXCEPT !.msgs = MakeRoom(q.msgs, p) \cup {m}]
      \/ Post(q, what, data, delay) = [q EXCEPT !.lost = TRUE]
  BY DEF Post
<1> HIDE DEF p, m, f
<1>6. Kept(q.msgs, MakeRoom(q.msgs, p))
  BY <1>3, <1>4, MapKeeps
<1>7. CASE Post(q, what, data, delay) = [q EXCEPT !.lost = TRUE]
  BY <1>7 DEF Queues
<1>8. CASE Post(q, what, data, delay) = [q EXCEPT !.msgs = MakeRoom(q.msgs, p) \cup {m}]
  <2> DEFINE R == MakeRoom(q.msgs, p)
  <2>1. /\ Post(q, what, data, delay).msgs = R \cup {m}
        /\ Post(q, what, data, delay).lost = q.lost
    BY <1>8 DEF Queues
  <2>2. Kept(q.msgs, R)
    BY <1>6
  <2> HIDE DEF R
  <2> QED
    BY <1>2, <2>1, <2>2
<1> QED
  BY <1>5, <1>7, <1>8

(* Sending anything that is not the keep-alive or on its way to become it is calm. *)
LEMMA PostCalm ==
  ASSUME NEW q \in Queues, NEW what, NEW data, NEW delay,
         what \notin {"USB_ATTACH", "USB_ON"}, data \notin {"SYNCING", "OFFLINE"}
  PROVE  /\ Calm(q, Post(q, what, data, delay))
         /\ what # "SM_TRANSITION" => Quiet(q, Post(q, what, data, delay))
<1> DEFINE r == Post(q, what, data, delay)
<1> HIDE DEF r
<1>1. CASE r.msgs = q.msgs /\ r.lost
  BY <1>1 DEF Calm, Quiet, Like, r
<1>2. CASE r.lost = q.lost /\ \E R, m : /\ r.msgs = R \cup {m}
                                        /\ Kept(q.msgs, R)
                                        /\ m.what = what /\ m.data = data
  <2>1. PICK R, m : /\ r.msgs = R \cup {m}
                    /\ Kept(q.msgs, R)
                    /\ m.what = what /\ m.data = data
    BY <1>2
  <2>2. ~Token(m) /\ m.data # "OFFLINE"
    BY <2>1 DEF Token
  <2>3. \A k \in r.msgs : k \in R \/ k = m
    BY <2>1
  <2>4. OneToken(q.msgs) => OneToken(r.msgs)
    BY <2>1, <2>2, <2>3 DEF Kept, OneToken
  <2>5. Calm(q, r)
    BY <1>2, <2>1, <2>2, <2>3, <2>4 DEF Calm, Kept
  <2>6. what # "SM_TRANSITION" => Quiet(q, r)
    BY <2>1, <2>3, <2>5 DEF Quiet, Kept
  <2> QED
    BY <2>5, <2>6 DEF r
<1> QED
  BY <1>1, <1>2, PostShape DEF r

(* Sending the keep-alive token into a queue without one leaves exactly one, or was
   refused. *)
LEMMA PostToken ==
  ASSUME NEW q \in Queues, NEW what, NEW data, NEW delay,
         NoToken(q.msgs), what \in {"USB_ATTACH", "USB_ON"} \/ data = "SYNCING"
  PROVE  LET r == Post(q, what, data, delay)
         IN /\ q.lost => r.lost
            /\ OneToken(r.msgs)
            /\ \A k \in r.msgs : \/ k.what = what /\ k.data = data
                                 \/ ~Token(k) /\ \E l \in q.msgs : Like(k, l)
            /\ r.lost \/ \E k \in r.msgs : k.what = what /\ Token(k)
<1> DEFINE r == Post(q, what, data, delay)
<1> HIDE DEF r
<1>1. CASE r.msgs = q.msgs /\ r.lost
  BY <1>1 DEF OneToken, NoToken, Like, r
<1>2. CASE r.lost = q.lost /\ \E R, m : /\ r.msgs = R \cup {m}
                                        /\ Kept(q.msgs, R)
                                        /\ m.what = what /\ m.data = data
  <2>1. PICK R, m : /\ r.msgs = R \cup {m}
                    /\ Kept(q.msgs, R)
                    /\ m.what = what /\ m.data = data
    BY <1>2
  <2>2. \A k \in R : ~Token(k) /\ \E l \in q.msgs : Like(k, l)
    BY <2>1 DEF Kept, NoToken, Like, Token
  <2>3. Token(m)
    BY <2>1 DEF Token
  <2>4. \A k \in r.msgs : k \in R \/ k = m
    BY <2>1
  <2>5. OneToken(r.msgs)
    BY <2>2, <2>4 DEF OneToken
  <2> QED
    BY <1>2, <2>1, <2>2, <2>3, <2>4, <2>5 DEF r
<1> QED
  BY <1>1, <1>2, PostShape DEF r

(* Removing one of the timers that handlers remove is calm. *)
LEMMA PurgeCalm ==
  ASSUME NEW q \in Queues, NEW what \in {"SYNC_TIMEOUT", "DIAL_END_CHECK",
                                         "RING_TIMEOUT", "RECORD_START"}
  PROVE  Calm(q, Purge(q, what))
<1> DEFINE S == {k \in q.msgs : k.what # what}
<1> DEFINE r == Purge(q, what)
<1>1. q.msgs \in SUBSET Messages
  BY DEF Queues
<1>2. \A k \in q.msgs : Token(k) => k \in S
  BY <1>1 DEF Token, Messages, Payload, States
<1>3. Kept(S, Renumber(S))
  BY <1>1, RenumberKeeps
<1>4. S \subseteq q.msgs
  OBVIOUS
<1>5. r.msgs = Renumber(S) /\ r.lost = q.lost
  BY DEF Purge, Queues
<1> HIDE DEF S, r
<1>6. OneToken(q.msgs) => OneToken(S)
  BY <1>4 DEF OneToken
<1>7. Calm(q, r)
  BY <1>2, <1>3, <1>4, <1>5, <1>6 DEF Calm, Kept
<1> QED
  BY <1>7 DEF r

(* Two calm changes one after the other are calm. *)
LEMMA CalmTransitive ==
  ASSUME NEW q, NEW r, NEW s, Calm(q, r), Calm(r, s)
  PROVE  Calm(q, s)
<1>1. \A k \in s.msgs : Token(k) \/ k.data = "OFFLINE" => \E l \in q.msgs : Like(k, l)
  <2> TAKE k \in s.msgs
  <2> HAVE Token(k) \/ k.data = "OFFLINE"
  <2>1. PICK l \in r.msgs : Like(k, l)
    BY DEF Calm
  <2>2. Token(l) \/ l.data = "OFFLINE"
    BY <2>1 DEF Like, Token
  <2> QED
    BY <2>1, <2>2 DEF Calm, Like
<1>2. \A k \in q.msgs : Token(k) => \E l \in s.msgs : Like(k, l)
  <2> TAKE k \in q.msgs
  <2> HAVE Token(k)
  <2>1. PICK l \in r.msgs : Like(k, l)
    BY DEF Calm
  <2>2. Token(l)
    BY <2>1 DEF Like, Token
  <2> QED
    BY <2>1, <2>2 DEF Calm, Like
<1> QED
  BY <1>1, <1>2 DEF Calm

(* A step that adds only plain messages, of another thread or the clock.    *)
LEMMA QuietStep ==
  ASSUME Chain, Quiet(queue, queue'), UNCHANGED <<cur, busy, attached>>
  PROVE  Chain'
<1>1. Calm(queue, queue')
  BY DEF Quiet
<1>2. OneToken(queue'.msgs)
  BY <1>1 DEF Calm, Chain
<1>3. NoToken(queue.msgs) => NoToken(queue'.msgs)
  BY <1>1 DEF Calm, NoToken, Like, Token
<1>4. \A k \in queue'.msgs : Token(k) \/ k.data = "OFFLINE" \/ k.what = "SM_TRANSITION"
        => \E l \in queue.msgs : Like(k, l)
  BY <1>1 DEF Calm, Quiet
<1>5. \A k \in queue'.msgs : k.data # "OFFLINE"
  BY <1>4 DEF Chain, ChainOf, Like
<1>6. ~attached => cur = "OFFLINE" /\ NoToken(queue'.msgs \cup busy)
  BY <1>3 DEF Chain, ChainOf, NoToken
<1>7. cur = "OFFLINE" => \A k \in queue'.msgs :
        k.what # "USB_ON" /\ (k.what = "SM_TRANSITION" => k.data = "SYNCING")
  BY <1>4 DEF Chain, ChainOf, Like, Token
<1>8. cur # "OFFLINE" => \A k \in queue'.msgs : Token(k) => k.what = "USB_ON"
  BY <1>4 DEF Chain, ChainOf, Like, Token
<1>9. ChainOf(queue.msgs \cup busy)'
  BY <1>5, <1>6, <1>7, <1>8 DEF Chain, ChainOf
<1>10. ~NoToken(queue.msgs) => ~NoToken(queue'.msgs)
  BY <1>1 DEF Calm, NoToken, Like, Token
<1>11. (cur # "OFFLINE" /\ ~queue.lost => ~NoToken(queue.msgs \cup busy))'
  BY <1>1, <1>10 DEF Chain, Calm, NoToken
<1>12. (NoToken(busy) \/ NoToken(queue.msgs))'
  BY <1>3 DEF Chain
<1>13. OneToken(queue.msgs)'
  BY <1>2
<1> QED
  BY <1>9, <1>11, <1>12, <1>13 DEF Chain

(* A handler outside OFFLINE whose message is no token.                     *)
LEMMA CalmHandler ==
  ASSUME Chain, NEW m, busy = {m}, busy' = {}, ~Token(m), Calm(queue, queue'),
         cur # "OFFLINE", cur' # "OFFLINE", attached' = attached
  PROVE  Chain'
<1>1. OneToken(queue'.msgs)
  BY DEF Calm, Chain
<1>2. \A k \in queue'.msgs : k.data # "OFFLINE"
  BY DEF Calm, Chain, ChainOf, Like
<1>3. attached'
  BY DEF Chain, ChainOf
<1>4. \A k \in queue'.msgs : Token(k) => k.what = "USB_ON"
  BY DEF Calm, Chain, ChainOf, Like, Token
<1>5. ChainOf(queue.msgs \cup busy)'
  BY <1>2, <1>3, <1>4 DEF ChainOf
<1>6. ~queue'.lost => \E k \in queue.msgs : Token(k)
  BY DEF Chain, Calm, NoToken
<1>7. ~queue'.lost => \E k \in queue'.msgs : Token(k)
  BY <1>6 DEF Calm, Like, Token
<1>8. (cur # "OFFLINE" /\ ~queue.lost => ~NoToken(queue.msgs \cup busy))'
  BY <1>7 DEF NoToken
<1>9. NoToken(busy)'
  BY DEF NoToken
<1>10. OneToken(queue.msgs)'
  BY <1>1
<1> QED
  BY <1>5, <1>8, <1>9, <1>10 DEF Chain

(* The message changes from queued to being handled.                        *)
LEMMA TakeChain ==
  ASSUME SMType, Chain, NEW m \in queue.msgs, TakeMessage(m)
  PROVE  Chain'
<1> DEFINE S == queue.msgs \ {m}
<1> DEFINE b == [what |-> m.what, data |-> m.data]
<1>1. queue.msgs \in SUBSET Messages /\ queue \in Queues
  BY DEF SMType, TypeOK, Queues
<1>2. Kept(S, Renumber(S))
  BY <1>1, RenumberKeeps
<1>3. queue'.msgs = Renumber(S) /\ queue'.lost = queue.lost
  BY <1>1 DEF TakeMessage, Take, Queues
<1>4. busy = {} /\ busy' = {b} /\ UNCHANGED <<cur, attached>>
  BY DEF TakeMessage, smVars, envVars
<1>5. Like(b, m)
  BY DEF Like
<1>6. \A k \in queue'.msgs : \E l \in queue.msgs : Like(k, l) /\ l # m
  BY <1>2, <1>3 DEF Kept
<1>7. \A l \in queue.msgs : l # m => \E k \in queue'.msgs : Like(k, l)
  BY <1>2, <1>3 DEF Kept, Like
<1>8. OneToken(S)
  BY DEF Chain, OneToken
<1>9. OneToken(queue.msgs)'
  BY <1>2, <1>3, <1>8 DEF Kept
<1> HIDE DEF S, b
<1>10. Token(b) => NoToken(queue'.msgs)
  <2> SUFFICES ASSUME Token(b), NEW k \in queue'.msgs, Token(k) PROVE FALSE
    BY DEF NoToken
  <2>1. PICK l \in queue.msgs : Like(k, l) /\ l # m
    BY <1>6
  <2>2. Token(l) /\ Token(m)
    BY <1>5, <2>1 DEF Like, Token
  <2> QED
    BY <2>1, <2>2 DEF Chain, OneToken
<1>11. (NoToken(busy) \/ NoToken(queue.msgs))'
  BY <1>4, <1>10 DEF NoToken
<1>12. \A k \in (queue.msgs \cup busy)' : \E l \in queue.msgs : Like(k, l)
  BY <1>4, <1>5, <1>6
<1>13. \A l \in queue.msgs : \E k \in (queue.msgs \cup busy)' : Like(k, l)
  BY <1>4, <1>5, <1>7
<1>14. ChainOf(queue.msgs \cup busy)'
  <2>1. ChainOf(queue.msgs)
    BY <1>4 DEF Chain
  <2>2. \A k \in (queue.msgs \cup busy)' : k.data # "OFFLINE"
    BY <1>12, <2>1 DEF ChainOf, Like
  <2>3. ~attached' => cur' = "OFFLINE" /\ NoToken((queue.msgs \cup busy)')
    BY <1>4, <1>12, <2>1 DEF ChainOf, Like, NoToken, Token
  <2>4. cur' = "OFFLINE" => \A k \in (queue.msgs \cup busy)' :
          k.what # "USB_ON" /\ (k.what = "SM_TRANSITION" => k.data = "SYNCING")
    BY <1>4, <1>12, <2>1 DEF ChainOf, Like
  <2>5. cur' # "OFFLINE" => \A k \in (queue.msgs \cup busy)' : Token(k) => k.what = "USB_ON"
    BY <1>4, <1>12, <2>1 DEF ChainOf, Like, Token
  <2> QED
    BY <2>2, <2>3, <2>4, <2>5 DEF ChainOf
<1>15. (cur # "OFFLINE" /\ ~queue.lost => ~NoToken(queue.msgs \cup busy))'
  BY <1>3, <1>4, <1>13 DEF Chain, NoToken, Like, Token
<1> QED
  BY <1>9, <1>11, <1>14, <1>15 DEF Chain

(* The process functions.  In OFFLINE the attach becomes a transition; in   *)
(* every other state a keep-alive becomes the next one and the rest of the  *)
(* messages leave the token alone.                                          *)
LEMMA ProcessCalm ==
  ASSUME SMType, NEW m \in Taken, m.what \notin {"SM_TRANSITION", "USB_ON"},
         \/ SyncingProcess(m) \/ IdleProcess(m) \/ DialingProcess(m)
         \/ IncomingProcess(m) \/ ConversationProcess(m) \/ MemoProcess(m)
  PROVE  /\ Calm(queue, queue')
         /\ cur # "OFFLINE" /\ cur' = cur /\ attached' = attached
<1>1. queue \in Queues /\ queue \in FiniteQueues
  BY DEF SMType, TypeOK
<1>2. Calm(queue, queue)
  BY DEF Calm, Like
<1>3. \A s \in {"IDLE", "DIALING", "INCOMING", "CONVERSATION", "MEMO"} :
        Calm(queue, PostTransition(queue, s))
  BY <1>1, PostCalm DEF PostTransition
<1>4. /\ Calm(queue, RearmSync(queue))
      /\ Calm(queue, RearmDialEnd(queue))
      /\ Calm(queue, RearmRing(queue))
  <2>1. \A w \in {"SYNC_TIMEOUT", "DIAL_END_CHECK", "RING_TIMEOUT"} :
          Calm(queue, Purge(queue, w)) /\ Purge(queue, w) \in Queues
    BY <1>1, PurgeCalm, PurgeType DEF FiniteQueues
  <2>2. \A w \in {"SYNC_TIMEOUT", "DIAL_END_CHECK", "RING_TIMEOUT"} : \A delay :
          Calm(Purge(queue, w), Post(Purge(queue, w), w, "NULL", delay))
    BY <2>1, PostCalm
  <2> QED
    BY <2>1, <2>2, CalmTransitive DEF RearmSync, RearmDialEnd, RearmRing
<1>5. Calm(queue, PostTransition(Purge(queue, "SYNC_TIMEOUT"), "IDLE"))
  <2>1. /\ Calm(queue, Purge(queue, "SYNC_TIMEOUT"))
        /\ Purge(queue, "SYNC_TIMEOUT") \in Queues
    BY <1>1, PurgeCalm, PurgeType DEF FiniteQueues
  <2>2. Calm(Purge(queue, "SYNC_TIMEOUT"), PostTransition(Purge(queue, "SYNC_TIMEOUT"), "IDLE"))
    BY <2>1, PostCalm DEF PostTransition
  <2> QED
    BY <2>1, <2>2, CalmTransitive
<1>6. \A delay : /\ Calm(queue, Post(queue, "DIAL_END_CHECK", "NULL", delay))
                 /\ Calm(queue, Post(queue, "HANDFREE_OFF", "NULL", delay))
  BY <1>1, PostCalm
<1> USE DEF smVars, envVars
<1>7. CASE SyncingProcess(m)
  BY <1>2, <1>3, <1>4, <1>5, <1>7 DEF SyncingProcess, DefaultProcess
<1>8. CASE IdleProcess(m)
  BY <1>2, <1>3, <1>8 DEF IdleProcess, DefaultProcess
<1>9. CASE DialingProcess(m)
  BY <1>2, <1>3, <1>4, <1>6, <1>9 DEF DialingProcess, DefaultProcess
<1>10. CASE IncomingProcess(m)
  BY <1>2, <1>3, <1>4, <1>10 DEF IncomingProcess, DefaultProcess
<1>11. CASE ConversationProcess(m)
  BY <1>2, <1>3, <1>6, <1>11 DEF ConversationProcess, DefaultProcess
<1>12. CASE MemoProcess(m)
  BY <1>2, <1>3, <1>6, <1>12 DEF MemoProcess, DefaultProcess
<1> QED
  BY <1>7, <1>8, <1>9, <1>10, <1>11, <1>12

(* transition_to another state than SYNCING leaves the token alone.         *)
LEMMA EnterCalm ==
  ASSUME SMType, NEW m \in Taken, TransitionTo(m), m.data # "SYNCING"
  PROVE  Calm(queue, queue') /\ cur' = m.data /\ attached' = attached
<1>1. queue \in Queues /\ queue \in FiniteQueues
  BY DEF SMType, TypeOK
<1>2. Calm(queue, queue)
  BY DEF Calm, Like
<1>3. Calm(queue, Post(queue, "ASK_DTMF_TX", "number", DIAL_DELAY))
  BY <1>1, PostCalm
<1>4. Calm(queue, Post(Purge(RearmRing(queue), "RECORD_START"),
                       "RECORD_START", "NULL", RECORD_START_TIMEOUT))
  <2> DEFINE a == Purge(queue, "RING_TIMEOUT")
  <2> DEFINE b == RearmRing(queue)
  <2> DEFINE c == Purge(b, "RECORD_START")
  <2>1. a \in Queues /\ b \in Queues /\ b \in FiniteQueues
    BY <1>1, PurgeType, RearmType DEF FiniteQueues
  <2>2. c \in Queues
    BY <2>1, PurgeType DEF FiniteQueues
  <2>3. Calm(queue, a) /\ Calm(a, b)
    BY <1>1, <2>1, PurgeCalm, PostCalm DEF RearmRing
  <2>4. Calm(b, c) /\ Calm(c, Post(c, "RECORD_START", "NULL", RECORD_START_TIMEOUT))
    BY <2>1, <2>2, PurgeCalm, PostCalm
  <2> HIDE DEF a, b
  <2>5. Calm(queue, b)
    BY <2>3, CalmTransitive
  <2>6. Calm(queue, c)
    BY <2>4, <2>5, CalmTransitive
  <2> HIDE DEF c
  <2>7. Calm(queue, Post(c, "RECORD_START", "NULL", RECORD_START_TIMEOUT))
    BY <2>4, <2>6, CalmTransitive
  <2> QED
    BY <2>7 DEF b, c
<1> QED
  BY <1>2, <1>3, <1>4 DEF TransitionTo, IdleEnter, DialingEnter, IncomingEnter,
     ConversationEnter, MemoEnter, envVars

(* The message being handled is the token: it is passed on.                 *)
LEMMA AttachHandled ==
  ASSUME SMType, Chain, NEW m \in Taken, busy = {m}, busy' = {}, OfflineProcess(m)
  PROVE  Chain'
<1>1. cur = "OFFLINE" /\ UNCHANGED <<cur, attached>>
  BY DEF OfflineProcess, smVars, envVars
<1>2. CASE m.what # "USB_ATTACH"
  <2>1. queue' = queue
    BY <1>2 DEF OfflineProcess
  <2> QED
    BY <1>1, <2>1 DEF Chain, ChainOf, NoToken, OneToken
<1>3. CASE m.what = "USB_ATTACH"
  <2>1. NoToken(queue.msgs) /\ attached
    BY <1>3 DEF Chain, ChainOf, NoToken, Token
  <2>2. queue' = Post(queue, "SM_TRANSITION", "SYNCING", 0) /\ queue \in Queues
    BY <1>3 DEF OfflineProcess, PostTransition, SMType, TypeOK
  <2>3. /\ OneToken(queue'.msgs)
        /\ \A k \in queue'.msgs : \/ k.what = "SM_TRANSITION" /\ k.data = "SYNCING"
                                  \/ \E l \in queue.msgs : Like(k, l)
    BY <2>1, <2>2, PostToken
  <2>4. OneToken(queue.msgs)'
    BY <2>3
  <2>5. ChainOf(queue.msgs \cup busy)'
    BY <1>1, <2>1, <2>3 DEF Chain, ChainOf, Like
  <2>6. NoToken(busy)'
    BY DEF NoToken
  <2> QED
    BY <1>1, <2>4, <2>5, <2>6 DEF Chain
<1> QED
  BY <1>2, <1>3

(* Handling USB_ON outside OFFLINE sends the next one: the chain goes on. *)
LEMMA KeepAliveHandled ==
  ASSUME SMType, Chain, NEW m \in Taken, busy = {m}, busy' = {},
         m.what = "USB_ON", cur # "OFFLINE", DefaultProcess(m)
  PROVE  Chain'
<1>1. UNCHANGED <<cur, attached>>
  BY DEF DefaultProcess, smVars, envVars
<1>2. NoToken(queue.msgs) /\ attached
  BY DEF Chain, ChainOf, NoToken, Token
<1>3. queue' = Post(queue, "USB_ON", "NULL", USB_KEEP_ALIVE_TIMER) /\ queue \in Queues
  BY DEF DefaultProcess, SMType, TypeOK
<1>4. /\ OneToken(queue'.msgs)
      /\ \A k \in queue'.msgs : \/ k.what = "USB_ON" /\ k.data = "NULL"
                                \/ ~Token(k) /\ \E l \in queue.msgs : Like(k, l)
      /\ queue'.lost \/ \E k \in queue'.msgs : k.what = "USB_ON" /\ Token(k)
  BY <1>2, <1>3, PostToken
<1>5. OneToken(queue.msgs)' /\ NoToken(busy)'
  BY <1>4 DEF NoToken
<1>6. ChainOf(queue.msgs \cup busy)'
  BY <1>1, <1>2, <1>4 DEF Chain, ChainOf, Like
<1>7. (cur # "OFFLINE" /\ ~queue.lost => ~NoToken(queue.msgs \cup busy))'
  BY <1>4 DEF NoToken
<1> QED
  BY <1>5, <1>6, <1>7 DEF Chain

(* Entering SYNCING turns the transition into the first USB_ON. *)
LEMMA SyncingEntered ==
  ASSUME SMType, Chain, NEW m \in Taken, busy = {m}, busy' = {},
         TransitionTo(m), m.data = "SYNCING"
  PROVE  Chain'
<1> DEFINE r == Post(queue, "USB_ON", "NULL", USB_KEEP_ALIVE_TIMER)
<1>1. NoToken(queue.msgs) /\ attached /\ cur = "OFFLINE"
  BY DEF Chain, ChainOf, NoToken, Token, TransitionTo
<1>2. /\ queue' = Post(r, "SYNC_TIMEOUT", "NULL", SYNCING_TIMEOUT)
      /\ cur' = "SYNCING" /\ attached' = attached
  BY <1>1 DEF TransitionTo, SyncingEnter, envVars
<1>3. queue \in Queues /\ r \in Queues
  BY PostPlain, DelayAssumption DEF SMType, TypeOK, FiniteQueues, MsgIds, Internal
<1>4. /\ OneToken(r.msgs)
      /\ \A k \in r.msgs : \/ k.what = "USB_ON" /\ k.data = "NULL"
                           \/ ~Token(k) /\ \E l \in queue.msgs : Like(k, l)
      /\ r.lost \/ \E k \in r.msgs : k.what = "USB_ON" /\ Token(k)
  BY <1>1, <1>3, PostToken
<1>5. Calm(r, queue')
  BY <1>2, <1>3, PostCalm
<1> HIDE DEF r
<1>6. OneToken(queue.msgs)' /\ NoToken(busy)'
  BY <1>4, <1>5 DEF Calm, NoToken
<1>7. \A k \in queue'.msgs : k.data # "OFFLINE"
  BY <1>4, <1>5 DEF Calm, Chain, ChainOf, Like
<1>8. \A k \in queue'.msgs : Token(k) => k.what = "USB_ON"
  BY <1>4, <1>5 DEF Calm, Like, Token
<1>9. ChainOf(queue.msgs \cup busy)'
  BY <1>1, <1>2, <1>7, <1>8 DEF ChainOf
<1>10. ~queue'.lost => \E k \in queue'.msgs : Token(k)
  BY <1>4, <1>5 DEF Calm, Like, Token
<1>11. (cur # "OFFLINE" /\ ~queue.lost => ~NoToken(queue.msgs \cup busy))'
  BY <1>10 DEF NoToken
<1> QED
  BY <1>6, <1>9, <1>11 DEF Chain

(* Handling any message keeps the chain. *)
LEMMA HandledChain ==
  ASSUME SMType, Chain, NEW m \in busy, ProcessMessage(m)
  PROVE  Chain'
<1>1. m \in Taken /\ busy = {m} /\ busy' = {}
  BY DEF SMType, TypeOK, ProcessMessage
<1>2. CASE TransitionTo(m)
  <2>1. CASE m.data = "SYNCING"
    BY <1>1, <1>2, <2>1, SyncingEntered
  <2>2. CASE m.data # "SYNCING"
    <3>1. m.what = "SM_TRANSITION" /\ ~Token(m)
      BY <1>2, <2>2 DEF TransitionTo, Token
    <3>2. cur # "OFFLINE" /\ m.data # "OFFLINE"
      BY <2>2, <3>1 DEF Chain, ChainOf
    <3>3. Calm(queue, queue') /\ cur' = m.data /\ attached' = attached
      BY <1>1, <1>2, <2>2, EnterCalm
    <3> QED
      BY <1>1, <3>1, <3>2, <3>3, CalmHandler
  <2> QED
    BY <2>1, <2>2
<1>3. CASE OfflineProcess(m)
  BY <1>1, <1>3, AttachHandled
<1>4. CASE /\ m.what # "SM_TRANSITION"
           /\ \/ SyncingProcess(m) \/ IdleProcess(m) \/ DialingProcess(m)
              \/ IncomingProcess(m) \/ ConversationProcess(m) \/ MemoProcess(m)
  <2>1. cur # "OFFLINE"
    BY <1>4 DEF SyncingProcess, IdleProcess, DialingProcess, IncomingProcess,
       ConversationProcess, MemoProcess
  <2>2. CASE m.what = "USB_ON"
    <3>1. DefaultProcess(m)
      BY <1>4, <2>2 DEF SyncingProcess, IdleProcess, DialingProcess, IncomingProcess,
         ConversationProcess, MemoProcess
    <3> QED
      BY <1>1, <2>1, <2>2, <3>1, KeepAliveHandled
  <2>3. CASE m.what # "USB_ON"
    <3>1. Calm(queue, queue') /\ cur' = cur /\ attached' = attached
      BY <1>1, <1>4, <2>3, ProcessCalm
    <3>2. ~Token(m)
      BY <1>1, <2>1, <2>3 DEF Chain, ChainOf
    <3> QED
      BY <1>1, <2>1, <3>1, <3>2, CalmHandler
  <2> QED
    BY <2>2, <2>3
<1> QED
  BY <1>2, <1>3, <1>4 DEF ProcessMessage

(* Time changes how long the messages have left and which are due, not      *)
(* their ids and data.                                                      *)
LEMMA ClockMaps ==
  ASSUME SMType, ProcessTimeouts \/ Tick
  PROVE  /\ \E f : /\ f = [k \in queue.msgs |-> f[k]]
                   /\ \A k \in queue.msgs : Like(f[k], k)
                   /\ queue'.msgs = {f[k] : k \in queue.msgs}
                   /\ queue'.lost = queue.lost
         /\ UNCHANGED <<cur, outgoing, busy, attached>>
<1>0. queue.msgs \in SUBSET Messages /\ queue \in Queues
  BY DEF SMType, TypeOK, Queues
<1>1. CASE ProcessTimeouts
  <2> DEFINE f == [k \in queue.msgs |-> [k EXCEPT !.pend = (k.left = 0)]]
  <2>1. \A k \in queue.msgs : Like(f[k], k)
    BY <1>0 DEF Messages, Like
  <2>2. queue'.msgs = {f[k] : k \in queue.msgs} /\ queue'.lost = queue.lost
    BY <1>0, <1>1 DEF ProcessTimeouts, Queues
  <2>3. f = [k \in queue.msgs |-> f[k]]
    OBVIOUS
  <2>4. UNCHANGED <<cur, outgoing, busy, attached>>
    BY <1>1 DEF ProcessTimeouts, smVars, envVars
  <2> HIDE DEF f
  <2> QED
    BY <2>1, <2>2, <2>3, <2>4
<1>2. CASE Tick
  <2> DEFINE f == [k \in queue.msgs |->
                     IF k.left > 0 THEN [k EXCEPT !.left = k.left - 1] ELSE k]
  <2>1. \A k \in queue.msgs : Like(f[k], k)
    BY <1>0 DEF Messages, Like
  <2>2. queue'.msgs = {f[k] : k \in queue.msgs} /\ queue'.lost = queue.lost
    BY <1>0, <1>2 DEF Tick, Queues
  <2>3. f = [k \in queue.msgs |-> f[k]]
    OBVIOUS
  <2>4. UNCHANGED <<cur, outgoing, busy, attached>>
    BY <1>2 DEF Tick, smVars, envVars
  <2> HIDE DEF f
  <2> QED
    BY <2>1, <2>2, <2>3, <2>4
<1> QED
  BY <1>1, <1>2

(* Time keeps the chain. *)
LEMMA ClockChain ==
  ASSUME SMType, Chain, ProcessTimeouts \/ Tick
  PROVE  Chain'
<1>1. PICK f : /\ f = [k \in queue.msgs |-> f[k]]
               /\ \A k \in queue.msgs : Like(f[k], k)
               /\ queue'.msgs = {f[k] : k \in queue.msgs}
               /\ queue'.lost = queue.lost
  BY ClockMaps
<1>2. Kept(queue.msgs, queue'.msgs)
  BY <1>1, MapKeeps
<1>3. Quiet(queue, queue')
  BY <1>1, <1>2 DEF Quiet, Calm, Kept, Like
<1>4. UNCHANGED <<cur, busy, attached>>
  BY ClockMaps
<1> QED
  BY <1>3, <1>4, QuietStep

(* A message of another thread, USB_ATTACH excepted, keeps the chain. *)
LEMMA SendChain ==
  ASSUME SMType, Chain, NEW what, NEW data \in {"number", "NULL"}, Send(what, data),
         what # "USB_ATTACH", attached' = attached
  PROVE  Chain'
<1>1. what \notin {"USB_ON", "SM_TRANSITION"}
  BY PostsAssumption DEF Send, Inputs, DeviceEvents, AudioEvents
<1>2. Quiet(queue, queue')
  BY <1>1, PostCalm DEF Send, SMType, TypeOK
<1> QED
  BY <1>2, QuietStep DEF Send, smVars

(* main posts USB_ATTACH once, and the chain begins. *)
LEMMA AttachChain ==
  ASSUME SMType, Chain, Attach
  PROVE  Chain'
<1>1. /\ queue' = Post(queue, "USB_ATTACH", "NULL", 0) /\ queue \in Queues
      /\ UNCHANGED <<cur, busy>> /\ attached'
  BY DEF Attach, Send, smVars, SMType, TypeOK
<1>2. cur = "OFFLINE" /\ NoToken(queue.msgs) /\ NoToken(busy)
  BY DEF Attach, Chain, ChainOf, NoToken
<1>3. /\ OneToken(queue'.msgs)
      /\ \A k \in queue'.msgs : \/ k.what = "USB_ATTACH" /\ k.data = "NULL"
                                \/ \E l \in queue.msgs : Like(k, l)
  BY <1>1, <1>2, PostToken
<1>4. OneToken(queue.msgs)' /\ NoToken(busy)'
  BY <1>1, <1>2, <1>3
<1>5. ChainOf(queue.msgs \cup busy)'
  BY <1>1, <1>2, <1>3 DEF Chain, ChainOf, Like
<1> QED
  BY <1>1, <1>2, <1>4, <1>5 DEF Chain

(* Before the device is attached there is no token.                         *)
LEMMA InitChain == Init => SMType /\ Chain
<1> SUFFICES ASSUME Init PROVE SMType /\ Chain
  OBVIOUS
<1>1. SMType
  BY InitType
<1>2. Chain
  BY DEF Init, Chain, ChainOf, OneToken, NoToken
<1> QED
  BY <1>1, <1>2

(* Every step keeps the token.                                              *)
LEMMA NextChain ==
  ASSUME SMType, Chain, [Next]_vars
  PROVE  SMType' /\ Chain'
<1>1. SMType'
  BY NextType
<1>2. Chain'
  <2>1. CASE SMStep
    BY <2>1, TakeChain, HandledChain DEF SMStep
  <2>2. CASE ProcessTimeouts \/ Tick
    BY <2>2, ClockChain
  <2>3. CASE Attach
    BY <2>3, AttachChain
  <2>4. ASSUME NEW number \in {"number", "NULL"}, Dial(number) PROVE Chain'
    BY <2>4, SendChain DEF Dial, envVars
  <2>5. CASE Hangup
    BY <2>5, SendChain DEF Hangup, envVars
  <2>6. CASE HookOn \/ HookOff
    BY <2>6, SendChain DEF HookOn, HookOff
  <2>7. ASSUME NEW event \in DeviceEvents, Report(event) PROVE Chain'
    BY <2>7, SendChain DEF Report, DeviceEvents, envVars
  <2>8. CASE PromptEnds \/ RecordingEnds
    BY <2>8, SendChain DEF PromptEnds, RecordingEnds, envVars
  <2>9. CASE AudioThreadExits \/ UNCHANGED vars
    <3>1. UNCHANGED <<cur, queue, busy, attached>>
      BY <2>9 DEF AudioThreadExits, vars, smVars, envVars
    <3> QED
      BY <3>1 DEF Chain, ChainOf, OneToken, NoToken
  <2> QED
    BY <2>1, <2>2, <2>3, <2>4, <2>5, <2>6, <2>7, <2>8, <2>9 DEF Next
<1> QED
  BY <1>1, <1>2

(* OneKeepAlive of default_process and syncing_enter, for every pool size,  *)
(* every delay and every message the other threads post: there is never a   *)
(* second USB_ON, and outside OFFLINE there is one until a send is refused. *)
THEOREM KeepAlive == Spec => []OneKeepAlive
<1>1. SMType /\ Chain /\ [Next]_vars => SMType' /\ Chain'
  BY NextChain
<1>2. Chain => OneKeepAlive
  <2> SUFFICES ASSUME Chain PROVE OneKeepAlive
    OBVIOUS
  <2>1. AtMostOne("USB_ON")
    BY DEF Chain, OneToken, NoToken, Token, AtMostOne, Queued
  <2>2. cur # "OFFLINE" /\ ~queue.lost => InFlight("USB_ON")
    BY DEF Chain, ChainOf, NoToken, InFlight, Queued
  <2> QED
    BY <2>1, <2>2 DEF OneKeepAlive
<1> QED
  BY <1>1, <1>2, InitChain, PTL DEF Spec
-----------------------------------------------------------------------------
(* The timers.  A timed state is left by its timer or by a transition to    *)
(* another state that is under way; a transition to the state itself, which *)
(* a second ring or call id can leave behind, does not count.               *)

Has(S, w) == \E k \in S : k.what = w

OneOf(S, w) == \A k, l \in S : k.what = w /\ l.what = w => k = l

Leaves(S, s) == \E k \in S : k.what = "SM_TRANSITION" /\ k.data # s

\* From queue q to queue r only messages with an id in W have come or gone.
Apart(q, r, W) ==
  /\ q.lost => r.lost
  /\ \A k \in q.msgs : k.what \notin W => \E l \in r.msgs : Like(l, k)
  /\ \A k \in r.msgs : k.what \notin W => \E l \in q.msgs : Like(l, k)
  /\ \A w : w \notin W /\ OneOf(q.msgs, w) => OneOf(r.msgs, w)

TimerIds == {"SYNC_TIMEOUT", "RING_TIMEOUT", "RECORD_START"}
TimedIds == TimerIds \cup {"ASK_DTMF_TX", "DIAL_END_CHECK", "SM_TRANSITION"}

\* What will end the current state, among the messages S.
Ends(S) ==
  /\ cur = "SYNCING" => Has(S, "SYNC_TIMEOUT") \/ Leaves(S, "SYNCING")
  /\ cur = "INCOMING" => Has(S, "RING_TIMEOUT") \/ Leaves(S, "INCOMING")
  /\ cur = "DIALING" /\ outgoing = "number" =>
       Has(S, "ASK_DTMF_TX") \/ Has(S, "DIAL_END_CHECK") \/ Leaves(S, "DIALING")

\* The invariant.  SYNCING is entered once, from OFFLINE, where its timer
\* cannot be queued yet.
Timed ==
  /\ \A w \in TimerIds : /\ OneOf(queue.msgs, w)
                         /\ Has(busy, w) => ~Has(queue.msgs, w)
  /\ cur = "OFFLINE" => ~Has(queue.msgs \cup busy, "SYNC_TIMEOUT")
  /\ ~queue.lost => Ends(queue.msgs \cup busy)

(* A function on messages that keeps ids keeps them single.                 *)
LEMMA MapOne ==
  ASSUME NEW S, NEW f, f = [k \in S |-> f[k]], \A k \in S : Like(f[k], k)
  PROVE  /\ \A k \in S : \E l \in {f[j] : j \in S} : Like(l, k)
         /\ \A k \in {f[j] : j \in S} : \E l \in S : Like(l, k)
         /\ \A w : OneOf(S, w) => OneOf({f[j] : j \in S}, w)
<1> DEFINE T == {f[k] : k \in S}
<1>1. \A k \in T : \E l \in S : k = f[l]
  OBVIOUS
<1>2. \A k \in S : f[k] \in T
  OBVIOUS
<1> HIDE DEF T
<1>3. ASSUME NEW w, OneOf(S, w) PROVE OneOf(T, w)
  <2> SUFFICES ASSUME NEW k \in T, NEW l \in T, k.what = w, l.what = w
               PROVE  k = l
    BY DEF OneOf
  <2>1. PICK i \in S : k = f[i]
    BY <1>1
  <2>2. PICK j \in S : l = f[j]
    BY <1>1
  <2>3. i.what = w /\ j.what = w
    BY <2>1, <2>2 DEF Like
  <2> QED
    BY <1>3, <2>1, <2>2, <2>3 DEF OneOf
<1>4. \A k \in S : \E l \in T : Like(l, k)
  BY <1>2
<1>5. \A k \in T : \E l \in S : Like(l, k)
  BY <1>1 DEF Like
<1> QED
  BY <1>3, <1>4, <1>5 DEF T

(* Renumbering the queue neither adds nor removes messages.                 *)
LEMMA RenumberOne ==
  ASSUME NEW S \in SUBSET Messages
  PROVE  /\ \A k \in S : \E l \in Renumber(S) : Like(l, k)
         /\ \A k \in Renumber(S) : \E l \in S : Like(l, k)
         /\ \A w : OneOf(S, w) => OneOf(Renumber(S), w)
<1> DEFINE f == [m \in S |-> [m EXCEPT !.pos = Cardinality({k \in S : k.pos <= m.pos})]]
<1>1. \A k \in S : Like(f[k], k)
  BY DEF Like, Messages
<1>2. Renumber(S) = {f[m] : m \in S} /\ f = [m \in S |-> f[m]]
  BY DEF Renumber
<1> HIDE DEF f
<1> QED
  BY <1>1, <1>2, MapOne

(* send_message_delay: one message comes, or the send is refused.           *)
LEMMA PostApart ==
  ASSUME NEW q \in Queues, NEW what, NEW data, NEW delay
  PROVE  LET r == Post(q, what, data, delay)
         IN /\ Apart(q, r, {what})
            /\ r.lost \/ \E k \in r.msgs : k.what = what /\ k.data = data
            /\ ~Has(q.msgs, what) => OneOf(r.msgs, what)
<1> DEFINE p == Place(q.msgs, delay)
           m == [what |-> what, data |-> data, left |-> delay, pos |-> p, pend |-> FALSE]
           f == [k \in q.msgs |-> IF k.pos < p THEN k ELSE [k EXCEPT !.pos = k.pos + 1]]
           R == {f[k] : k \in q.msgs}
           r == Post(q, what, data, delay)
<1>1. q.msgs \in SUBSET Messages
  BY DEF Queues
<1>2. m.what = what /\ m.data = data
  OBVIOUS
<1>3. \A k \in q.msgs : Like(f[k], k)
  <2> HIDE DEF p, m
  <2> QED
    BY <1>1 DEF Like, Messages
<1>4. MakeRoom(q.msgs, p) = R /\ f = [k \in q.msgs |-> f[k]]
  BY DEF MakeRoom
<1>5. \/ r = [q EXCEPT !.msgs = MakeRoom(q.msgs, p) \cup {m}]
      \/ r = [q EXCEPT !.lost = TRUE]
  BY DEF Post
<1> HIDE DEF p, m, f, r
<1>6. /\ \A k \in q.msgs : \E l \in R : Like(l, k)
      /\ \A k \in R : \E l \in q.msgs : Like(l, k)
      /\ \A w : OneOf(q.msgs, w) => OneOf(R, w)
  BY <1>3, <1>4, MapOne
<1> HIDE DEF R
<1>7. CASE r = [q EXCEPT !.lost = TRUE]
  <2>1. r.msgs = q.msgs /\ r.lost
    BY <1>7 DEF Queues
  <2> QED
    BY <2>1 DEF Apart, Like, Has, OneOf, r
<1>8. CASE r = [q EXCEPT !.msgs = MakeRoom(q.msgs, p) \cup {m}]
  <2>1. r.msgs = R \cup {m} /\ r.lost = q.lost
    BY <1>4, <1>8 DEF Queues
  <2>2. \A w : w \notin {what} /\ OneOf(q.msgs, w) => OneOf(r.msgs, w)
    BY <1>2, <1>6, <2>1 DEF OneOf
  <2>3. ASSUME ~Has(q.msgs, what) PROVE OneOf(r.msgs, what)
    <3>1. \A k \in R : k.what # what
      BY <1>6, <2>3 DEF Has, Like
    <3> QED
      BY <2>1, <3>1 DEF OneOf
  <2>4. Apart(q, r, {what})
    BY <1>2, <1>6, <2>1, <2>2 DEF Apart
  <2>5. \E k \in r.msgs : k.what = what /\ k.data = data
    BY <1>2, <2>1
  <2> QED
    BY <2>3, <2>4, <2>5 DEF r
<1> QED
  BY <1>5, <1>7, <1>8

(* sm_remove_message_id: the messages of the id are gone, no others.        *)
LEMMA PurgeApart ==
  ASSUME NEW q \in Queues, NEW what
  PROVE  /\ Apart(q, Purge(q, what), {what})
         /\ ~Has(Purge(q, what).msgs, what)
<1> DEFINE S == {k \in q.msgs : k.what # what}
           r == Purge(q, what)
<1>1. S \in SUBSET Messages
  BY DEF Queues
<1>2. r.msgs = Renumber(S) /\ r.lost = q.lost
  BY DEF Purge, Queues
<1>3. \A k \in S : k \in q.msgs /\ k.what # what
  OBVIOUS
<1>4. \A k \in q.msgs : k.what # what => k \in S
  OBVIOUS
<1> HIDE DEF S, r
<1>5. /\ \A k \in S : \E l \in r.msgs : Like(l, k)
      /\ \A k \in r.msgs : \E l \in S : Like(l, k)
      /\ \A w : OneOf(S, w) => OneOf(r.msgs, w)
  BY <1>1, <1>2, RenumberOne
<1>6. \A w : OneOf(q.msgs, w) => OneOf(S, w)
  BY <1>3 DEF OneOf
<1>7. ~Has(r.msgs, what)
  BY <1>3, <1>5 DEF Has, Like
<1>8. Apart(q, r, {what})
  BY <1>2, <1>3, <1>4, <1>5, <1>6 DEF Apart
<1> QED
  BY <1>7, <1>8 DEF r

(* One change after another.                                                *)
LEMMA ApartTransitive ==
  ASSUME NEW q, NEW r, NEW s, NEW V, NEW W, Apart(q, r, V), Apart(r, s, W)
  PROVE  Apart(q, s, V \cup W)
<1>1. ASSUME NEW k \in q.msgs, k.what \notin V \cup W PROVE \E l \in s.msgs : Like(l, k)
  <2>1. PICK j \in r.msgs : Like(j, k)
    BY <1>1 DEF Apart
  <2>2. PICK l \in s.msgs : Like(l, j)
    BY <1>1, <2>1 DEF Apart, Like
  <2> QED
    BY <2>1, <2>2 DEF Like
<1>2. ASSUME NEW k \in s.msgs, k.what \notin V \cup W PROVE \E l \in q.msgs : Like(l, k)
  <2>1. PICK j \in r.msgs : Like(j, k)
    BY <1>2 DEF Apart
  <2>2. PICK l \in q.msgs : Like(l, j)
    BY <1>2, <2>1 DEF Apart, Like
  <2> QED
    BY <2>1, <2>2 DEF Like
<1>3. \A w : w \notin V \cup W /\ OneOf(q.msgs, w) => OneOf(s.msgs, w)
  BY DEF Apart
<1> QED
  BY <1>1, <1>2, <1>3 DEF Apart

(* A timer that is put off: removed and sent again, it is there once.       *)
LEMMA RearmApart ==
  ASSUME NEW q \in FiniteQueues, NEW what, NEW data, NEW delay
  PROVE  LET r == Post(Purge(q, what), what, data, delay)
         IN /\ Apart(q, r, {what})
            /\ OneOf(r.msgs, what)
            /\ r.lost \/ Has(r.msgs, what)
<1> DEFINE p == Purge(q, what)
           r == Post(p, what, data, delay)
<1>1. p \in Queues /\ q \in Queues
  BY PurgeType DEF FiniteQueues
<1>2. Apart(q, p, {what}) /\ ~Has(p.msgs, what)
  BY <1>1, PurgeApart
<1> HIDE DEF p
<1>3. /\ Apart(p, r, {what}) /\ OneOf(r.msgs, what)
      /\ r.lost \/ \E k \in r.msgs : k.what = what
  BY <1>1, <1>2, PostApart
<1> HIDE DEF r
<1>4. Apart(q, r, {what} \cup {what})
  BY <1>2, <1>3, ApartTransitive
<1> QED
  BY <1>3, <1>4 DEF p, r, Has
(* What a change leaves alone stays: an id outside W is as present, and as  *)
(* single, as before.                                                       *)
LEMMA ApartKeeps ==
  ASSUME NEW q, NEW r, NEW W, Apart(q, r, W)
  PROVE  /\ \A w : w \notin W => (Has(q.msgs, w) <=> Has(r.msgs, w))
         /\ \A w : w \notin W /\ OneOf(q.msgs, w) => OneOf(r.msgs, w)
         /\ \A s : "SM_TRANSITION" \notin W /\ Leaves(q.msgs, s) => Leaves(r.msgs, s)
         /\ q.lost => r.lost
<1>1. ASSUME NEW w, w \notin W PROVE Has(q.msgs, w) <=> Has(r.msgs, w)
  BY <1>1 DEF Apart, Has, Like
<1>2. ASSUME NEW s, "SM_TRANSITION" \notin W, Leaves(q.msgs, s) PROVE Leaves(r.msgs, s)
  BY <1>2 DEF Apart, Leaves, Like
<1> QED
  BY <1>1, <1>2 DEF Apart

(* A step that touches none of the timers, of another thread or the clock.  *)
LEMMA ApartStep ==
  ASSUME Timed, NEW W, Apart(queue, queue', W), W \cap TimedIds = {},
         UNCHANGED <<cur, outgoing, busy>>
  PROVE  Timed'
<1>1. /\ \A w \in TimedIds : Has(queue.msgs, w) <=> Has(queue'.msgs, w)
      /\ \A w \in TimedIds : OneOf(queue.msgs, w) => OneOf(queue'.msgs, w)
      /\ \A s : Leaves(queue.msgs, s) => Leaves(queue'.msgs, s)
      /\ queue.lost => queue'.lost
  <2>1. \A w \in TimedIds : w \notin W
    OBVIOUS
  <2>2. "SM_TRANSITION" \notin W
    BY <2>1 DEF TimedIds
  <2> QED
    BY <2>1, <2>2, ApartKeeps
<1>2. TimerIds \subseteq TimedIds /\ {"SYNC_TIMEOUT", "RING_TIMEOUT", "ASK_DTMF_TX",
                                      "DIAL_END_CHECK"} \subseteq TimedIds
  BY DEF TimedIds, TimerIds
<1>3. /\ \A S, T, w : Has(S \cup T, w) <=> Has(S, w) \/ Has(T, w)
      /\ \A S, T, s : Leaves(S \cup T, s) <=> Leaves(S, s) \/ Leaves(T, s)
  BY DEF Has, Leaves
<1>4. \A w \in TimerIds : OneOf(queue'.msgs, w) /\ (Has(busy, w) => ~Has(queue'.msgs, w))
  BY <1>1, <1>2 DEF Timed
<1>5. cur = "OFFLINE" => ~Has(queue'.msgs \cup busy, "SYNC_TIMEOUT")
  BY <1>1, <1>2, <1>3 DEF Timed
<1>6. ~queue'.lost => Ends(queue'.msgs \cup busy)
  BY <1>1, <1>2, <1>3 DEF Timed, Ends
<1> QED
  BY <1>4, <1>5, <1>6 DEF Timed, Ends

(* The message changes from queued to being handled.                        *)
LEMMA TakeTimed ==
  ASSUME SMType, Timed, NEW m \in queue.msgs, TakeMessage(m)
  PROVE  Timed'
<1> DEFINE S == queue.msgs \ {m}
           b == [what |-> m.what, data |-> m.data]
<1>1. queue.msgs \in SUBSET Messages /\ queue \in Queues
  BY DEF SMType, TypeOK, Queues
<1>2. queue'.msgs = Renumber(S) /\ queue'.lost = queue.lost
  BY <1>1 DEF TakeMessage, Take, Queues
<1>3. /\ \A k \in S : \E l \in queue'.msgs : Like(l, k)
      /\ \A k \in queue'.msgs : \E l \in S : Like(l, k)
      /\ \A w : OneOf(S, w) => OneOf(queue'.msgs, w)
  BY <1>1, <1>2, RenumberOne
<1>4. busy = {} /\ busy' = {b} /\ UNCHANGED <<cur, outgoing>>
  BY DEF TakeMessage, smVars
<1>5. b.what = m.what /\ b.data = m.data
  OBVIOUS
<1>6. \A w : OneOf(queue.msgs, w) => OneOf(S, w)
  BY DEF OneOf
<1>7. \A k \in queue.msgs : k = m \/ k \in S
  OBVIOUS
<1>8. S \subseteq queue.msgs /\ m \notin S
  OBVIOUS
<1> HIDE DEF S, b
<1>9. ASSUME NEW w \in TimerIds
      PROVE  OneOf(queue'.msgs, w) /\ (Has(busy', w) => ~Has(queue'.msgs, w))
  <2>1. OneOf(queue.msgs, w)
    BY DEF Timed
  <2>2. OneOf(queue'.msgs, w)
    BY <1>3, <1>6, <2>1
  <2>3. ASSUME Has(busy', w), Has(queue'.msgs, w) PROVE FALSE
    <3>1. m.what = w
      BY <1>4, <1>5, <2>3 DEF Has
    <3>2. PICK l \in S : l.what = w
      BY <1>3, <2>3 DEF Has, Like
    <3> QED
      BY <1>8, <2>1, <3>1, <3>2 DEF OneOf
  <2> QED
    BY <2>2, <2>3
<1>10. \A w : Has(queue.msgs, w) <=> Has(queue'.msgs \cup busy', w)
  <2>1. ASSUME NEW w, Has(queue.msgs, w) PROVE Has(queue'.msgs \cup busy', w)
    BY <1>3, <1>4, <1>5, <1>7, <2>1 DEF Has, Like
  <2>2. ASSUME NEW w, Has(queue'.msgs \cup busy', w) PROVE Has(queue.msgs, w)
    BY <1>3, <1>4, <1>5, <1>8, <2>2 DEF Has, Like
  <2> QED
    BY <2>1, <2>2
<1>11. \A s : Leaves(queue.msgs, s) => Leaves(queue'.msgs \cup busy', s)
  BY <1>3, <1>4, <1>5, <1>7 DEF Leaves, Like
<1>12. queue.msgs \cup busy = queue.msgs
  BY <1>4
<1>13. (cur = "OFFLINE" => ~Has(queue.msgs \cup busy, "SYNC_TIMEOUT"))'
  BY <1>4, <1>10, <1>12 DEF Timed
<1>14. (~queue.lost => Ends(queue.msgs \cup busy))'
  BY <1>2, <1>4, <1>10, <1>11, <1>12 DEF Timed, Ends
<1>15. (\A w \in TimerIds : /\ OneOf(queue.msgs, w)
                            /\ Has(busy, w) => ~Has(queue.msgs, w))'
  BY <1>9
<1> QED
  BY <1>13, <1>14, <1>15 DEF Timed

\* What is left to show of a handler: its message is gone.
AfterHandler ==
  /\ \A w \in TimerIds : OneOf(queue.msgs, w)
  /\ cur = "OFFLINE" => ~Has(queue.msgs, "SYNC_TIMEOUT")
  /\ ~queue.lost => Ends(queue.msgs)

(* A handler whose message is neither a timer of the state nor a transition *)
(* and that touches no timer.                                               *)
LEMMA PlainHandler ==
  ASSUME Timed, NEW m, busy = {m}, NEW W, Apart(queue, queue', W), W \cap TimedIds = {},
         UNCHANGED <<cur, outgoing>>, m.what # "SM_TRANSITION",
         cur = "SYNCING" => m.what # "SYNC_TIMEOUT",
         cur = "INCOMING" => m.what # "RING_TIMEOUT",
         cur = "DIALING" => m.what \notin {"ASK_DTMF_TX", "DIAL_END_CHECK"}
  PROVE  AfterHandler'
<1>1. /\ \A w \in TimedIds : Has(queue.msgs, w) <=> Has(queue'.msgs, w)
      /\ \A w \in TimedIds : OneOf(queue.msgs, w) => OneOf(queue'.msgs, w)
      /\ \A s : Leaves(queue.msgs, s) => Leaves(queue'.msgs, s)
      /\ queue.lost => queue'.lost
  <2>1. \A w \in TimedIds : w \notin W
    OBVIOUS
  <2>2. "SM_TRANSITION" \notin W
    BY <2>1 DEF TimedIds
  <2> QED
    BY <2>1, <2>2, ApartKeeps
<1>2. TimerIds \subseteq TimedIds /\ {"SYNC_TIMEOUT", "RING_TIMEOUT", "ASK_DTMF_TX",
                                      "DIAL_END_CHECK"} \subseteq TimedIds
  BY DEF TimedIds, TimerIds
<1>3. /\ \A S, w : Has(S \cup {m}, w) <=> Has(S, w) \/ m.what = w
      /\ \A S, s : Leaves(S \cup {m}, s) => Leaves(S, s)
  BY DEF Has, Leaves
<1>4. \A w \in TimerIds : OneOf(queue'.msgs, w)
  BY <1>1, <1>2 DEF Timed
<1>5. cur = "OFFLINE" => ~Has(queue'.msgs, "SYNC_TIMEOUT")
  BY <1>1, <1>2, <1>3 DEF Timed
<1>6. ~queue'.lost => Ends(queue'.msgs)
  BY <1>1, <1>2, <1>3 DEF Timed, Ends
<1> QED
  BY <1>4, <1>5, <1>6 DEF AfterHandler, Ends

(* A handler that sends a transition to another state, which ends whatever  *)
(* state the phone is in; the timers it removed before are gone.            *)
LEMMA LeavingHandler ==
  ASSUME Timed, NEW s, s # cur, NEW W, Apart(queue, queue', W),
         \A w \in W : w = "SM_TRANSITION" \/ ~Has(queue'.msgs, w),
         queue'.lost \/ \E k \in queue'.msgs : k.what = "SM_TRANSITION" /\ k.data = s,
         UNCHANGED <<cur, outgoing>>
  PROVE  AfterHandler'
<1>1. "SM_TRANSITION" \notin TimerIds /\ "SYNC_TIMEOUT" # "SM_TRANSITION"
  BY DEF TimerIds
<1>2. ASSUME NEW w \in TimerIds PROVE OneOf(queue'.msgs, w)
  <2>1. CASE w \in W
    BY <1>1, <2>1 DEF Has, OneOf
  <2>2. CASE w \notin W
    BY <2>2, ApartKeeps DEF Timed
  <2> QED
    BY <2>1, <2>2
<1>3. cur = "OFFLINE" => ~Has(queue'.msgs, "SYNC_TIMEOUT")
  <2>1. CASE "SYNC_TIMEOUT" \in W
    BY <1>1, <2>1
  <2>2. CASE "SYNC_TIMEOUT" \notin W
    <3>1. Has(queue'.msgs, "SYNC_TIMEOUT") => Has(queue.msgs, "SYNC_TIMEOUT")
      BY <2>2, ApartKeeps
    <3> QED
      BY <3>1 DEF Timed, Has
  <2> QED
    BY <2>1, <2>2
<1>4. ~queue'.lost => Leaves(queue'.msgs, cur)
  BY DEF Leaves
<1>5. ~queue'.lost => Ends(queue'.msgs)
  BY <1>4 DEF Ends
<1> QED
  BY <1>2, <1>3, <1>5 DEF AfterHandler, Ends

(* A handler that sends the timer of its state, after it has removed it if  *)
(* it is one that must be single.                                           *)
LEMMA RearmHandler ==
  ASSUME Timed, NEW w, Apart(queue, queue', {w}),
         w \in TimerIds => OneOf(queue'.msgs, w),
         queue'.lost \/ Has(queue'.msgs, w),
         \/ cur = "SYNCING" /\ w = "SYNC_TIMEOUT"
         \/ cur = "INCOMING" /\ w = "RING_TIMEOUT"
         \/ cur = "DIALING" /\ w = "DIAL_END_CHECK",
         UNCHANGED <<cur, outgoing>>
  PROVE  AfterHandler'
<1>1. ASSUME NEW v \in TimerIds PROVE OneOf(queue'.msgs, v)
  <2>1. CASE v = w
    BY <2>1
  <2>2. CASE v # w
    <3>1. v \notin {w}
      BY <2>2
    <3> QED
      BY <3>1, ApartKeeps DEF Timed
  <2> QED
    BY <2>1, <2>2
<1>2. ~queue'.lost => Ends(queue'.msgs)
  BY DEF Ends
<1> QED
  BY <1>1, <1>2 DEF AfterHandler, Ends
(* The process functions pass on what will end their state.                 *)
LEMMA ProcessTimed ==
  ASSUME SMType, Timed, NEW m \in Taken, busy = {m}, m.what # "SM_TRANSITION",
         \/ OfflineProcess(m) \/ SyncingProcess(m) \/ IdleProcess(m)
         \/ DialingProcess(m) \/ IncomingProcess(m)
         \/ ConversationProcess(m) \/ MemoProcess(m)
  PROVE  AfterHandler'
<1>0. queue \in Queues /\ queue \in FiniteQueues
  BY DEF SMType, TypeOK
<1>1. ASSUME NEW s, s # cur, queue' = PostTransition(queue, s), UNCHANGED <<cur, outgoing>>
      PROVE  AfterHandler'
  <2>1. /\ Apart(queue, queue', {"SM_TRANSITION"})
        /\ queue'.lost \/ \E k \in queue'.msgs : k.what = "SM_TRANSITION" /\ k.data = s
    BY <1>0, <1>1, PostApart DEF PostTransition
  <2>2. \A w \in {"SM_TRANSITION"} : w = "SM_TRANSITION" \/ ~Has(queue'.msgs, w)
    OBVIOUS
  <2> QED
    BY <1>1, <2>1, <2>2, LeavingHandler
<1>2. ASSUME NEW w, w \notin TimedIds, NEW d,
             queue' = Post(queue, w, "NULL", d) \/ queue' = queue,
             UNCHANGED <<cur, outgoing>>,
             cur = "SYNCING" => m.what # "SYNC_TIMEOUT",
             cur = "INCOMING" => m.what # "RING_TIMEOUT",
             cur = "DIALING" => m.what \notin {"ASK_DTMF_TX", "DIAL_END_CHECK"}
      PROVE  AfterHandler'
  <2>1. Apart(queue, queue, {w})
    BY DEF Apart, Like
  <2>2. Apart(queue, queue', {w})
    BY <1>0, <1>2, <2>1, PostApart
  <2>3. {w} \cap TimedIds = {}
    BY <1>2
  <2> QED
    BY <1>2, <2>2, <2>3, PlainHandler
<1>3. "USB_ON" \notin TimedIds /\ "HANDFREE_OFF" \notin TimedIds
  BY DEF TimedIds, TimerIds
<1> USE DEF smVars
<1>4. ASSUME DefaultProcess(m), cur = "SYNCING" => m.what # "SYNC_TIMEOUT",
             cur = "INCOMING" => m.what # "RING_TIMEOUT",
             cur = "DIALING" => m.what \notin {"ASK_DTMF_TX", "DIAL_END_CHECK"}
      PROVE  AfterHandler'
  BY <1>2, <1>3, <1>4 DEF DefaultProcess
<1>5. CASE OfflineProcess(m)
  BY <1>1, <1>2, <1>3, <1>5 DEF OfflineProcess
<1>6. CASE SyncingProcess(m)
  <2>1. CASE m.what = "PHONE_STATE"
    <3>1. queue' = RearmSync(queue) /\ UNCHANGED <<cur, outgoing>> /\ cur = "SYNCING"
      BY <1>6, <2>1 DEF SyncingProcess, DefaultProcess
    <3>2. /\ Apart(queue, queue', {"SYNC_TIMEOUT"}) /\ OneOf(queue'.msgs, "SYNC_TIMEOUT")
          /\ queue'.lost \/ Has(queue'.msgs, "SYNC_TIMEOUT")
      BY <1>0, <3>1, RearmApart DEF RearmSync
    <3> QED
      BY <3>1, <3>2, RearmHandler
  <2>2. CASE m.what = "HISTORY_FINISHED"
    <3> DEFINE p == Purge(queue, "SYNC_TIMEOUT")
    <3>1. /\ queue' = PostTransition(p, "IDLE") /\ UNCHANGED <<cur, outgoing>>
          /\ cur = "SYNCING"
      BY <1>6, <2>2 DEF SyncingProcess, DefaultProcess
    <3>2. p \in Queues /\ Apart(queue, p, {"SYNC_TIMEOUT"}) /\ ~Has(p.msgs, "SYNC_TIMEOUT")
      BY <1>0, PurgeType, PurgeApart DEF FiniteQueues
    <3> HIDE DEF p
    <3>3. /\ Apart(p, queue', {"SM_TRANSITION"})
          /\ queue'.lost \/ \E k \in queue'.msgs : k.what = "SM_TRANSITION" /\ k.data = "IDLE"
      BY <3>1, <3>2, PostApart DEF PostTransition
    <3> DEFINE W == {"SYNC_TIMEOUT"} \cup {"SM_TRANSITION"}
    <3>4. Apart(queue, queue', W)
      BY <3>2, <3>3, ApartTransitive
    <3>5. ~Has(queue'.msgs, "SYNC_TIMEOUT")
      BY <3>2, <3>3, ApartKeeps
    <3>6. \A w \in W : w = "SM_TRANSITION" \/ ~Has(queue'.msgs, w)
      BY <3>5
    <3> HIDE DEF W
    <3> QED
      BY <3>1, <3>3, <3>4, <3>6, LeavingHandler
  <2>3. CASE m.what = "SYNC_TIMEOUT"
    BY <1>1, <1>6, <2>3 DEF SyncingProcess, DefaultProcess
  <2>4. CASE m.what \notin {"SYNC_TIMEOUT", "PHONE_STATE", "HISTORY_FINISHED"}
    BY <1>4, <1>6, <2>4 DEF SyncingProcess
  <2> QED
    BY <2>1, <2>2, <2>3, <2>4
<1>7. CASE IdleProcess(m)
  <2>1. CASE m.what = "HANDFREE_ON"
    <3>1. UNCHANGED <<queue, cur>> /\ cur = "IDLE"
      BY <1>7, <2>1 DEF IdleProcess, DefaultProcess
    <3> QED
      BY <3>1 DEF Timed, AfterHandler, Ends
  <2>2. CASE m.what # "HANDFREE_ON"
    BY <1>1, <1>2, <1>3, <1>4, <1>7, <2>2 DEF IdleProcess
  <2> QED
    BY <2>1, <2>2
<1>8. CASE DialingProcess(m)
  <2>1. CASE m.what = "ASK_DTMF_TX"
    <3>1. /\ queue' = Post(queue, "DIAL_END_CHECK", "NULL", DIALINGTIMEOUT)
          /\ UNCHANGED <<cur, outgoing>> /\ cur = "DIALING"
      BY <1>8, <2>1 DEF DialingProcess, DefaultProcess
    <3>2. /\ Apart(queue, queue', {"DIAL_END_CHECK"})
          /\ queue'.lost \/ Has(queue'.msgs, "DIAL_END_CHECK")
      BY <1>0, <3>1, PostApart DEF Has
    <3>3. "DIAL_END_CHECK" \notin TimerIds
      BY DEF TimerIds
    <3> QED
      BY <3>1, <3>2, <3>3, RearmHandler
  <2>2. CASE m.what = "REDIAL"
    <3>1. queue' = RearmDialEnd(queue) /\ UNCHANGED <<cur, outgoing>> /\ cur = "DIALING"
      BY <1>8, <2>2 DEF DialingProcess, DefaultProcess
    <3>2. /\ Apart(queue, queue', {"DIAL_END_CHECK"}) /\ OneOf(queue'.msgs, "DIAL_END_CHECK")
          /\ queue'.lost \/ Has(queue'.msgs, "DIAL_END_CHECK")
      BY <1>0, <3>1, RearmApart DEF RearmDialEnd
    <3> QED
      BY <3>1, <3>2, RearmHandler
  <2>3. CASE m.what \in {"DIAL_END", "DIAL_END_CHECK"}
    BY <1>1, <1>8, <2>3 DEF DialingProcess, DefaultProcess
  <2>4. CASE m.what \notin {"ASK_DTMF_TX", "DIAL_END", "DIAL_END_CHECK", "REDIAL"}
    BY <1>4, <1>8, <2>4 DEF DialingProcess
  <2> QED
    BY <2>1, <2>2, <2>3, <2>4
<1>9. CASE IncomingProcess(m)
  <2>1. CASE m.what = "RING"
    <3>1. queue' = RearmRing(queue) /\ UNCHANGED <<cur, outgoing>> /\ cur = "INCOMING"
      BY <1>9, <2>1 DEF IncomingProcess, DefaultProcess
    <3>2. /\ Apart(queue, queue', {"RING_TIMEOUT"}) /\ OneOf(queue'.msgs, "RING_TIMEOUT")
          /\ queue'.lost \/ Has(queue'.msgs, "RING_TIMEOUT")
      BY <1>0, <3>1, RearmApart DEF RearmRing
    <3> QED
      BY <3>1, <3>2, RearmHandler
  <2>2. CASE m.what \in {"HFREE_HOOK_ON", "RING_TIMEOUT", "RECORD_START"}
    BY <1>1, <1>9, <2>2 DEF IncomingProcess, DefaultProcess
  <2>3. CASE m.what \notin {"HFREE_HOOK_ON", "RING", "RING_TIMEOUT", "RECORD_START"}
    BY <1>4, <1>9, <2>3 DEF IncomingProcess
  <2> QED
    BY <2>1, <2>2, <2>3
<1>10. CASE ConversationProcess(m)
  BY <1>1, <1>2, <1>3, <1>4, <1>10 DEF ConversationProcess
<1>11. CASE MemoProcess(m)
  BY <1>1, <1>2, <1>3, <1>4, <1>11 DEF MemoProcess
<1> QED
  BY <1>5, <1>6, <1>7, <1>8, <1>9, <1>10, <1>11

(* The enter functions start what will end their state.                     *)
LEMMA EnterTimed ==
  ASSUME SMType, Chain, Timed, NEW m \in Taken, busy = {m}, TransitionTo(m)
  PROVE  AfterHandler'
<1>0. /\ queue \in Queues /\ queue \in FiniteQueues /\ m.what = "SM_TRANSITION"
      /\ cur' = m.data
  BY DEF SMType, TypeOK, TransitionTo
<1>1. CASE m.data = cur
  <2>1. UNCHANGED <<cur, queue, outgoing>>
    BY <1>1 DEF TransitionTo, SyncingEnter, IdleEnter, DialingEnter, IncomingEnter,
                ConversationEnter, MemoEnter
  <2>2. /\ \A w : w # "SM_TRANSITION" => (Has(queue.msgs \cup {m}, w) <=> Has(queue.msgs, w))
        /\ Leaves(queue.msgs \cup {m}, cur) => Leaves(queue.msgs, cur)
    BY <1>0, <1>1 DEF Has, Leaves
  <2> QED
    BY <2>1, <2>2 DEF Timed, Ends, AfterHandler
<1>2. CASE m.data \in {"IDLE", "CONVERSATION", "MEMO"} /\ m.data # cur
  <2>1. UNCHANGED queue
    BY <1>2 DEF TransitionTo, IdleEnter, ConversationEnter, MemoEnter
  <2> QED
    BY <1>0, <1>2, <2>1 DEF Timed, Ends, AfterHandler
<1>3. CASE m.data = "SYNCING" /\ m.data # cur
  <2> DEFINE r == Post(queue, "USB_ON", "NULL", USB_KEEP_ALIVE_TIMER)
  <2>1. cur = "OFFLINE"
    BY <1>0, <1>3 DEF Chain, ChainOf, Token
  <2>2. queue' = Post(r, "SYNC_TIMEOUT", "NULL", SYNCING_TIMEOUT)
    BY <1>3 DEF TransitionTo, SyncingEnter
  <2>3. r \in Queues
    BY <1>0, PostPlain, DelayAssumption DEF FiniteQueues, MsgIds, Internal
  <2>4. Apart(queue, r, {"USB_ON"})
    BY <1>0, PostApart
  <2> HIDE DEF r
  <2>5. ~Has(r.msgs, "SYNC_TIMEOUT")
    <3>1. ~Has(queue.msgs, "SYNC_TIMEOUT")
      BY <2>1 DEF Timed, Has
    <3> QED
      BY <2>4, <3>1, ApartKeeps
  <2>6. /\ Apart(r, queue', {"SYNC_TIMEOUT"}) /\ OneOf(queue'.msgs, "SYNC_TIMEOUT")
        /\ queue'.lost \/ Has(queue'.msgs, "SYNC_TIMEOUT")
    BY <2>2, <2>3, <2>5, PostApart DEF Has
  <2>7. ASSUME NEW w \in TimerIds PROVE OneOf(queue'.msgs, w)
    <3>1. CASE w = "SYNC_TIMEOUT"
      BY <2>6, <3>1
    <3>2. CASE w # "SYNC_TIMEOUT"
      <4>1. w \notin {"USB_ON"} /\ w \notin {"SYNC_TIMEOUT"}
        BY <3>2 DEF TimerIds
      <4>2. OneOf(r.msgs, w)
        BY <2>4, <4>1, ApartKeeps DEF Timed
      <4> QED
        BY <2>6, <4>1, <4>2, ApartKeeps
    <3> QED
      BY <3>1, <3>2
  <2> QED
    BY <1>0, <1>3, <2>6, <2>7 DEF Ends, AfterHandler
<1>4. CASE m.data = "DIALING" /\ m.data # cur
  <2>1. /\ queue' = IF outgoing = "number"
                      THEN Post(queue, "ASK_DTMF_TX", "number", DIAL_DELAY)
                      ELSE queue
        /\ UNCHANGED outgoing
    BY <1>4 DEF TransitionTo, DialingEnter
  <2>2. CASE outgoing # "number"
    BY <1>0, <1>4, <2>1, <2>2 DEF Timed, Ends, AfterHandler
  <2>3. CASE outgoing = "number"
    <3>1. /\ Apart(queue, queue', {"ASK_DTMF_TX"})
          /\ queue'.lost \/ Has(queue'.msgs, "ASK_DTMF_TX")
      BY <1>0, <2>1, <2>3, PostApart DEF Has
    <3>2. ASSUME NEW w \in TimerIds PROVE OneOf(queue'.msgs, w)
      <4>1. w \notin {"ASK_DTMF_TX"}
        BY DEF TimerIds
      <4> QED
        BY <3>1, <4>1, ApartKeeps DEF Timed
    <3> QED
      BY <1>0, <1>4, <3>1, <3>2 DEF Ends, AfterHandler
  <2> QED
    BY <2>2, <2>3
<1>5. CASE m.data = "INCOMING" /\ m.data # cur
  <2> DEFINE r == RearmRing(queue)
  <2>1. queue' = Post(Purge(r, "RECORD_START"), "RECORD_START", "NULL", RECORD_START_TIMEOUT)
    BY <1>5 DEF TransitionTo, IncomingEnter
  <2>2. r \in FiniteQueues
    BY <1>0, RearmType
  <2>3. /\ Apart(queue, r, {"RING_TIMEOUT"}) /\ OneOf(r.msgs, "RING_TIMEOUT")
        /\ r.lost \/ Has(r.msgs, "RING_TIMEOUT")
    BY <1>0, RearmApart DEF RearmRing
  <2> HIDE DEF r
  <2>4. Apart(r, queue', {"RECORD_START"}) /\ OneOf(queue'.msgs, "RECORD_START")
    BY <2>1, <2>2, RearmApart
  <2>5. /\ OneOf(queue'.msgs, "RING_TIMEOUT")
        /\ queue'.lost \/ Has(queue'.msgs, "RING_TIMEOUT")
    BY <2>3, <2>4, ApartKeeps
  <2>6. OneOf(queue'.msgs, "SYNC_TIMEOUT")
    <3>1. OneOf(queue.msgs, "SYNC_TIMEOUT")
      BY DEF Timed, TimerIds
    <3>2. OneOf(r.msgs, "SYNC_TIMEOUT")
      BY <2>3, <3>1, ApartKeeps
    <3> QED
      BY <2>4, <3>2, ApartKeeps
  <2>7. \A w \in TimerIds : OneOf(queue'.msgs, w)
    BY <2>4, <2>5, <2>6 DEF TimerIds
  <2> QED
    BY <1>0, <1>5, <2>5, <2>7 DEF Ends, AfterHandler
<1> QED
  BY <1>1, <1>2, <1>3, <1>4, <1>5 DEF TransitionTo

(* A handled message leaves the timers in order.                            *)
LEMMA HandledTimed ==
  ASSUME SMType, Chain, Timed, NEW m \in busy, ProcessMessage(m)
  PROVE  Timed'
<1>1. m \in Taken /\ busy = {m} /\ busy' = {}
  BY DEF SMType, TypeOK, ProcessMessage
<1>2. AfterHandler'
  BY <1>1, ProcessTimed, EnterTimed DEF ProcessMessage
<1>3. queue'.msgs \cup busy' = queue'.msgs
  BY <1>1
<1>4. ~Has(busy', "SYNC_TIMEOUT") /\ \A w \in TimerIds : ~Has(busy', w)
  BY <1>1 DEF Has
<1> QED
  BY <1>2, <1>3, <1>4 DEF AfterHandler, Timed, Ends

(* The clock changes no ids.                                                *)
LEMMA ClockTimed ==
  ASSUME SMType, Timed, ProcessTimeouts \/ Tick
  PROVE  Timed'
<1>1. PICK f : /\ f = [k \in queue.msgs |-> f[k]]
               /\ \A k \in queue.msgs : Like(f[k], k)
               /\ queue'.msgs = {f[k] : k \in queue.msgs}
               /\ queue'.lost = queue.lost
  BY ClockMaps
<1> DEFINE T == {f[k] : k \in queue.msgs}
<1>2. Apart(queue, queue', {})
  <2>1. /\ \A k \in queue.msgs : \E l \in T : Like(l, k)
        /\ \A k \in T : \E l \in queue.msgs : Like(l, k)
        /\ \A w : OneOf(queue.msgs, w) => OneOf(T, w)
    BY <1>1, MapOne
  <2>2. queue'.msgs = T /\ queue'.lost = queue.lost
    BY <1>1
  <2> HIDE DEF T
  <2> QED
    BY <2>1, <2>2 DEF Apart
<1>3. UNCHANGED <<cur, outgoing, busy>>
  BY ClockMaps
<1> QED
  BY <1>2, <1>3, ApartStep

(* Other threads post inputs only, never a timer or a transition.           *)
LEMMA SendTimed ==
  ASSUME SMType, Timed, NEW what, NEW data, Send(what, data)
  PROVE  Timed'
<1>1. {what} \cap TimedIds = {}
  BY PostsAssumption DEF Send, Inputs, DeviceEvents, AudioEvents, TimedIds, TimerIds
<1>2. Apart(queue, queue', {what})
  BY PostApart DEF Send, SMType, TypeOK
<1> QED
  BY <1>1, <1>2, ApartStep DEF Send, smVars

\* The inductive invariant of the phone state machine.
PhoneInv == SMType /\ Chain /\ Timed

(* It holds of every state of every behaviour.                              *)
THEOREM PhoneInvariant == Spec => []PhoneInv
<1>1. Init => PhoneInv
  <2> SUFFICES ASSUME Init PROVE PhoneInv
    OBVIOUS
  <2>1. SMType /\ Chain
    BY InitChain
  <2>2. Timed
    BY DEF Init, Timed, Ends, Has, OneOf
  <2> QED
    BY <2>1, <2>2 DEF PhoneInv
<1>2. PhoneInv /\ [Next]_vars => PhoneInv'
  <2> SUFFICES ASSUME SMType, Chain, Timed, [Next]_vars PROVE PhoneInv'
    BY DEF PhoneInv
  <2>1. SMType' /\ Chain'
    BY NextChain
  <2>2. Timed'
    <3>1. CASE SMStep
      BY <3>1, TakeTimed, HandledTimed DEF SMStep
    <3>2. CASE ProcessTimeouts \/ Tick
      BY <3>2, ClockTimed
    <3>3. CASE Attach \/ Hangup \/ HookOn \/ HookOff \/ PromptEnds \/ RecordingEnds
      BY <3>3, SendTimed DEF Attach, Hangup, HookOn, HookOff, PromptEnds, RecordingEnds
    <3>4. ASSUME NEW number, Dial(number) PROVE Timed'
      BY <3>4, SendTimed DEF Dial
    <3>5. ASSUME NEW event, Report(event) PROVE Timed'
      BY <3>5, SendTimed DEF Report
    <3>6. CASE AudioThreadExits \/ UNCHANGED vars
      <4>1. UNCHANGED <<cur, queue, busy, outgoing>>
        BY <3>6 DEF AudioThreadExits, vars, smVars
      <4> QED
        BY <4>1 DEF Timed, Ends
    <3> QED
      BY <3>1, <3>2, <3>3, <3>4, <3>5, <3>6 DEF Next
  <2> QED
    BY <2>1, <2>2 DEF PhoneInv
<1> QED
  BY <1>1, <1>2, PTL DEF Spec

(* SYNCING, INCOMING and DIALING with a number are never without the        *)
(* message that will end them, until a send is refused: for every pool size *)
(* and all delays, however the reports that put the timers off interleave   *)
(* with the transitions under way (upil_sm.c's process functions).          *)
THEOREM TimedStates == Spec => []TimedStatesEnd
<1>1. Timed => TimedStatesEnd
  BY DEF Timed, Ends, TimedStatesEnd, InFlight, Queued, Has, Leaves
<1> QED
  BY <1>1, PhoneInvariant, PTL DEF PhoneInv

(* There is never a second SYNC_TIMEOUT, RING_TIMEOUT or RECORD_START.      *)
THEOREM SingleTimers == Spec => []OneTimerEach
<1>1. Timed => OneTimerEach
  BY DEF Timed, OneTimerEach, AtMostOne, Queued, Has, OneOf, TimerIds
<1> QED
  BY <1>1, PhoneInvariant, PTL DEF PhoneInv
=============================================================================
