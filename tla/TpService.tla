----------------------------- MODULE TpService ------------------------------
(***************************************************************************)
(* What tp_protocol.c promises to the state machine: requests and the      *)
(* telephone's answers take turns, a line at a time, and every report that *)
(* the telephone sends in order is handed over once, as it was sent and    *)
(* before any later one.  When the telephone begins a report inside        *)
(* another, both are doubtful, and so are those that follow until an       *)
(* answer, or a line of another protocol, ends them: a doubtful report may *)
(* be lost or hold bytes of another, but costs no report that is not.      *)
(* TpLink implements this specification (lines, the PDU buffer and the     *)
(* condition variable are not visible here).                               *)
(***************************************************************************)
EXTENDS Integers, Sequences

CONSTANT Reports  \* the reports of the telephone, numbered as they are sent

VARIABLES
  out,       \* the line of a request: "none", "asked" or "answered"
  torn,      \* a report was begun inside another, and none has been ended since
  due,       \* reports sent in order that are still to be handed over
  doubt,     \* doubtful reports
  delivered  \* the reports handed over, with whether their bytes are their own

tpVars == <<out, torn, due, doubt, delivered>>

Init ==
  /\ out = "none"
  /\ ~torn
  /\ due = {}
  /\ doubt = {}
  /\ delivered = <<>>

Delivered == {delivered[i].id : i \in 1..Len(delivered)}

\* The telephone has not sent the report, nor a later one.
Later(r) == \A s \in due \cup doubt \cup Delivered : s < r

\* A line of a request is written.
Ask ==
  /\ out = "none"
  /\ out' = "asked"
  /\ UNCHANGED <<torn, due, doubt, delivered>>

\* The telephone answers it, and may complete a report with the answer.
Answer(S) ==
  /\ out = "asked"
  /\ \A r \in S : Later(r)
  /\ out' = "answered"
  /\ ~torn'
  /\ due' = due \cup S
  /\ UNCHANGED <<doubt, delivered>>

\* The telephone completes a report.
Report(r) ==
  /\ ~torn
  /\ Later(r)
  /\ due' = due \cup {r}
  /\ UNCHANGED <<out, torn, doubt, delivered>>

\* The telephone begins a report inside another one.
Tear(q, r) ==
  /\ q < r
  /\ Later(r)
  /\ IF torn THEN q \in doubt ELSE Later(q)
  /\ torn'
  /\ doubt' = doubt \cup {q, r}
  /\ UNCHANGED <<out, due, delivered>>

\* A line that is not of the protocol.
Mend ==
  /\ ~torn'
  /\ UNCHANGED <<out, due, doubt, delivered>>

\* The answer is received.
Reply ==
  /\ out = "answered"
  /\ out' = "none"
  /\ UNCHANGED <<torn, due, doubt, delivered>>

\* The oldest report that is due is handed over, perhaps with the answer.
Deliver(r) ==
  /\ r \in due
  /\ \A s \in due : r <= s
  /\ \A s \in Delivered : s < r
  /\ due' = due \ {r}
  /\ delivered' = Append(delivered, [id |-> r, bytes |-> "own"])
  /\ out' = out \/ (out = "answered" /\ out' = "none")
  /\ UNCHANGED <<torn, doubt>>

\* A doubtful report is handed over, in its turn.
DeliverDoubtful(r, bytes) ==
  /\ r \in doubt
  /\ \A s \in due : r < s
  /\ \A s \in Delivered : s < r
  /\ delivered' = Append(delivered, [id |-> r, bytes |-> bytes])
  /\ UNCHANGED <<out, torn, due, doubt>>

Next ==
  \/ Ask
  \/ Answer({}) \/ \E r \in Reports : Answer({r})
  \/ \E r \in Reports : Report(r)
  \/ \E q, r \in Reports : Tear(q, r)
  \/ Mend
  \/ Reply
  \/ \E r \in Reports : Deliver(r)
  \/ \E r \in Reports, bytes \in {"own", "mixed"} : DeliverDoubtful(r, bytes)

Spec == Init /\ [][Next]_tpVars
=============================================================================
