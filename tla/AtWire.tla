------------------------------- MODULE AtWire -------------------------------
(***************************************************************************)
(* The local stream socket between the RIL driver (atchannel.c) and the    *)
(* daemon (upil_ril.c).  A stream keeps no boundaries between writes: a    *)
(* read() or recv() takes everything that is there.  The driver writes a   *)
(* command and its "\r" with two write()s; the daemon writes a line and,   *)
(* after every line but "+CLCC:", a NUL byte with it.                      *)
(*                                                                         *)
(* Each command and each line carries a mark that no program sees: an      *)
(* answer is "own" while the command it answers is the one the driver      *)
(* waits for and "stray" once the driver has given that command up; a line *)
(* that answers nothing is "news".                                         *)
(***************************************************************************)
EXTENDS Naturals, Sequences, SequencesExt

VARIABLES
  link,  \* "down", "up", "eof" (the daemon's end is gone) or "gone" (the driver's)
  down,  \* commands and "\r"s on their way to the daemon
  up     \* lines on their way to the driver

wire == <<link, down, up>>

Marks == {"own", "stray", "news"}
Commands == {"ATE0", "ATC", "ATD", "CHLD", "ATA", "CLCC", "ATH"}
Text(c) == [k |-> "text", cmd |-> c, mark |-> "own"]
CR == [k |-> "cr", cmd |-> "none", mark |-> "own"]
Line(t, m) == [t |-> t, mark |-> m]
ClccTexts == {"+CLCC:0", "+CLCC:2", "+CLCC:4"}  \* with the state of the call
LineTexts == {"OK", "ERROR", "RING", "NO_CARRIER"} \cup ClccTexts

Items == [k : {"text", "cr"}, cmd : Commands \cup {"none"}, mark : Marks]
Lines == [t : LineTexts, mark : Marks]

\* process_reply writes the reply without, the result with its NUL.
EndsInNul(l) == l.t \notin ClccTexts

WireTypeOK ==
  /\ link \in {"down", "up", "eof", "gone"}
  /\ down \in Seq(Items)
  /\ up \in Seq(Lines)

\* The mark of what is still owed to a command the driver no longer waits for.
Stray(m) == IF m = "own" THEN "stray" ELSE m
StrayAll(s) == [i \in DOMAIN s |-> [s[i] EXCEPT !.mark = Stray(@)]]
=============================================================================
