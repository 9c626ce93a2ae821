------------------------------- MODULE AtTok --------------------------------
(***************************************************************************)
(* The tokenizer of AT responses, ril-telephone/at_tok.c, with the parser  *)
(* of +CLCC lines built on it and the daemon's side that writes them.      *)
(*                                                                         *)
(* A line is a sequence of symbols: its prefix, a separator, white space,  *)
(* a digit of a telephone number or a whole number.  A char** is a cursor: *)
(* NULL, or what is left of the line up to its NUL byte.                   *)
(***************************************************************************)
EXTENDS Integers, Sequences, SequencesExt

NULL == [null |-> TRUE, left |-> <<>>]
At(s) == [null |-> FALSE, left |-> s]

Digits == {"0", "1", "2", "3", "4", "5", "6", "7", "8", "9"}
Numbers == Digits \cup {"129"}
Value == [n \in Numbers |->
            CASE n = "0" -> 0 [] n = "1" -> 1 [] n = "2" -> 2 [] n = "3" -> 3 [] n = "4" -> 4
              [] n = "5" -> 5 [] n = "6" -> 6 [] n = "7" -> 7 [] n = "8" -> 8 [] n = "9" -> 9
              [] OTHER -> 129]

\* fsk_to_string of tp_protocol.c: the caller's number in half bytes, up to the first
\* that is no digit.
fsk_to_string(cid) ==
  LET n == CHOOSE i \in DOMAIN cid : cid[i] > 9 /\ \A j \in 1..(i - 1) : cid[j] <= 9
  IN  [j \in 1..(n - 1) |-> CHOOSE d \in Digits : Value[d] = cid[j]]

\* Where one of the symbols C first is in s, Len(s) + 1 if it is not.
FirstAt(s, C) ==
  IF \E i \in DOMAIN s : s[i] \in C
  THEN CHOOSE i \in DOMAIN s : s[i] \in C /\ \A j \in 1..(i - 1) : s[j] \notin C
  ELSE Len(s) + 1

\* Where s has its first symbol that is not white space.
FirstText(s) == FirstAt(s, ToSet(s) \ {"blank"})

From(s, i) == SubSeq(s, i, Len(s))

\* strStartsWith: the loop ends at the end of either string.
strStartsWith(line, prefix) == IsPrefix(prefix, line)

-----------------------------------------------------------------------------
(* at_tok.c.                                                               *)

\* at_tok_start; the cursor is NULL where it returns -1.
at_tok_start(cur) ==
  IF cur.null \/ FirstAt(cur.left, {"colon"}) > Len(cur.left) THEN NULL
  ELSE At(From(cur.left, FirstAt(cur.left, {"colon"}) + 1))

skipWhiteSpace(cur) ==
  IF cur.null THEN cur ELSE At(From(cur.left, FirstText(cur.left)))

skipNextComma(cur) ==
  IF cur.null THEN cur ELSE At(From(cur.left, FirstAt(cur.left, {"comma"}) + 1))

\* strsep (external): the token, and the cursor behind the separator or NULL.
strsep(cur, C) ==
  LET i == FirstAt(cur.left, C)
  IN  [tok |-> SubSeq(cur.left, 1, i - 1),
       cur |-> IF i > Len(cur.left) THEN NULL ELSE At(From(cur.left, i + 1))]

\* nextTok: the token (NULL's is no token) and the new cursor.
nextTok(cur) ==
  LET c == skipWhiteSpace(cur)
      quoted == strsep(At(Tail(c.left)), {"quote"})
  IN  CASE c.null -> [none |-> TRUE, tok |-> <<>>, cur |-> c]
        [] ~c.null /\ c.left # <<>> /\ Head(c.left) = "quote" ->
             [none |-> FALSE, tok |-> quoted.tok, cur |-> skipNextComma(quoted.cur)]
        [] OTHER ->
             [none |-> FALSE, tok |-> strsep(c, {"comma"}).tok, cur |-> strsep(c, {"comma"}).cur]

\* at_tok_nextint_base: strtol skips white space and reads the number that follows.
IntIn(t) ==
  LET i == FirstText(t.tok)
      ok == ~t.none /\ i <= Len(t.tok) /\ t.tok[i] \in Numbers
  IN  [ok |-> ok, val |-> IF ok THEN Value[t.tok[i]] ELSE 0, cur |-> t.cur]
at_tok_nextint(cur) == IntIn(nextTok(cur))

BoolIn(n) == [ok |-> n.ok /\ n.val \in {0, 1}, val |-> n.val, cur |-> n.cur]
at_tok_nextbool(cur) == BoolIn(at_tok_nextint(cur))

StrIn(t) == [ok |-> ~t.none, val |-> t.tok, cur |-> t.cur]
at_tok_nextstr(cur) == StrIn(nextTok(cur))

at_tok_hasmore(cur) == ~cur.null /\ cur.left # <<>>

-----------------------------------------------------------------------------
(* Lines of the AT channel that are made of tokens.                        *)

\* at_get_cme_error, on a final response that is an error.
at_get_cme_error(line) ==
  LET n == at_tok_nextint(at_tok_start(At(line)))
  IN  IF ~strStartsWith(line, <<"+CME ERROR", "colon">>) \/ ~n.ok THEN -1 ELSE n.val

\* clccStateToRILState.
CallState(s) ==
  IF s \in 0..5 THEN <<"ACTIVE", "HOLDING", "DIALING", "ALERTING", "INCOMING", "WAITING">>[s + 1]
  ELSE "invalid"

\* Variant: the kind of call is not read.
callFromCLCCNoMode(line) ==
  LET index  == at_tok_nextint(at_tok_start(At(line)))
      isMT   == at_tok_nextbool(index.cur)
      state  == at_tok_nextint(isMT.cur)
      isMpty == at_tok_nextbool(state.cur)
      number == at_tok_nextstr(isMpty.cur)
  IN  [ok |-> index.ok /\ isMT.ok /\ state.ok /\ isMpty.ok, isMT |-> isMT.val,
       state |-> CallState(state.val), number |-> number.val]

\* callFromCLCCLine: each field is read where the one before it ended, and the first
\* that cannot be read makes the line invalid; a NULL number is tolerated.  number
\* <<>> is NULL, the strspn of digits included.
callFromCLCCLine(line) ==
  LET index  == at_tok_nextint(at_tok_start(At(line)))
      isMT   == at_tok_nextbool(index.cur)
      state  == at_tok_nextint(isMT.cur)
      mode   == at_tok_nextint(state.cur)
      isMpty == at_tok_nextbool(mode.cur)
      more   == at_tok_hasmore(isMpty.cur)
      number == at_tok_nextstr(isMpty.cur)
      toa    == at_tok_nextint(number.cur)
  IN  [ok |-> /\ index.ok /\ isMT.ok /\ state.ok /\ CallState(state.val) # "invalid"
              /\ mode.ok /\ isMpty.ok
              /\ more /\ number.ok => toa.ok,
       isMT |-> isMT.val,
       state |-> CallState(state.val),
       number |-> IF more /\ number.val # <<>> /\ Head(number.val) \in Numbers
                  THEN number.val ELSE <<>>]

\* The daemon's +CLCC line, processCommandBuffer.
ClccLine(dir, state, number) ==
  <<"+CLCC", "colon", "blank", "1", "comma">> \o <<dir, "comma">> \o <<state, "comma">>
  \o <<"0", "comma", "0", "comma", "quote">> \o number \o <<"quote", "comma", "129">>
=============================================================================
