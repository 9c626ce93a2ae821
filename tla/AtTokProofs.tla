---------------------------- MODULE AtTokProofs -----------------------------
(***************************************************************************)
(* Proofs about AtTok: what the tokenizer of at_tok.c returns at a place   *)
(* of a line, and that callFromCLCCLine reads back the call that the       *)
(* daemon wrote, for every telephone number.                               *)
(***************************************************************************)
EXTENDS AtTok, SequenceTheorems, TLAPS

-----------------------------------------------------------------------------
(* Places of a line.                                                       *)

(* What is left of a line from its place k on, and from a place behind that. *)
LEMMA FromProperties ==
  ASSUME NEW S, NEW s \in Seq(S), NEW k \in 1..(Len(s) + 1)
  PROVE  /\ From(s, k) \in Seq(S)
         /\ Len(From(s, k)) = Len(s) - k + 1
         /\ \A i \in 1..(Len(s) - k + 1) : From(s, k)[i] = s[k + i - 1]
<1>1. Len(s) \in Nat /\ k \in Int /\ k <= Len(s) + 1 /\ k >= 1
  OBVIOUS
<1>2. \A i \in k..Len(s) : s[i] \in S
  BY <1>1
<1> QED
  BY <1>1, <1>2, SubSeqProperties DEF From

(* What is left from a place of a line on starts with the symbol at that place. *)
LEMMA FromHead ==
  ASSUME NEW S, NEW s \in Seq(S), NEW k \in 1..Len(s)
  PROVE  From(s, k) # <<>> /\ Head(From(s, k)) = s[k]
<1>0. Len(s) \in Nat /\ k \in Nat /\ k <= Len(s) /\ k \in 1..(Len(s) + 1)
  OBVIOUS
<1>1. /\ From(s, k) \in Seq(S) /\ Len(From(s, k)) = Len(s) - k + 1
      /\ \A i \in 1..(Len(s) - k + 1) : From(s, k)[i] = s[k + i - 1]
  BY <1>0, FromProperties
<1> QED
  BY <1>0, <1>1

(* The rest of a rest is the rest from the later place on. *)
LEMMA FromFrom ==
  ASSUME NEW S, NEW s \in Seq(S), NEW k \in 1..(Len(s) + 1), NEW j \in 1..(Len(s) - k + 2)
  PROVE  From(From(s, k), j) = From(s, k + j - 1)
<1> DEFINE r == From(s, k)
<1>1. /\ r \in Seq(S) /\ Len(r) = Len(s) - k + 1
      /\ \A i \in 1..(Len(s) - k + 1) : r[i] = s[k + i - 1]
  BY FromProperties
<1>2. Len(s) \in Nat /\ k \in Nat /\ j \in Nat
  OBVIOUS
<1> HIDE DEF r
<1>3. j \in 1..(Len(r) + 1) /\ k + j - 1 \in 1..(Len(s) + 1)
  BY <1>1, <1>2
<1>4. /\ From(r, j) \in Seq(S) /\ Len(From(r, j)) = Len(s) - k - j + 2
      /\ \A i \in 1..(Len(s) - k - j + 2) : From(r, j)[i] = r[j + i - 1]
  <2>1. /\ From(r, j) \in Seq(S) /\ Len(From(r, j)) = Len(r) - j + 1
        /\ \A i \in 1..(Len(r) - j + 1) : From(r, j)[i] = r[j + i - 1]
    BY <1>1, <1>3, FromProperties, ZenonT(30)
  <2> QED
    BY <2>1, <1>1, <1>2
<1>5. /\ From(s, k + j - 1) \in Seq(S) /\ Len(From(s, k + j - 1)) = Len(s) - k - j + 2
      /\ \A i \in 1..(Len(s) - k - j + 2) : From(s, k + j - 1)[i] = s[k + j + i - 2]
  <2>1. /\ From(s, k + j - 1) \in Seq(S)
        /\ Len(From(s, k + j - 1)) = Len(s) - (k + j - 1) + 1
        /\ \A i \in 1..(Len(s) - (k + j - 1) + 1) :
             From(s, k + j - 1)[i] = s[(k + j - 1) + i - 1]
    BY <1>3, FromProperties
  <2> QED
    BY <2>1, <1>2
<1>6. \A i \in 1..(Len(s) - k - j + 2) : r[j + i - 1] = s[k + j + i - 2]
  BY <1>1, <1>2
<1>7. /\ Len(From(r, j)) = Len(From(s, k + j - 1))
      /\ \A i \in 1..Len(From(r, j)) : From(r, j)[i] = From(s, k + j - 1)[i]
  BY <1>2, <1>4, <1>5, <1>6
<1>8. From(r, j) = From(s, k + j - 1)
  BY <1>4, <1>5, <1>7, SeqEqual
<1> QED
  BY <1>8 DEF r

(* FirstAt is the place of a symbol of C that has none before it. *)
LEMMA FirstIs ==
  ASSUME NEW S, NEW s \in Seq(S), NEW C, NEW m \in 1..Len(s),
         s[m] \in C, \A j \in 1..(m - 1) : s[j] \notin C
  PROVE  FirstAt(s, C) = m
<1>1. DOMAIN s = 1..Len(s) /\ Len(s) \in Nat
  OBVIOUS
<1>2. \A i \in DOMAIN s : s[i] \in C /\ (\A j \in 1..(i - 1) : s[j] \notin C) => i = m
  BY <1>1
<1> QED
  BY <1>1, <1>2 DEF FirstAt

(* The first symbol of C in what is left of a line. *)
LEMMA FirstFrom ==
  ASSUME NEW S, NEW s \in Seq(S), NEW C, NEW k \in 1..Len(s), NEW m \in k..Len(s),
         s[m] \in C, \A j \in k..(m - 1) : s[j] \notin C
  PROVE  FirstAt(From(s, k), C) = m - k + 1
<1> DEFINE r == From(s, k)
<1>0. Len(s) \in Nat /\ k \in Nat /\ m \in Nat /\ k >= 1 /\ k <= m /\ m <= Len(s)
  OBVIOUS
<1>1. /\ r \in Seq(S) /\ Len(r) = Len(s) - k + 1
      /\ \A i \in 1..(Len(s) - k + 1) : r[i] = s[k + i - 1]
  BY FromProperties
<1> HIDE DEF r
<1>2. m - k + 1 \in 1..Len(r) /\ r[m - k + 1] = s[m]
  BY <1>0, <1>1
<1>3. \A j \in 1..(m - k) : r[j] = s[k + j - 1] /\ k + j - 1 \in k..(m - 1)
  BY <1>0, <1>1
<1>4. \A j \in 1..((m - k + 1) - 1) : r[j] \notin C
  BY <1>0, <1>3
<1>5. FirstAt(r, C) = m - k + 1
  BY <1>1, <1>2, <1>4, FirstIs
<1> QED
  BY <1>5 DEF r

(* A line has no symbol of C from its place k on. *)
LEMMA FirstNone ==
  ASSUME NEW S, NEW s \in Seq(S), NEW C, NEW k \in 1..(Len(s) + 1),
         \A j \in k..Len(s) : s[j] \notin C
  PROVE  FirstAt(From(s, k), C) = Len(s) - k + 2
<1> DEFINE r == From(s, k)
<1>0. Len(s) \in Nat /\ k \in Nat /\ k >= 1 /\ k <= Len(s) + 1
  OBVIOUS
<1>1. /\ r \in Seq(S) /\ Len(r) = Len(s) - k + 1
      /\ \A i \in 1..(Len(s) - k + 1) : r[i] = s[k + i - 1]
  BY FromProperties
<1> HIDE DEF r
<1>2. \A i \in DOMAIN r : r[i] \notin C
  <2>1. \A i \in 1..(Len(s) - k + 1) : r[i] = s[k + i - 1] /\ k + i - 1 \in k..Len(s)
    BY <1>0, <1>1
  <2>2. DOMAIN r = 1..(Len(s) - k + 1)
    BY <1>1
  <2> QED
    BY <2>1, <2>2
<1>3. FirstAt(r, C) = Len(s) - k + 2
  BY <1>0, <1>1, <1>2 DEF FirstAt
<1> QED
  BY <1>3 DEF r

(* What a token between two places is. *)
LEMMA TokenOf ==
  ASSUME NEW S, NEW s \in Seq(S), NEW k \in 1..(Len(s) + 1), NEW m \in k..(Len(s) + 1)
  PROVE  /\ SubSeq(From(s, k), 1, m - k) \in Seq(S)
         /\ Len(SubSeq(From(s, k), 1, m - k)) = m - k
         /\ \A i \in 1..(m - k) : SubSeq(From(s, k), 1, m - k)[i] = s[k + i - 1]
<1> DEFINE r == From(s, k)
<1>0. Len(s) \in Nat /\ k \in Nat /\ m \in Nat /\ k >= 1 /\ k <= m /\ m <= Len(s) + 1
  OBVIOUS
<1>1. /\ r \in Seq(S) /\ Len(r) = Len(s) - k + 1
      /\ \A i \in 1..(Len(s) - k + 1) : r[i] = s[k + i - 1]
  BY FromProperties
<1> HIDE DEF r
<1>2. \A i \in 1..(m - k) : r[i] \in S
  BY <1>0, <1>1
<1>3. /\ SubSeq(r, 1, m - k) \in Seq(S)
      /\ Len(SubSeq(r, 1, m - k)) = IF 1 <= m - k THEN (m - k) - 1 + 1 ELSE 0
      /\ \A i \in 1..((m - k) - 1 + 1) : SubSeq(r, 1, m - k)[i] = r[1 + i - 1]
  <2>1. 1 \in Int /\ m - k \in Int
    BY <1>0
  <2> QED
    BY <2>1, <1>2, SubSeqProperties
<1>4. \A i \in 1..(m - k) : r[1 + i - 1] = s[k + i - 1]
  BY <1>0, <1>1
<1>5. /\ SubSeq(r, 1, m - k) \in Seq(S) /\ Len(SubSeq(r, 1, m - k)) = m - k
      /\ \A i \in 1..(m - k) : SubSeq(r, 1, m - k)[i] = s[k + i - 1]
  BY <1>0, <1>3, <1>4
<1> QED
  BY <1>5 DEF r
-----------------------------------------------------------------------------
(* The tokenizer at a place of a line.                                     *)

(* skipWhiteSpace goes from place k to the first place m that is not blank. *)
LEMMA SkipsBlanks ==
  ASSUME NEW S, NEW s \in Seq(S), NEW k \in 1..Len(s), NEW m \in k..Len(s),
         s[m] # "blank", \A j \in k..(m - 1) : s[j] = "blank"
  PROVE  skipWhiteSpace(At(From(s, k))) = At(From(s, m))
<1> DEFINE r == From(s, k)
<1>0. /\ Len(s) \in Nat /\ k \in Nat /\ m \in Nat /\ k >= 1 /\ k <= m /\ m <= Len(s)
      /\ k \in 1..(Len(s) + 1)
  OBVIOUS
<1>1. /\ r \in Seq(S) /\ Len(r) = Len(s) - k + 1
      /\ \A i \in 1..(Len(s) - k + 1) : r[i] = s[k + i - 1]
  BY <1>0, FromProperties
<1>2. s[m] \in ToSet(r)
  <2>1. m - k + 1 \in 1..Len(r) /\ r[m - k + 1] = s[m]
    BY <1>0, <1>1
  <2>2. m - k + 1 \in DOMAIN r
    BY <1>1, <2>1
  <2> QED
    BY <2>1, <2>2 DEF ToSet
<1>3. FirstText(r) = m - k + 1
  <2> DEFINE C == ToSet(r) \ {"blank"}
  <2>1. s[m] \in C /\ \A j \in k..(m - 1) : s[j] \notin C
    BY <1>2
  <2> HIDE DEF C
  <2>2. FirstAt(From(s, k), C) = m - k + 1
    BY <2>1, FirstFrom
  <2> QED
    BY <2>2 DEF FirstText, C
<1>4. From(r, m - k + 1) = From(s, m)
  <2>1. m - k + 1 \in 1..(Len(s) - k + 2) /\ k + (m - k + 1) - 1 = m
    BY <1>0
  <2>2. From(From(s, k), m - k + 1) = From(s, k + (m - k + 1) - 1)
    BY <1>0, <2>1, FromFrom
  <2> QED
    BY <2>1, <2>2
<1>5. At(r).null = FALSE /\ At(r).left = r
  BY DEF At
<1> QED
  BY <1>3, <1>4, <1>5 DEF skipWhiteSpace

(* strsep from place k to the first separator, at place m. *)
LEMMA StrsepAt ==
  ASSUME NEW S, NEW s \in Seq(S), NEW C, NEW k \in 1..Len(s), NEW m \in k..Len(s),
         s[m] \in C, \A j \in k..(m - 1) : s[j] \notin C
  PROVE  /\ strsep(At(From(s, k)), C).tok = SubSeq(From(s, k), 1, m - k)
         /\ strsep(At(From(s, k)), C).cur = At(From(s, m + 1))
<1> DEFINE r == From(s, k)
<1>0. /\ Len(s) \in Nat /\ k \in Nat /\ m \in Nat /\ k >= 1 /\ k <= m /\ m <= Len(s)
      /\ k \in 1..(Len(s) + 1)
  OBVIOUS
<1>1. r \in Seq(S) /\ Len(r) = Len(s) - k + 1
  BY <1>0, FromProperties
<1>2. FirstAt(r, C) = m - k + 1
  BY FirstFrom
<1>3. From(r, m - k + 2) = From(s, m + 1)
  <2>1. m - k + 2 \in 1..(Len(s) - k + 2) /\ k + (m - k + 2) - 1 = m + 1
    BY <1>0
  <2>2. From(From(s, k), m - k + 2) = From(s, k + (m - k + 2) - 1)
    BY <1>0, <2>1, FromFrom
  <2> QED
    BY <2>1, <2>2
<1>4. At(r).left = r
  BY DEF At
<1> HIDE DEF r
<1>5. /\ strsep(At(r), C).tok = SubSeq(r, 1, (m - k + 1) - 1)
      /\ strsep(At(r), C).cur = IF m - k + 1 > Len(r) THEN NULL ELSE At(From(r, (m - k + 1) + 1))
  BY <1>2, <1>4 DEF strsep
<1>6. (m - k + 1) - 1 = m - k /\ (m - k + 1) + 1 = m - k + 2 /\ ~(m - k + 1 > Len(r))
  BY <1>0, <1>1
<1> QED
  BY <1>3, <1>5, <1>6 DEF r

(* strsep where no separator is left: the token is the rest and the cursor NULL. *)
LEMMA StrsepEnd ==
  ASSUME NEW S, NEW s \in Seq(S), NEW C, NEW k \in 1..Len(s),
         \A j \in k..Len(s) : s[j] \notin C
  PROVE  /\ strsep(At(From(s, k)), C).tok = SubSeq(From(s, k), 1, Len(s) + 1 - k)
         /\ strsep(At(From(s, k)), C).cur = NULL
<1> DEFINE r == From(s, k)
<1>0. Len(s) \in Nat /\ k \in Nat /\ k >= 1 /\ k <= Len(s) /\ k \in 1..(Len(s) + 1)
  OBVIOUS
<1>1. r \in Seq(S) /\ Len(r) = Len(s) - k + 1
  BY <1>0, FromProperties
<1>2. FirstAt(r, C) = Len(s) - k + 2
  BY <1>0, FirstNone
<1>4. At(r).left = r
  BY DEF At
<1> HIDE DEF r
<1>5. /\ strsep(At(r), C).tok = SubSeq(r, 1, (Len(s) - k + 2) - 1)
      /\ strsep(At(r), C).cur = IF Len(s) - k + 2 > Len(r) THEN NULL
                                ELSE At(From(r, (Len(s) - k + 2) + 1))
  BY <1>2, <1>4 DEF strsep
<1>6. (Len(s) - k + 2) - 1 = Len(s) + 1 - k /\ Len(s) - k + 2 > Len(r)
  BY <1>0, <1>1
<1> QED
  BY <1>5, <1>6 DEF r

(* A token of one symbol. *)
LEMMA OneSymbol ==
  ASSUME NEW S, NEW s \in Seq(S), NEW k \in 1..Len(s)
  PROVE  SubSeq(From(s, k), 1, 1) = <<s[k]>>
<1>0. Len(s) \in Nat /\ k \in Nat /\ k \in 1..(Len(s) + 1) /\ k + 1 \in k..(Len(s) + 1)
  OBVIOUS
<1>1. (k + 1) - k = 1 /\ s[k] \in S
  BY <1>0
<1>2. /\ SubSeq(From(s, k), 1, 1) \in Seq(S) /\ Len(SubSeq(From(s, k), 1, 1)) = 1
      /\ \A i \in 1..1 : SubSeq(From(s, k), 1, 1)[i] = s[k + i - 1]
  <2>1. /\ SubSeq(From(s, k), 1, (k + 1) - k) \in Seq(S)
        /\ Len(SubSeq(From(s, k), 1, (k + 1) - k)) = (k + 1) - k
        /\ \A i \in 1..((k + 1) - k) : SubSeq(From(s, k), 1, (k + 1) - k)[i] = s[k + i - 1]
    BY <1>0, TokenOf
  <2> QED
    BY <2>1, <1>1
<1>3. SubSeq(From(s, k), 1, 1)[1] = s[k]
  BY <1>0, <1>2
<1>4. <<s[k]>> \in Seq(S) /\ Len(<<s[k]>>) = 1 /\ <<s[k]>>[1] = s[k]
  BY <1>1
<1>5. \A i \in 1..Len(SubSeq(From(s, k), 1, 1)) :
        SubSeq(From(s, k), 1, 1)[i] = <<s[k]>>[i]
  <2>1. \A i \in 1..1 : i = 1
    OBVIOUS
  <2> QED
    BY <1>2, <1>3, <1>4, <2>1
<1> QED
  BY <1>2, <1>4, <1>5, SeqEqual

(* nextTok at a number that a comma follows, white space before it skipped. *)
LEMMA NextNumber ==
  ASSUME NEW S, NEW s \in Seq(S), NEW k \in 1..Len(s), NEW m \in k..(Len(s) - 1),
         \A j \in k..(m - 1) : s[j] = "blank", s[m] \in Numbers, s[m + 1] = "comma"
  PROVE  nextTok(At(From(s, k))) = [none |-> FALSE, tok |-> <<s[m]>>, cur |-> At(From(s, m + 2))]
<1> DEFINE c == At(From(s, m))
<1>0. /\ Len(s) \in Nat /\ k \in Nat /\ m \in Nat /\ k <= m /\ m + 1 <= Len(s)
      /\ m \in k..Len(s) /\ m \in 1..Len(s) /\ m + 1 \in m..Len(s) /\ m \in 1..(Len(s) + 1)
  OBVIOUS
<1>1. s[m] # "blank" /\ s[m] # "quote" /\ s[m] # "comma"
  BY DEF Numbers, Digits
<1>2. skipWhiteSpace(At(From(s, k))) = c
  BY <1>0, <1>1, SkipsBlanks
<1>3. c.null = FALSE /\ c.left = From(s, m) /\ c.left # <<>> /\ Head(c.left) = s[m]
  BY <1>0, FromHead DEF At
<1>4. /\ strsep(c, {"comma"}).tok = <<s[m]>>
      /\ strsep(c, {"comma"}).cur = At(From(s, m + 2))
  <2>1. \A j \in m..((m + 1) - 1) : s[j] \notin {"comma"}
    BY <1>0, <1>1
  <2>2. /\ strsep(c, {"comma"}).tok = SubSeq(From(s, m), 1, (m + 1) - m)
        /\ strsep(c, {"comma"}).cur = At(From(s, (m + 1) + 1))
    BY <1>0, <2>1, StrsepAt
  <2>3. (m + 1) - m = 1 /\ (m + 1) + 1 = m + 2
    BY <1>0
  <2> QED
    BY <1>0, <2>2, <2>3, OneSymbol
<1> HIDE DEF c
<1> QED
  BY <1>1, <1>2, <1>3, <1>4 DEF nextTok

(* nextTok at the number that ends a line leaves no cursor. *)
LEMMA LastNumber ==
  ASSUME NEW S, NEW s \in Seq(S), s # <<>>, s[Len(s)] \in Numbers
  PROVE  nextTok(At(From(s, Len(s)))) = [none |-> FALSE, tok |-> <<s[Len(s)]>>, cur |-> NULL]
<1> DEFINE m == Len(s)
<1> DEFINE c == At(From(s, m))
<1>0. m \in Nat /\ m > 0 /\ m \in 1..Len(s) /\ m \in m..Len(s) /\ m \in 1..(Len(s) + 1)
  BY EmptySeq
<1>1. s[m] # "blank" /\ s[m] # "quote" /\ s[m] # "comma"
  BY DEF Numbers, Digits
<1>2. skipWhiteSpace(c) = c
  <2>1. \A j \in m..(m - 1) : s[j] = "blank"
    BY <1>0
  <2> QED
    BY <1>0, <1>1, <2>1, SkipsBlanks
<1>3. c.null = FALSE /\ c.left = From(s, m) /\ c.left # <<>> /\ Head(c.left) = s[m]
  BY <1>0, FromHead DEF At
<1>4. strsep(c, {"comma"}).tok = <<s[m]>> /\ strsep(c, {"comma"}).cur = NULL
  <2>1. \A j \in m..Len(s) : s[j] \notin {"comma"}
    BY <1>0, <1>1
  <2>2. /\ strsep(c, {"comma"}).tok = SubSeq(From(s, m), 1, Len(s) + 1 - m)
        /\ strsep(c, {"comma"}).cur = NULL
    BY <1>0, <2>1, StrsepEnd
  <2>3. Len(s) + 1 - m = 1
    BY <1>0
  <2> QED
    BY <1>0, <2>2, <2>3, OneSymbol
<1> HIDE DEF c
<1>5. nextTok(c) = [none |-> FALSE, tok |-> <<s[m]>>, cur |-> NULL]
  BY <1>1, <1>2, <1>3, <1>4 DEF nextTok
<1> QED
  BY <1>5 DEF c

(* nextTok at a quotation mark: the token is what is inside the quotes, the cursor
   is behind the comma that follows them. *)
LEMMA NextQuoted ==
  ASSUME NEW S, NEW s \in Seq(S), NEW k \in 1..Len(s), NEW m \in (k + 1)..(Len(s) - 1),
         s[k] = "quote", \A j \in (k + 1)..(m - 1) : s[j] # "quote",
         s[m] = "quote", s[m + 1] = "comma"
  PROVE  nextTok(At(From(s, k))) =
           [none |-> FALSE, tok |-> SubSeq(From(s, k + 1), 1, m - (k + 1)),
            cur |-> At(From(s, m + 2))]
<1> DEFINE c == At(From(s, k))
<1> DEFINE q == strsep(At(Tail(c.left)), {"quote"})
<1>0. /\ Len(s) \in Nat /\ k \in Nat /\ m \in Nat /\ k >= 1 /\ k + 1 <= m /\ m + 1 <= Len(s)
      /\ k \in k..Len(s) /\ k \in 1..(Len(s) + 1) /\ k + 1 \in 1..Len(s)
      /\ m \in (k + 1)..Len(s) /\ m + 1 \in 1..Len(s) /\ m + 1 \in (m + 1)..Len(s)
      /\ m + 1 \in 1..(Len(s) + 1)
  OBVIOUS
<1>1. skipWhiteSpace(c) = c
  <2>1. \A j \in k..(k - 1) : s[j] = "blank"
    BY <1>0
  <2> QED
    BY <1>0, <2>1, SkipsBlanks
<1>2. /\ From(s, k) \in Seq(S) /\ Len(From(s, k)) = Len(s) - k + 1
      /\ \A i \in 1..(Len(s) - k + 1) : From(s, k)[i] = s[k + i - 1]
  BY <1>0, FromProperties
<1>3. From(s, k) # <<>> /\ Head(From(s, k)) = "quote"
  BY <1>0, FromHead
<1>4. Tail(From(s, k)) = From(s, k + 1)
  <2>1. Tail(From(s, k)) = From(From(s, k), 2)
    BY <1>2, <1>3, TailIsSubSeq DEF From
  <2>2. 2 \in 1..(Len(s) - k + 2) /\ k + 2 - 1 = k + 1
    BY <1>0
  <2>3. From(From(s, k), 2) = From(s, k + 2 - 1)
    BY <1>0, <2>2, FromFrom
  <2> QED
    BY <2>1, <2>2, <2>3
<1>5. c.null = FALSE /\ c.left = From(s, k)
  BY DEF At
<1>6. q.tok = SubSeq(From(s, k + 1), 1, m - (k + 1)) /\ q.cur = At(From(s, m + 1))
  <2>1. s[m] \in {"quote"} /\ \A j \in (k + 1)..(m - 1) : s[j] \notin {"quote"}
    OBVIOUS
  <2>2. /\ strsep(At(From(s, k + 1)), {"quote"}).tok = SubSeq(From(s, k + 1), 1, m - (k + 1))
        /\ strsep(At(From(s, k + 1)), {"quote"}).cur = At(From(s, m + 1))
    BY <1>0, <2>1, StrsepAt
  <2>3. q = strsep(At(From(s, k + 1)), {"quote"})
    BY <1>4, <1>5
  <2> QED
    BY <2>2, <2>3
<1>7. skipNextComma(At(From(s, m + 1))) = At(From(s, m + 2))
  <2>1. \A j \in (m + 1)..((m + 1) - 1) : s[j] \notin {"comma"}
    BY <1>0
  <2>2. FirstAt(From(s, m + 1), {"comma"}) = (m + 1) - (m + 1) + 1
    BY <1>0, <2>1, FirstFrom
  <2>3. 2 \in 1..(Len(s) - (m + 1) + 2) /\ (m + 1) + 2 - 1 = m + 2
        /\ (m + 1) - (m + 1) + 1 + 1 = 2
    BY <1>0
  <2>4. From(From(s, m + 1), 2) = From(s, (m + 1) + 2 - 1)
    BY <1>0, <2>3, FromFrom
  <2>5. At(From(s, m + 1)).null = FALSE /\ At(From(s, m + 1)).left = From(s, m + 1)
    BY DEF At
  <2> QED
    BY <2>2, <2>3, <2>4, <2>5 DEF skipNextComma
<1>8. nextTok(c) = [none |-> FALSE, tok |-> q.tok, cur |-> skipNextComma(q.cur)]
  <2>1. Head(c.left) = "quote" /\ c.left # <<>> /\ c.null = FALSE
    BY <1>3, <1>5
  <2> HIDE DEF c
  <2> QED
    BY <1>1, <2>1 DEF nextTok
<1> QED
  BY <1>6, <1>7, <1>8
-----------------------------------------------------------------------------
(* The daemon's lines.                                                     *)

Symbols == Numbers \cup {"+CLCC", "colon", "blank", "comma", "quote"}

(* at_tok_nextint_base on a token that is one number. *)
LEMMA NumberRead ==
  ASSUME NEW d \in Numbers, NEW c
  PROVE  IntIn([none |-> FALSE, tok |-> <<d>>, cur |-> c])
           = [ok |-> TRUE, val |-> Value[d], cur |-> c]
<1> DEFINE t == [none |-> FALSE, tok |-> <<d>>, cur |-> c]
<1>1. <<d>> \in Seq(Numbers) /\ Len(<<d>>) = 1 /\ <<d>>[1] = d
  OBVIOUS
<1>2. FirstText(<<d>>) = 1
  <2>1. 1 \in DOMAIN <<d>>
    BY <1>1
  <2>2. d \in ToSet(<<d>>) \ {"blank"}
    BY <1>1, <2>1 DEF ToSet, Numbers, Digits
  <2>3. 1 \in 1..Len(<<d>>) /\ \A j \in 1..(1 - 1) : <<d>>[j] \notin ToSet(<<d>>) \ {"blank"}
    BY <1>1
  <2> DEFINE q == <<d>>
             C == ToSet(q) \ {"blank"}
  <2>4. /\ q \in Seq(Numbers) /\ 1 \in 1..Len(q) /\ q[1] \in C
        /\ \A j \in 1..(1 - 1) : q[j] \notin C
    BY <1>1, <2>2, <2>3
  <2>5. FirstText(q) = FirstAt(q, C)
    BY DEF FirstText
  <2> HIDE DEF q, C
  <2>6. FirstAt(q, C) = 1
    BY <2>4, FirstIs
  <2> QED
    BY <2>5, <2>6 DEF q
<1>3. t.none = FALSE /\ t.tok = <<d>> /\ t.cur = c
  OBVIOUS
<1> HIDE DEF t
<1>4. IntIn(t) = [ok |-> TRUE, val |-> Value[d], cur |-> c]
  <2> DEFINE ok == ~t.none /\ FirstText(t.tok) <= Len(t.tok) /\ t.tok[FirstText(t.tok)] \in Numbers
  <2>1. ok = TRUE /\ t.tok[FirstText(t.tok)] = d
    BY <1>1, <1>2, <1>3
  <2>2. IntIn(t) = [ok |-> ok, val |-> IF ok THEN Value[t.tok[FirstText(t.tok)]] ELSE 0,
                    cur |-> t.cur]
    BY DEF IntIn
  <2> HIDE DEF ok
  <2> QED
    BY <1>3, <2>1, <2>2
<1> QED
  BY <1>4 DEF t

(* fsk_to_string returns the digits before the half byte that ends them, whatever
   comes after it. *)
LEMMA FskDigits ==
  ASSUME NEW digits \in Seq(0..9), NEW e \in 10..15
  PROVE  /\ fsk_to_string(digits \o <<e>>) \in Seq(Digits)
         /\ Len(fsk_to_string(digits \o <<e>>)) = Len(digits)
         /\ \A i \in 1..Len(digits) : Value[fsk_to_string(digits \o <<e>>)[i]] = digits[i]
<1> DEFINE cid == digits \o <<e>>
<1> DEFINE n == CHOOSE i \in DOMAIN cid : cid[i] > 9 /\ \A j \in 1..(i - 1) : cid[j] <= 9
<1> DEFINE r == [j \in 1..Len(digits) |-> CHOOSE d \in Digits : Value[d] = digits[j]]
<1>1. Len(digits) \in Nat /\ \A i \in 1..Len(digits) : digits[i] \in 0..9
  OBVIOUS
<1>2. /\ cid \in Seq(0..15) /\ Len(cid) = Len(digits) + 1
      /\ \A i \in 1..(Len(digits) + 1) : cid[i] = IF i <= Len(digits) THEN digits[i] ELSE e
  <2>1. digits \in Seq(0..15)
    <3>1. 0..9 \subseteq 0..15
      OBVIOUS
    <3> QED
      BY <3>1, SeqMonotonic
  <2>2. <<e>> \in Seq(0..15) /\ Len(<<e>>) = 1 /\ <<e>>[1] = e
    OBVIOUS
  <2>3. /\ cid \in Seq(0..15) /\ Len(cid) = Len(digits) + Len(<<e>>)
        /\ \A i \in 1..(Len(digits) + Len(<<e>>)) :
             cid[i] = IF i <= Len(digits) THEN digits[i] ELSE <<e>>[i - Len(digits)]
    BY <2>1, <2>2, ConcatProperties
  <2>4. \A i \in 1..(Len(digits) + 1) : i <= Len(digits) \/ i - Len(digits) = 1
    BY <1>1
  <2> QED
    BY <2>2, <2>3, <2>4
<1>3. DOMAIN cid = 1..(Len(digits) + 1)
  BY <1>2
<1> HIDE DEF cid
<1>4. n = Len(digits) + 1
  <2>1. /\ Len(digits) + 1 \in DOMAIN cid /\ cid[Len(digits) + 1] > 9
        /\ \A j \in 1..(Len(digits) + 1 - 1) : cid[j] <= 9
    BY <1>1, <1>2, <1>3
  <2>2. \A i \in DOMAIN cid :
          cid[i] > 9 /\ (\A j \in 1..(i - 1) : cid[j] <= 9) => i = Len(digits) + 1
    BY <1>1, <1>2, <1>3
  <2> QED
    BY <2>1, <2>2
<1>5. fsk_to_string(cid) = r
  <2>1. fsk_to_string(cid) = [j \in 1..(n - 1) |-> CHOOSE d \in Digits : Value[d] = cid[j]]
    BY DEF fsk_to_string
  <2>2. n - 1 = Len(digits) /\ \A j \in 1..Len(digits) : cid[j] = digits[j]
    <3> HIDE DEF n
    <3>1. n - 1 = Len(digits)
      BY <1>1, <1>4
    <3>2. \A j \in 1..Len(digits) : j \in 1..(Len(digits) + 1) /\ j <= Len(digits)
      BY <1>1
    <3> QED
      BY <1>2, <3>1, <3>2
  <2> HIDE DEF n
  <2> QED
    BY <2>1, <2>2
<1>6. \A v \in 0..9 : \E d \in Digits : Value[d] = v
  BY DEF Digits, Numbers, Value
<1>7. \A j \in 1..Len(digits) : r[j] \in Digits /\ Value[r[j]] = digits[j]
  BY <1>1, <1>6
<1>8. r \in Seq(Digits) /\ Len(r) = Len(digits)
  BY <1>1, <1>7
<1> HIDE DEF r
<1> QED
  BY <1>5, <1>7, <1>8 DEF cid

(* The daemon's +CLCC line, place by place. *)
LEMMA ClccPlaces ==
  ASSUME NEW dir \in Numbers, NEW state \in Numbers, NEW number \in Seq(Digits)
  PROVE  LET s == ClccLine(dir, state, number)
             n == Len(number)
         IN  /\ s \in Seq(Symbols) /\ Len(s) = n + 17
             /\ s[1] = "+CLCC" /\ s[2] = "colon" /\ s[3] = "blank"
             /\ s[4] = "1" /\ s[5] = "comma" /\ s[6] = dir /\ s[7] = "comma"
             /\ s[8] = state /\ s[9] = "comma" /\ s[10] = "0" /\ s[11] = "comma"
             /\ s[12] = "0" /\ s[13] = "comma" /\ s[14] = "quote"
             /\ \A i \in 1..n : s[i + 14] = number[i]
             /\ s[n + 15] = "quote" /\ s[n + 16] = "comma" /\ s[n + 17] = "129"
<1> DEFINE s == ClccLine(dir, state, number)
<1> DEFINE n == Len(number)
<1> DEFINE a == <<"+CLCC", "colon", "blank", "1", "comma">>
<1> DEFINE b == <<dir, "comma">>
<1> DEFINE c == <<state, "comma">>
<1> DEFINE d == <<"0", "comma", "0", "comma", "quote">>
<1> DEFINE e == <<"quote", "comma", "129">>
<1> DEFINE p == ((a \o b) \o c) \o d
<1>1. /\ a \in Seq(Symbols) /\ b \in Seq(Symbols) /\ c \in Seq(Symbols)
      /\ d \in Seq(Symbols) /\ e \in Seq(Symbols)
  BY DEF Symbols, Numbers, Digits
<1>2. /\ Len(a) = 5 /\ Len(b) = 2 /\ Len(c) = 2 /\ Len(d) = 5 /\ Len(e) = 3
      /\ a[1] = "+CLCC" /\ a[2] = "colon" /\ a[3] = "blank" /\ a[4] = "1" /\ a[5] = "comma"
      /\ b[1] = dir /\ b[2] = "comma" /\ c[1] = state /\ c[2] = "comma"
      /\ d[1] = "0" /\ d[2] = "comma" /\ d[3] = "0" /\ d[4] = "comma" /\ d[5] = "quote"
      /\ e[1] = "quote" /\ e[2] = "comma" /\ e[3] = "129"
  OBVIOUS
<1>3. s = (p \o number) \o e
  BY DEF ClccLine
<1> HIDE DEF s, a, b, c, d, e
<1>4. /\ a \o b \in Seq(Symbols) /\ Len(a \o b) = 7
      /\ \A i \in 1..7 : (a \o b)[i] = IF i <= 5 THEN a[i] ELSE b[i - 5]
  <2>1. /\ a \o b \in Seq(Symbols) /\ Len(a \o b) = Len(a) + Len(b)
        /\ \A i \in 1..(Len(a) + Len(b)) :
             (a \o b)[i] = IF i <= Len(a) THEN a[i] ELSE b[i - Len(a)]
    BY <1>1, ConcatProperties
  <2> QED
    BY <1>2, <2>1
<1>5. /\ (a \o b) \o c \in Seq(Symbols) /\ Len((a \o b) \o c) = 9
      /\ \A i \in 1..9 : ((a \o b) \o c)[i] = IF i <= 7 THEN (a \o b)[i] ELSE c[i - 7]
  <2>1. /\ (a \o b) \o c \in Seq(Symbols) /\ Len((a \o b) \o c) = Len(a \o b) + Len(c)
        /\ \A i \in 1..(Len(a \o b) + Len(c)) :
             ((a \o b) \o c)[i] = IF i <= Len(a \o b) THEN (a \o b)[i] ELSE c[i - Len(a \o b)]
    BY <1>1, <1>4, ConcatProperties, SMTT(30)
  <2> QED
    BY <1>2, <1>4, <2>1
<1>6. /\ p \in Seq(Symbols) /\ Len(p) = 14
      /\ \A i \in 1..14 : p[i] = IF i <= 9 THEN ((a \o b) \o c)[i] ELSE d[i - 9]
  <2> DEFINE f == (a \o b) \o c
  <2>0. f \in Seq(Symbols) /\ Len(f) = 9
    BY <1>5
  <2> HIDE DEF f
  <2>1. /\ f \o d \in Seq(Symbols) /\ Len(f \o d) = Len(f) + Len(d)
        /\ \A i \in 1..(Len(f) + Len(d)) :
             (f \o d)[i] = IF i <= Len(f) THEN f[i] ELSE d[i - Len(f)]
    BY <1>1, <2>0, ConcatProperties
  <2>2. /\ f \o d \in Seq(Symbols) /\ Len(f \o d) = 14
        /\ \A i \in 1..14 : (f \o d)[i] = IF i <= 9 THEN f[i] ELSE d[i - 9]
    <3>1. Len(f) + Len(d) = 14 /\ Len(f) = 9
      BY <1>2, <2>0
    <3> QED
      BY <2>1, <3>1
  <2> QED
    BY <2>2 DEF f
<1>7. /\ p[1] = "+CLCC" /\ p[2] = "colon" /\ p[3] = "blank"
      /\ p[4] = "1" /\ p[5] = "comma" /\ p[6] = dir /\ p[7] = "comma"
      /\ p[8] = state /\ p[9] = "comma" /\ p[10] = "0" /\ p[11] = "comma"
      /\ p[12] = "0" /\ p[13] = "comma" /\ p[14] = "quote"
  BY <1>2, <1>4, <1>5, <1>6
<1> HIDE DEF p
<1>8. number \in Seq(Symbols) /\ n \in Nat
  <2>1. Digits \subseteq Symbols
    BY DEF Symbols, Numbers
  <2> QED
    BY <2>1, SeqMonotonic, LenProperties
<1> HIDE DEF n
<1>9. /\ p \o number \in Seq(Symbols) /\ Len(p \o number) = n + 14
      /\ \A i \in 1..(n + 14) : (p \o number)[i] = IF i <= 14 THEN p[i] ELSE number[i - 14]
  <2>1. /\ p \o number \in Seq(Symbols) /\ Len(p \o number) = Len(p) + Len(number)
        /\ \A i \in 1..(Len(p) + Len(number)) :
             (p \o number)[i] = IF i <= Len(p) THEN p[i] ELSE number[i - Len(p)]
    BY <1>6, <1>8, ConcatProperties
  <2>2. Len(number) = n /\ Len(p) = 14 /\ 14 + n = n + 14
    BY <1>6, <1>8 DEF n
  <2> QED
    BY <2>1, <2>2
<1>10. /\ s \in Seq(Symbols) /\ Len(s) = n + 17
       /\ \A i \in 1..(n + 17) : s[i] = IF i <= n + 14 THEN (p \o number)[i] ELSE e[i - (n + 14)]
  <2> DEFINE f == p \o number
  <2>0. f \in Seq(Symbols) /\ Len(f) = n + 14 /\ s = f \o e
    BY <1>3, <1>9
  <2> HIDE DEF f
  <2>1. /\ f \o e \in Seq(Symbols) /\ Len(f \o e) = Len(f) + Len(e)
        /\ \A i \in 1..(Len(f) + Len(e)) :
             (f \o e)[i] = IF i <= Len(f) THEN f[i] ELSE e[i - Len(f)]
    BY <1>1, <2>0, ConcatProperties
  <2>2. (n + 14) + 3 = n + 17
    BY <1>8
  <2>3. /\ s \in Seq(Symbols) /\ Len(s) = n + 17
        /\ \A i \in 1..(n + 17) : s[i] = IF i <= n + 14 THEN f[i] ELSE e[i - (n + 14)]
    BY <1>2, <2>0, <2>1, <2>2
  <2> QED
    BY <2>3 DEF f
<1>11. \A i \in 1..14 : s[i] = p[i]
  BY <1>8, <1>9, <1>10, SMTT(30)
<1>12. \A i \in 1..n : s[i + 14] = number[i]
  <2> TAKE i \in 1..n
  <2>1. /\ i + 14 \in 1..(n + 14) /\ i + 14 \in 1..(n + 17) /\ i + 14 <= n + 14
        /\ ~(i + 14 <= 14) /\ i + 14 - 14 = i
    BY <1>8
  <2> QED
    BY <2>1, <1>9, <1>10
<1>13. s[n + 15] = "quote" /\ s[n + 16] = "comma" /\ s[n + 17] = "129"
  BY <1>2, <1>8, <1>10
<1>14. /\ s[1] = "+CLCC" /\ s[2] = "colon" /\ s[3] = "blank"
       /\ s[4] = "1" /\ s[5] = "comma" /\ s[6] = dir /\ s[7] = "comma"
       /\ s[8] = state /\ s[9] = "comma" /\ s[10] = "0" /\ s[11] = "comma"
       /\ s[12] = "0" /\ s[13] = "comma" /\ s[14] = "quote"
  BY <1>7, <1>11
<1> QED
  BY <1>10, <1>12, <1>13, <1>14 DEF s, n
(* at_tok_nextbool on a number that is 0 or 1, and at_tok_nextstr on a token. *)
LEMMA BoolStrRead ==
  ASSUME NEW v \in {0, 1}, NEW c, NEW u
  PROVE  /\ BoolIn([ok |-> TRUE, val |-> v, cur |-> c]) = [ok |-> TRUE, val |-> v, cur |-> c]
         /\ StrIn([none |-> FALSE, tok |-> u, cur |-> c]) = [ok |-> TRUE, val |-> u, cur |-> c]
<1> DEFINE n == [ok |-> TRUE, val |-> v, cur |-> c]
<1> DEFINE t == [none |-> FALSE, tok |-> u, cur |-> c]
<1>1. n.ok = TRUE /\ n.val = v /\ n.cur = c /\ (n.ok /\ n.val \in {0, 1}) = TRUE
  OBVIOUS
<1>2. t.tok = u /\ t.cur = c /\ (~t.none) = TRUE
  OBVIOUS
<1> HIDE DEF n, t
<1>3. BoolIn(n) = [ok |-> TRUE, val |-> v, cur |-> c]
  BY <1>1 DEF BoolIn
<1>4. StrIn(t) = [ok |-> TRUE, val |-> u, cur |-> c]
  BY <1>2 DEF StrIn
<1> QED
  BY <1>3, <1>4 DEF n, t

(* The driver reads a +CLCC line of the daemon as the call it was written for: its
   direction, its state and its number, whatever the number (callFromCLCCLine on what
   processCommandBuffer prints). *)
THEOREM ClccReadBack ==
  ASSUME NEW dir \in {"0", "1"}, NEW state \in {"0", "1", "2", "3", "4", "5"},
         NEW number \in Seq(Digits)
  PROVE  callFromCLCCLine(ClccLine(dir, state, number)) =
           [ok |-> TRUE, isMT |-> Value[dir], state |-> CallState(Value[state]),
            number |-> number]
<1> DEFINE s == ClccLine(dir, state, number)
<1> DEFINE n == Len(number)
<1>0. dir \in Numbers /\ state \in Numbers /\ "0" \in Numbers /\ "1" \in Numbers /\ "129" \in Numbers
  BY DEF Numbers, Digits
<1>1. /\ s \in Seq(Symbols) /\ Len(s) = n + 17
      /\ s[1] = "+CLCC" /\ s[2] = "colon" /\ s[3] = "blank"
      /\ s[4] = "1" /\ s[5] = "comma" /\ s[6] = dir /\ s[7] = "comma"
      /\ s[8] = state /\ s[9] = "comma" /\ s[10] = "0" /\ s[11] = "comma"
      /\ s[12] = "0" /\ s[13] = "comma" /\ s[14] = "quote"
      /\ \A i \in 1..n : s[i + 14] = number[i]
      /\ s[n + 15] = "quote" /\ s[n + 16] = "comma" /\ s[n + 17] = "129"
  BY <1>0, ClccPlaces
<1>2. n \in Nat /\ \A i \in 1..n : number[i] \in Digits
  BY LenProperties
<1> HIDE DEF s, n
<1>s. s \in Seq(Symbols) /\ Len(s) = n + 17
  BY <1>1
<1>3. at_tok_start(At(s)) = At(From(s, 3))
  <2>1. 2 \in 1..Len(s) /\ s[2] \in {"colon"} /\ \A j \in 1..(2 - 1) : s[j] \notin {"colon"}
    BY <1>1, <1>2
  <2>2. FirstAt(s, {"colon"}) = 2
    BY <1>1, <2>1, FirstIs
  <2>3. ~(2 > Len(s)) /\ 2 + 1 = 3
    BY <1>1, <1>2
  <2>4. At(s).null = FALSE /\ At(s).left = s
    BY DEF At
  <2> QED
    BY <2>2, <2>3, <2>4 DEF at_tok_start
(* The fields up to the number, each a number that a comma follows. *)
<1>4. ASSUME NEW k \in 1..13, NEW m \in k..13, \A j \in k..(m - 1) : s[j] = "blank",
             s[m] \in Numbers, s[m + 1] = "comma"
      PROVE  at_tok_nextint(At(From(s, k))) =
               [ok |-> TRUE, val |-> Value[s[m]], cur |-> At(From(s, m + 2))]
  <2>1. k \in 1..Len(s) /\ m \in k..(Len(s) - 1)
    BY <1>1, <1>2
  <2>2. nextTok(At(From(s, k))) = [none |-> FALSE, tok |-> <<s[m]>>, cur |-> At(From(s, m + 2))]
    BY <1>s, <1>4, <2>1, NextNumber
  <2> QED
    BY <1>4, <2>2, NumberRead DEF at_tok_nextint
<1>5. at_tok_nextint(At(From(s, 3))) = [ok |-> TRUE, val |-> Value["1"], cur |-> At(From(s, 6))]
  <2>1. 3 \in 1..13 /\ 4 \in 3..13 /\ 4 + 2 = 6 /\ 4 + 1 = 5 /\ \A j \in 3..(4 - 1) : j = 3
    OBVIOUS
  <2> QED
    BY <1>0, <1>1, <1>4, <2>1
<1>6. at_tok_nextint(At(From(s, 6))) = [ok |-> TRUE, val |-> Value[dir], cur |-> At(From(s, 8))]
  <2>1. 6 \in 1..13 /\ 6 \in 6..13 /\ 6 + 2 = 8 /\ 6 + 1 = 7 /\ \A j \in 6..(6 - 1) : FALSE
    OBVIOUS
  <2> QED
    BY <1>0, <1>1, <1>4, <2>1
<1>7. at_tok_nextint(At(From(s, 8))) = [ok |-> TRUE, val |-> Value[state], cur |-> At(From(s, 10))]
  <2>1. 8 \in 1..13 /\ 8 \in 8..13 /\ 8 + 2 = 10 /\ 8 + 1 = 9 /\ \A j \in 8..(8 - 1) : FALSE
    OBVIOUS
  <2> QED
    BY <1>0, <1>1, <1>4, <2>1
<1>8. at_tok_nextint(At(From(s, 10))) = [ok |-> TRUE, val |-> Value["0"], cur |-> At(From(s, 12))]
  <2>1. 10 \in 1..13 /\ 10 \in 10..13 /\ 10 + 2 = 12 /\ 10 + 1 = 11 /\ \A j \in 10..(10 - 1) : FALSE
    OBVIOUS
  <2> QED
    BY <1>0, <1>1, <1>4, <2>1
<1>9. at_tok_nextint(At(From(s, 12))) = [ok |-> TRUE, val |-> Value["0"], cur |-> At(From(s, 14))]
  <2>1. 12 \in 1..13 /\ 12 \in 12..13 /\ 12 + 2 = 14 /\ 12 + 1 = 13 /\ \A j \in 12..(12 - 1) : FALSE
    OBVIOUS
  <2> QED
    BY <1>0, <1>1, <1>4, <2>1
<1>10. Value["0"] = 0 /\ Value["1"] = 1 /\ Value[dir] \in {0, 1}
  BY <1>0 DEF Value
<1>11. /\ at_tok_nextbool(At(From(s, 6))) = [ok |-> TRUE, val |-> Value[dir], cur |-> At(From(s, 8))]
       /\ at_tok_nextbool(At(From(s, 12))) = [ok |-> TRUE, val |-> 0, cur |-> At(From(s, 14))]
  <2>1. 0 \in {0, 1}
    OBVIOUS
  <2>2. \A v \in {0, 1} : \A c :
          BoolIn([ok |-> TRUE, val |-> v, cur |-> c]) = [ok |-> TRUE, val |-> v, cur |-> c]
    BY BoolStrRead, ZenonT(30)
  <2>3. at_tok_nextbool(At(From(s, 6))) = BoolIn([ok |-> TRUE, val |-> Value[dir], cur |-> At(From(s, 8))])
    BY <1>6 DEF at_tok_nextbool
  <2>4. at_tok_nextbool(At(From(s, 12))) = BoolIn([ok |-> TRUE, val |-> 0, cur |-> At(From(s, 14))])
    BY <1>9, <1>10 DEF at_tok_nextbool
  <2>5. at_tok_nextbool(At(From(s, 6))) = [ok |-> TRUE, val |-> Value[dir], cur |-> At(From(s, 8))]
    BY <1>10, <2>2, <2>3, ZenonT(30)
  <2>6. at_tok_nextbool(At(From(s, 12))) = [ok |-> TRUE, val |-> 0, cur |-> At(From(s, 14))]
    BY <2>1, <2>2, <2>4, ZenonT(30)
  <2> QED
    BY <2>5, <2>6
<1>12. at_tok_hasmore(At(From(s, 14))) = TRUE
  <2>1. 14 \in 1..Len(s)
    BY <1>1, <1>2
  <2>2. From(s, 14) # <<>>
    BY <1>1, <2>1, FromHead
  <2> QED
    BY <2>2 DEF at_tok_hasmore, At
(* The number, inside its quotes. *)
<1>13. at_tok_nextstr(At(From(s, 14))) = [ok |-> TRUE, val |-> number, cur |-> At(From(s, n + 17))]
  <2> DEFINE m == n + 15
  <2> DEFINE t == SubSeq(From(s, 14 + 1), 1, m - (14 + 1))
  <2>1. /\ 14 \in 1..Len(s) /\ m \in (14 + 1)..(Len(s) - 1) /\ m + 1 = n + 16 /\ m + 2 = n + 17
        /\ 15 \in 1..(Len(s) + 1) /\ m \in 15..(Len(s) + 1) /\ m - 15 = n
    BY <1>1, <1>2
  <2>2. \A j \in (14 + 1)..(m - 1) : s[j] # "quote"
    <3> TAKE j \in (14 + 1)..(m - 1)
    <3>1. j - 14 \in 1..n /\ (j - 14) + 14 = j
      BY <1>2
    <3>2. s[j] = number[j - 14]
      BY <1>1, <3>1
    <3> QED
      BY <1>2, <3>1, <3>2 DEF Digits
  <2>3. s[m] = "quote" /\ s[m + 1] = "comma"
    BY <1>1, <2>1
  <2> HIDE DEF m
  <2>4. nextTok(At(From(s, 14))) = [none |-> FALSE, tok |-> t, cur |-> At(From(s, n + 17))]
    <3>1. nextTok(At(From(s, 14))) =
            [none |-> FALSE, tok |-> SubSeq(From(s, 14 + 1), 1, m - (14 + 1)),
             cur |-> At(From(s, m + 2))]
      <4>1. s[14] = "quote"
        BY <1>1
      <4> QED
        BY <1>s, <2>1, <2>2, <2>3, <4>1, NextQuoted
    <3> QED
      BY <2>1, <3>1
  <2>5. t = number
    <3>1. 14 + 1 = 15 /\ t = SubSeq(From(s, 15), 1, m - 15)
      OBVIOUS
    <3>2. /\ t \in Seq(Symbols) /\ Len(t) = n
          /\ \A i \in 1..n : t[i] = s[15 + i - 1]
      <4>1. /\ SubSeq(From(s, 15), 1, m - 15) \in Seq(Symbols)
            /\ Len(SubSeq(From(s, 15), 1, m - 15)) = m - 15
            /\ \A i \in 1..(m - 15) : SubSeq(From(s, 15), 1, m - 15)[i] = s[15 + i - 1]
        BY <1>s, <2>1, TokenOf
      <4> QED
        BY <2>1, <3>1, <4>1
    <3> HIDE DEF t
    <3>3. \A i \in 1..n : 15 + i - 1 = i + 14
      BY <1>2
    <3>4. \A i \in 1..n : t[i] = number[i]
      <4> TAKE i \in 1..n
      <4>1. t[i] = s[15 + i - 1]
        BY <3>2
      <4>2. s[i + 14] = number[i]
        BY <1>1
      <4> QED
        BY <3>3, <4>1, <4>2
    <3>5. number \in Seq(Symbols) /\ Len(number) = n
      <4>1. Digits \subseteq Symbols
        BY DEF Symbols, Numbers
      <4> QED
        BY <4>1, SeqMonotonic DEF n
    <3> QED
      BY <3>2, <3>4, <3>5, SeqEqual
  <2> HIDE DEF t
  <2> QED
    BY <2>4, <2>5, BoolStrRead DEF at_tok_nextstr
<1>14. at_tok_nextint(At(From(s, n + 17))) = [ok |-> TRUE, val |-> Value["129"], cur |-> NULL]
  <2>1. s # <<>> /\ s[Len(s)] = "129" /\ s[Len(s)] \in Numbers
    BY <1>0, <1>1, <1>2
  <2>2. nextTok(At(From(s, Len(s)))) = [none |-> FALSE, tok |-> <<"129">>, cur |-> NULL]
    BY <1>s, <2>1, LastNumber
  <2> QED
    BY <1>0, <1>1, <2>2, NumberRead DEF at_tok_nextint
<1>15. CallState(Value[state]) # "invalid"
  <2>1. Value[state] \in 0..5
    BY <1>0 DEF Value
  <2> QED
    BY <2>1 DEF CallState
<1>16. number # <<>> => Head(number) \in Numbers
  <2>1. number # <<>> => Head(number) \in Digits
    BY HeadTailProperties
  <2> QED
    BY <2>1 DEF Numbers
<1> DEFINE index  == at_tok_nextint(at_tok_start(At(s)))
<1> DEFINE isMT   == at_tok_nextbool(index.cur)
<1> DEFINE stat   == at_tok_nextint(isMT.cur)
<1> DEFINE mode   == at_tok_nextint(stat.cur)
<1> DEFINE isMpty == at_tok_nextbool(mode.cur)
<1> DEFINE more   == at_tok_hasmore(isMpty.cur)
<1> DEFINE num    == at_tok_nextstr(isMpty.cur)
<1> DEFINE toa    == at_tok_nextint(num.cur)
<1> DEFINE ok     == /\ index.ok /\ isMT.ok /\ stat.ok /\ CallState(stat.val) # "invalid"
                     /\ mode.ok /\ isMpty.ok
                     /\ more /\ num.ok => toa.ok
<1>17. callFromCLCCLine(s) =
         [ok |-> ok, isMT |-> isMT.val, state |-> CallState(stat.val),
          number |-> IF more /\ num.val # <<>> /\ Head(num.val) \in Numbers
                     THEN num.val ELSE <<>>]
  BY DEF callFromCLCCLine
<1>18. index = [ok |-> TRUE, val |-> Value["1"], cur |-> At(From(s, 6))]
  BY <1>3, <1>5
<1> HIDE DEF index
<1>19. isMT = [ok |-> TRUE, val |-> Value[dir], cur |-> At(From(s, 8))]
  BY <1>11, <1>18
<1> HIDE DEF isMT
<1>20. stat = [ok |-> TRUE, val |-> Value[state], cur |-> At(From(s, 10))]
  BY <1>7, <1>19
<1> HIDE DEF stat
<1>21. mode = [ok |-> TRUE, val |-> Value["0"], cur |-> At(From(s, 12))]
  BY <1>8, <1>20
<1> HIDE DEF mode
<1>22. isMpty = [ok |-> TRUE, val |-> 0, cur |-> At(From(s, 14))]
  BY <1>11, <1>21
<1> HIDE DEF isMpty
<1>23. more = TRUE /\ num = [ok |-> TRUE, val |-> number, cur |-> At(From(s, n + 17))]
  BY <1>12, <1>13, <1>22
<1> HIDE DEF more, num
<1>24. toa.ok = TRUE
  BY <1>14, <1>23
<1> HIDE DEF toa
<1>25. /\ index.ok = TRUE /\ isMT.ok = TRUE /\ stat.ok = TRUE /\ mode.ok = TRUE
       /\ isMpty.ok = TRUE /\ isMT.val = Value[dir] /\ stat.val = Value[state]
       /\ num.ok = TRUE /\ num.val = number
  BY <1>18, <1>19, <1>20, <1>21, <1>22, <1>23
<1>26. ok = TRUE
  BY <1>15, <1>24, <1>25
<1> HIDE DEF ok
<1>27. (IF more /\ num.val # <<>> /\ Head(num.val) \in Numbers THEN num.val ELSE <<>>) = number
  BY <1>16, <1>23, <1>25
<1>28. callFromCLCCLine(s) =
         [ok |-> TRUE, isMT |-> Value[dir], state |-> CallState(Value[state]), number |-> number]
  BY <1>17, <1>25, <1>26, <1>27
<1> QED
  BY <1>28 DEF s
=============================================================================
