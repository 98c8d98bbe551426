---------------------------- MODULE EngineProofs ----------------------------
(***************************************************************************)
(* What the runs check of an engine's turns, for every window, number of   *)
(* turns, of regenerations, of attempts and of summaries in a prompt, and  *)
(* whatever calls fail: all of its properties but the one that turns end.  *)
(*                                                                         *)
(* None of them is inductive: each speaks of the story between two turns,  *)
(* or at one call, while a turn takes it apart over many steps.  The       *)
(* invariant therefore says, for each of a turn's phases (its input not    *)
(* yet there, its answer not yet there, its answer there), what the        *)
(* engine's copy of the story looks like.                                  *)
(***************************************************************************)
EXTENDS EngineTurn, SequenceTheorems, TLAPS

\* The phases of a turn.
Before == {"translate", "prompt"}
After == {"extract", "summarise", "media", "save"}
Asking == GuardCalls \union {"generate", "tongue", "judge", "rejudge", "final"}

-----------------------------------------------------------------------------
(* Sequences and numbers.                                                  *)

(* The largest of some numbers is the one that no other exceeds.            *)
LEMMA MaxIs ==
  ASSUME NEW S \in SUBSET Int, NEW k \in S, \A x \in S : x <= k
  PROVE  Max(S) = k
<1> DEFINE P(x) == \A y \in S : x >= y
<1>1. \E x \in S : P(x) OBVIOUS
<1>2. (CHOOSE x \in S : P(x)) \in S /\ P(CHOOSE x \in S : P(x)) BY <1>1
<1> DEFINE m == CHOOSE x \in S : P(x)
<1>3. m \in S /\ m >= k BY <1>2
<1> HIDE DEF m
<1>4. m \in Int /\ k \in Int /\ m >= k /\ m <= k BY <1>3
<1>5. m = k BY <1>4
<1>6. Max(S) = m BY DEF Max, m
<1> QED BY <1>5, <1>6

(* The lesser of two numbers.                                               *)
LEMMA MinIs ==
  ASSUME NEW x \in Int, NEW y \in Int
  PROVE  Min({x, y}) = IF x <= y THEN x ELSE y
<1> DEFINE S == {x, y}
           P(k) == \A z \in S : k =< z
<1>1. \E k \in S : P(k) OBVIOUS
<1>2. (CHOOSE k \in S : P(k)) \in S /\ P(CHOOSE k \in S : P(k)) BY <1>1
<1>3. Min(S) \in S /\ \A z \in S : Min(S) =< z BY <1>2 DEF Min
<1> QED BY <1>3

(* The greater of zero and a number.                                        *)
LEMMA AtLeastZero ==
  ASSUME NEW x \in Int
  PROVE  Max({0, x}) = IF x >= 0 THEN x ELSE 0
<1> DEFINE k == IF x >= 0 THEN x ELSE 0
<1>1. k \in {0, x} /\ \A y \in {0, x} : y <= k OBVIOUS
<1>2. {0, x} \in SUBSET Int OBVIOUS
<1> HIDE DEF k
<1>3. Max({0, x}) = k BY <1>1, <1>2, MaxIs
<1> QED BY <1>3 DEF k

(* A shift wears by one cap, or not at all.                                 *)
LEMMA CappedIs ==
  ASSUME NEW shift \in Int
  PROVE  Capped(shift) \in {0, 1}
<1>1. Min({shift, 1}) = IF shift <= 1 THEN shift ELSE 1 BY MinIs
<1> DEFINE m == Min({shift, 1})
<1>2. m \in Int /\ m <= 1 BY <1>1
<1> HIDE DEF m
<1>3. Max({0, m}) = IF m >= 0 THEN m ELSE 0 BY <1>2, AtLeastZero
<1>4. Max({0, m}) \in {0, 1} BY <1>2, <1>3
<1> QED BY <1>4 DEF Capped, m

(* All but the last element.                                                *)
LEMMA FrontIs ==
  ASSUME NEW S, NEW s \in Seq(S), s # <<>>
  PROVE  /\ Front(s) \in Seq(S) /\ Len(Front(s)) = Len(s) - 1 /\ Len(s) \in Nat \ {0}
         /\ \A i \in 1..(Len(s) - 1) : Front(s)[i] = s[i]
<1>1. Len(s) \in Nat \ {0} BY EmptySeq
<1>2. \A i \in 1..(Len(s) - 1) : s[i] \in S BY <1>1, ElementOfSeq
<1>3. Len(s) - 1 \in Int BY <1>1
<1> DEFINE n == Len(s) - 1
<1> HIDE DEF n
<1>4. /\ SubSeq(s, 1, n) \in Seq(S)
      /\ Len(SubSeq(s, 1, n)) = IF 1 <= n THEN n - 1 + 1 ELSE 0
      /\ \A i \in 1..(n - 1 + 1) : SubSeq(s, 1, n)[i] = s[1 + i - 1]
  BY <1>2, <1>3, SubSeqProperties DEF n
<1>5. n \in Nat /\ n = Len(s) - 1 BY <1>1 DEF n
<1>6. Len(SubSeq(s, 1, n)) = n BY <1>4, <1>5
<1>7. \A i \in 1..n : SubSeq(s, 1, n)[i] = s[i]
  <2> SUFFICES ASSUME NEW i \in 1..n PROVE SubSeq(s, 1, n)[i] = s[i] OBVIOUS
  <2>1. i \in 1..(n - 1 + 1) /\ 1 + i - 1 = i BY <1>5
  <2> QED BY <2>1, <1>4
<1>8. Front(s) = SubSeq(s, 1, n) BY DEF Front, n
<1>9. /\ Front(s) \in Seq(S) /\ Len(Front(s)) = n
      /\ \A i \in 1..n : Front(s)[i] = s[i]
  BY <1>4, <1>6, <1>7, <1>8
<1> HIDE DEF Front
<1> QED BY <1>1, <1>9 DEF n

(* What follows a sequence may lose its last element, or get one more.      *)
LEMMA ConcatFront ==
  ASSUME NEW S, NEW f \in Seq(S), NEW h \in Seq(S), h # <<>>
  PROVE  f \o Front(h) = Front(f \o h)
<1>1. /\ f \o h \in Seq(S) /\ Len(f \o h) = Len(f) + Len(h)
      /\ \A i \in 1..(Len(f) + Len(h)) :
           (f \o h)[i] = IF i <= Len(f) THEN f[i] ELSE h[i - Len(f)]
  BY ConcatProperties
<1>2. /\ Front(h) \in Seq(S) /\ Len(Front(h)) = Len(h) - 1 /\ Len(h) \in Nat \ {0}
      /\ \A i \in 1..(Len(h) - 1) : Front(h)[i] = h[i]
  BY FrontIs
<1>3. Len(f) \in Nat BY LenProperties
<1>4. f \o h # <<>> BY <1>1, <1>2, <1>3, EmptySeq
<1>5. /\ Front(f \o h) \in Seq(S) /\ Len(Front(f \o h)) = Len(f) + Len(h) - 1
      /\ \A i \in 1..(Len(f) + Len(h) - 1) : Front(f \o h)[i] = (f \o h)[i]
  <2> DEFINE s == f \o h
  <2>1. s \in Seq(S) /\ s # <<>> /\ Len(s) = Len(f) + Len(h) BY <1>1, <1>4
  <2> HIDE DEF s
  <2>2. /\ Front(s) \in Seq(S) /\ Len(Front(s)) = Len(s) - 1
        /\ \A i \in 1..(Len(s) - 1) : Front(s)[i] = s[i]
    BY <2>1, FrontIs
  <2>3. /\ Front(s) \in Seq(S) /\ Len(Front(s)) = Len(f) + Len(h) - 1
        /\ \A i \in 1..(Len(f) + Len(h) - 1) : Front(s)[i] = s[i]
    BY <2>1, <2>2
  <2> QED BY <2>3 DEF s
<1>6. /\ f \o Front(h) \in Seq(S) /\ Len(f \o Front(h)) = Len(f) + Len(h) - 1
      /\ \A i \in 1..(Len(f) + Len(h) - 1) :
           (f \o Front(h))[i] = IF i <= Len(f) THEN f[i] ELSE Front(h)[i - Len(f)]
  <2> DEFINE g == Front(h)
  <2>1. g \in Seq(S) /\ Len(g) = Len(h) - 1 BY <1>2
  <2> HIDE DEF g
  <2>2. /\ f \o g \in Seq(S) /\ Len(f \o g) = Len(f) + Len(g)
        /\ \A i \in 1..(Len(f) + Len(g)) :
             (f \o g)[i] = IF i <= Len(f) THEN f[i] ELSE g[i - Len(f)]
    BY <2>1, ConcatProperties
  <2>3. Len(f) + Len(g) = Len(f) + Len(h) - 1 BY <1>2, <1>3, <2>1
  <2>4. /\ f \o g \in Seq(S) /\ Len(f \o g) = Len(f) + Len(h) - 1
        /\ \A i \in 1..(Len(f) + Len(h) - 1) :
             (f \o g)[i] = IF i <= Len(f) THEN f[i] ELSE g[i - Len(f)]
    BY <2>2, <2>3
  <2> QED BY <2>4 DEF g
<1>7. \A i \in 1..(Len(f) + Len(h) - 1) : (f \o Front(h))[i] = Front(f \o h)[i]
  <2> SUFFICES ASSUME NEW i \in 1..(Len(f) + Len(h) - 1)
               PROVE  (f \o Front(h))[i] = Front(f \o h)[i]
    OBVIOUS
  <2>1. i \in 1..(Len(f) + Len(h)) BY <1>2, <1>3
  <2>2. CASE i <= Len(f) BY <2>1, <2>2, <1>1, <1>5, <1>6
  <2>3. CASE ~(i <= Len(f))
    <3>1. i - Len(f) \in 1..(Len(h) - 1) BY <2>3, <1>2, <1>3
    <3> QED BY <3>1, <2>1, <2>3, <1>1, <1>2, <1>5, <1>6
  <2> QED BY <2>2, <2>3
<1> HIDE DEF Front
<1> QED BY <1>5, <1>6, <1>7, SeqEqual

(* A message at the end of a sequence is at the end of what it is joined    *)
(* to.                                                                      *)
LEMMA ConcatAppend ==
  ASSUME NEW S, NEW f \in Seq(S), NEW h \in Seq(S), NEW m \in S
  PROVE  f \o Append(h, m) = Append(f \o h, m)
<1>1. <<m>> \in Seq(S) /\ f \o h \in Seq(S) BY ConcatProperties
<1>2. Append(h, m) = h \o <<m>> /\ Append(f \o h, m) = (f \o h) \o <<m>>
  BY <1>1, AppendIsConcat
<1>3. (f \o h) \o <<m>> = f \o (h \o <<m>>) BY <1>1, ConcatAssociative
<1> QED BY <1>2, <1>3

(* A window onto a history and what it cuts off are the history.            *)
LEMMA Trimming ==
  ASSUME NEW S, NEW h \in Seq(S), NEW n \in Nat \ {0}
  PROVE  /\ LastN(h, n) \in Seq(S)
         /\ Len(LastN(h, n)) = IF Len(h) > n THEN n ELSE Len(h)
         /\ \A i \in 1..Len(LastN(h, n)) : LastN(h, n)[i] = h[Len(h) - Len(LastN(h, n)) + i]
         /\ n = Window => Cut(h) \in Seq(S) /\ Cut(h) \o LastN(h, n) = h
                          /\ Len(Cut(h)) = Len(h) - Len(LastN(h, n))
                          /\ \A i \in 1..Len(Cut(h)) : Cut(h)[i] = h[i]
<1> DEFINE l == Len(h)
<1>1. l \in Nat /\ \A i \in 1..l : h[i] \in S BY LenProperties, ElementOfSeq
<1>2. CASE l > n
  <2>1. Max({1, l - n + 1}) = l - n + 1
    <3> DEFINE k == l - n + 1
    <3>1. k \in Int /\ 1 <= k BY <1>1, <1>2
    <3> HIDE DEF k
    <3> DEFINE P == {1, k}
    <3>2. P \in SUBSET Int /\ k \in P /\ \A x \in P : x <= k BY <3>1
    <3> HIDE DEF P
    <3>3. Max(P) = k BY <3>2, MaxIs
    <3> QED BY <3>3 DEF P, k
  <2> DEFINE m == l - n
  <2>2. LastN(h, n) = SubSeq(h, m + 1, l) BY <1>1, <2>1 DEF LastN
  <2>3. m \in Nat /\ m < l /\ m = l - n BY <1>1, <1>2
  <2>4. n = Window => Cut(h) = SubSeq(h, 1, m) BY <1>2 DEF Cut
  <2> HIDE DEF m, l
  <2>5. /\ SubSeq(h, m + 1, l) \in Seq(S)
        /\ Len(SubSeq(h, m + 1, l)) = IF m + 1 <= l THEN l - (m + 1) + 1 ELSE 0
        /\ \A i \in 1..(l - (m + 1) + 1) : SubSeq(h, m + 1, l)[i] = h[m + 1 + i - 1]
    <3>1. m + 1 \in Int /\ l \in Int /\ \A i \in (m + 1)..l : h[i] \in S BY <1>1, <2>3
    <3> QED BY <3>1, SubSeqProperties
  <2>6. /\ SubSeq(h, 1, m) \in Seq(S)
        /\ Len(SubSeq(h, 1, m)) = IF 1 <= m THEN m - 1 + 1 ELSE 0
        /\ \A i \in 1..(m - 1 + 1) : SubSeq(h, 1, m)[i] = h[1 + i - 1]
    <3>1. m \in Int /\ \A i \in 1..m : h[i] \in S BY <1>1, <2>3
    <3> QED BY <3>1, SubSeqProperties
  <2>7. SubSeq(h, 1, m) \o SubSeq(h, m + 1, l) = h
    <3>1. 1 \in 1..(l + 1) /\ m \in (1 - 1)..l /\ l \in m..l BY <1>1, <2>3
    <3>2. SubSeq(h, 1, m) \o SubSeq(h, m + 1, l) = SubSeq(h, 1, l)
      BY <3>1, ConcatAdjacentSubSeq DEF l
    <3> QED BY <3>2, SubSeqFull DEF l
  <2>8. Len(SubSeq(h, m + 1, l)) = n /\ Len(SubSeq(h, 1, m)) = m BY <1>1, <2>3, <2>5, <2>6
  <2> DEFINE L == SubSeq(h, m + 1, l)
             C == SubSeq(h, 1, m)
  <2>9. \A i \in 1..n : L[i] = h[l - n + i]
    <3> SUFFICES ASSUME NEW i \in 1..n PROVE L[i] = h[l - n + i] OBVIOUS
    <3>1. i \in 1..(l - (m + 1) + 1) /\ m + 1 + i - 1 = l - n + i BY <1>1, <2>3
    <3> QED BY <3>1, <2>5
  <2>10. \A i \in 1..m : C[i] = h[i]
    <3> SUFFICES ASSUME NEW i \in 1..m PROVE C[i] = h[i] OBVIOUS
    <3>1. i \in 1..(m - 1 + 1) /\ 1 + i - 1 = i BY <2>3
    <3> QED BY <3>1, <2>6
  <2> HIDE DEF L, C
  <2>11. L \in Seq(S) /\ Len(L) = n /\ Len(C) = l - n /\ C \in Seq(S) /\ C \o L = h
    BY <2>3, <2>5, <2>6, <2>7, <2>8 DEF L, C
  <2>12. LastN(h, n) = L /\ (n = Window => Cut(h) = C) BY <2>2, <2>4 DEF L, C
  <2>13. Len(h) = l /\ l > n BY <1>2 DEF l
  <2>14. LastN(h, n) \in Seq(S) /\ Len(LastN(h, n)) = IF Len(h) > n THEN n ELSE Len(h)
    BY <2>11, <2>12, <2>13
  <2>15. \A i \in 1..Len(LastN(h, n)) : LastN(h, n)[i] = h[Len(h) - Len(LastN(h, n)) + i]
    BY <2>9, <2>11, <2>12, <2>13
  <2>16. ASSUME n = Window
         PROVE  /\ Cut(h) \in Seq(S) /\ Cut(h) \o LastN(h, n) = h
                /\ Len(Cut(h)) = Len(h) - Len(LastN(h, n))
                /\ \A i \in 1..Len(Cut(h)) : Cut(h)[i] = h[i]
    <3>1. Cut(h) = C /\ LastN(h, n) = L BY <2>12, <2>16
    <3>2. Len(Cut(h)) = l - n /\ l - n = Len(h) - Len(LastN(h, n)) BY <3>1, <2>11, <2>13
    <3>3. l - n = m BY <2>3
    <3> QED BY <3>1, <3>2, <3>3, <2>10, <2>11
  <2> QED BY <2>14, <2>15, <2>16
<1>3. CASE ~(l > n)
  <2>1. Max({1, l - n + 1}) = 1
    <3> DEFINE k == l - n + 1
    <3>1. k \in Int /\ k <= 1 BY <1>1, <1>3
    <3> HIDE DEF k
    <3> DEFINE P == {1, k}
    <3>2. P \in SUBSET Int /\ 1 \in P /\ \A x \in P : x <= 1 BY <3>1
    <3> HIDE DEF P
    <3>3. Max(P) = 1 BY <3>2, MaxIs
    <3> QED BY <3>3 DEF P, k
  <2>2. LastN(h, n) = h BY <2>1, SubSeqFull DEF LastN
  <2>3. n = Window => Cut(h) = <<>> BY <1>3 DEF Cut
  <2>4. <<>> \o h = h BY ConcatEmptySeq
  <2>5. Len(<<>>) = 0 /\ <<>> \in Seq(S) BY EmptySeq
  <2>6. \A i \in 1..l : l - l + i = i BY <1>1
  <2>7. l - l = 0 /\ Len(h) = l BY <1>1
  <2>8. \A i \in 1..Len(h) : h[i] = h[Len(h) - Len(h) + i] BY <2>6, <2>7
  <2>9. ASSUME n = Window
        PROVE  /\ Cut(h) \in Seq(S) /\ Cut(h) \o LastN(h, n) = h
               /\ Len(Cut(h)) = Len(h) - Len(LastN(h, n))
               /\ \A i \in 1..Len(Cut(h)) : Cut(h)[i] = h[i]
    BY <2>2, <2>3, <2>4, <2>5, <2>7, <2>9
  <2>10. Len(h) = IF Len(h) > n THEN n ELSE Len(h) BY <1>3, <2>7
  <2> QED BY <2>2, <2>8, <2>9, <2>10
<1> QED BY <1>2, <1>3

-----------------------------------------------------------------------------
(* Types.                                                                  *)

Messages == [by : {"none", "opening", "player", "continue", "narrator"},
             turn : Nat, take : Nat]
Texts == [src : {"none", "empty", "safe", "draft", "repair", "fallback", "prefixed"},
          repeats : BOOLEAN]
Voices == Voice \union {NoVoice}

Engines ==
  [turn : 0..MaxTurn, history : Seq(Messages), display : Seq(Messages),
   summaries : Seq(SUBSET Messages), resolve : 0..FullResolve,
   voice : Voices, lang : Lang,
   told : Seq(Messages), forgotten : Seq(Messages), lost : SUBSET Messages]

Works ==
  [op : Ops \union {"none", "regenerate"}, attempt : Nat \ {0}, begun : BOOLEAN,
   continuation : BOOLEAN, previous : Messages, answer : Messages,
   revised : Texts, text : Texts, flawed : BOOLEAN, refused : BOOLEAN,
   chunk : Seq(Messages), voice : Voices,
   trouble : SUBSET {"unnamed", "emptyrepair", "nofallback", "nomedia"}]

Typed ==
  /\ saved \in Engines /\ eng \in Engines /\ now \in Works
  /\ pc \in Phases /\ lock \in BOOLEAN /\ shown \in Messages
  /\ now.attempt \in 1..Attempts(pc)

(* What a turn starts from is typed.                                        *)
LEMMA Beginnings ==
  /\ NoWork \in Works /\ NoMessage \in Messages /\ Opening \in Messages
  /\ \A l \in Lang : [NewEngine EXCEPT !.lang = l] \in Engines
  /\ {NoText, EmptyText, Safe, Draft} \subseteq Texts
  /\ \A p \in Phases : Attempts(p) \in Nat \ {0}
<1>1. NoMessage \in Messages /\ Opening \in Messages
  BY DEF NoMessage, Opening, Message, Messages
<1>2. {NoText, EmptyText, Safe, Draft} \subseteq Texts
  BY DEF NoText, EmptyText, Safe, Draft, Texts
<1>3. NoWork \in Works
  <2>1. <<>> \in Seq(Messages) BY EmptySeq
  <2> QED BY <1>1, <1>2, <2>1 DEF NoWork, Works, Ops, Voices
<1>4. \A l \in Lang : [NewEngine EXCEPT !.lang = l] \in Engines
  <2>1. /\ <<>> \in Seq(Messages) /\ <<Opening>> \in Seq(Messages)
        /\ <<>> \in Seq(SUBSET Messages)
    BY <1>1, EmptySeq
  <2>2. 0 \in 0..MaxTurn /\ FullResolve \in 0..FullResolve
    BY BoundsAssumption, ResolveAssumption
  <2> QED BY <2>1, <2>2 DEF NewEngine, Engines, Lang, Voices
<1>5. \A p \in Phases : Attempts(p) \in Nat \ {0} BY RetriesAssumption DEF Attempts
<1> QED BY <1>1, <1>2, <1>3, <1>4, <1>5

(* A shift leaves a boundary within its range, and wears it by one cap.     *)
LEMMA WornIs ==
  ASSUME NEW r \in 0..FullResolve, NEW shift \in Shifts
  PROVE  /\ Worn(r, Capped(shift)) \in 0..FullResolve
         /\ r <= Worn(r, Capped(shift)) + 1 /\ Worn(r, Capped(shift)) <= r
<1>1. Capped(shift) \in {0, 1} BY CappedIs, ResolveAssumption
<1> DEFINE k == Capped(shift)
<1> HIDE DEF k
<1>2. k \in {0, 1} BY <1>1 DEF k
<1>3. r \in Int /\ r >= 0 /\ r <= FullResolve /\ FullResolve \in Nat BY ResolveAssumption
<1>4. Max({0, r - k}) = IF r - k >= 0 THEN r - k ELSE 0 BY <1>2, <1>3, AtLeastZero
<1>5. Worn(r, k) \in 0..FullResolve /\ r <= Worn(r, k) + 1 /\ Worn(r, k) <= r
  BY <1>2, <1>3, <1>4 DEF Worn
<1> QED BY <1>5 DEF k

(* Trimming changes what it names, and no type.                             *)
LEMMA TrimmedIs ==
  ASSUME NEW e \in Engines
  PROVE  /\ Trimmed(e) \in Engines
         /\ Trimmed(e).history = LastN(e.history, Window)
         /\ Trimmed(e).forgotten = e.forgotten \o Cut(e.history)
         /\ Trimmed(e).turn = e.turn /\ Trimmed(e).display = e.display
         /\ Trimmed(e).summaries = e.summaries /\ Trimmed(e).resolve = e.resolve
         /\ Trimmed(e).voice = e.voice /\ Trimmed(e).told = e.told
         /\ Trimmed(e).lost = e.lost
<1>1. e.history \in Seq(Messages) /\ e.forgotten \in Seq(Messages) BY DEF Engines
<1>2. Window \in Nat \ {0} BY WindowAssumption
<1>3. LastN(e.history, Window) \in Seq(Messages) /\ Cut(e.history) \in Seq(Messages)
  BY <1>1, <1>2, Trimming
<1>4. e.forgotten \o Cut(e.history) \in Seq(Messages) BY <1>1, <1>3, ConcatProperties
<1> DEFINE w == LastN(e.history, Window)
           f == e.forgotten \o Cut(e.history)
<1>5. w \in Seq(Messages) /\ f \in Seq(Messages) BY <1>3, <1>4
<1>6. Trimmed(e) = [e EXCEPT !.history = w, !.forgotten = f] BY DEF Trimmed
<1> HIDE DEF w, f
<1>7. /\ Trimmed(e) \in Engines
      /\ Trimmed(e).history = w /\ Trimmed(e).forgotten = f
      /\ Trimmed(e).turn = e.turn /\ Trimmed(e).display = e.display
      /\ Trimmed(e).summaries = e.summaries /\ Trimmed(e).resolve = e.resolve
      /\ Trimmed(e).voice = e.voice /\ Trimmed(e).told = e.told
      /\ Trimmed(e).lost = e.lost
  BY <1>5, <1>6 DEF Engines
<1> QED BY <1>7 DEF w, f

-----------------------------------------------------------------------------
(* The story, between two turns and within one.                            *)

\* What was trimmed and what was not are what was told.
Partition(e) == e.forgotten \o e.history = e.told

\* The history has at most n messages, and exactly n once some were trimmed.
Room(e, n) ==
  /\ Len(e.history) \in 1..n
  /\ e.forgotten # <<>> => Len(e.history) = n

\* Of the first k messages trimmed, each is in a summary that at most half as
\* many followed as there are messages after it, or was lost.
CoveredTo(e, k) ==
  \A i \in 1..k :
    \/ e.forgotten[i] \in e.lost
    \/ \E j \in 1..Len(e.summaries) :
         e.forgotten[i] \in e.summaries[j] /\ 2 * (Len(e.summaries) - j) < k - i + 1

Covered(e) == CoveredTo(e, Len(e.forgotten))

\* The last message is an answer, to an input that a player sees unless it was
\* a continuation.
Ends(e) ==
  LET d == e.display  l == Len(d)  h == e.history  n == Len(h) IN
  /\ l >= 1 /\ h[n] = d[l] /\ IsAssistant(d[l]) /\ d[l].turn = e.turn
  /\ n > 1 =>
       /\ l > 1 /\ IsUser(h[n - 1])
       /\ h[n - 1].by = "continue" => IsAssistant(d[l - 1]) /\ d[l - 1].turn = e.turn - 1
       /\ h[n - 1].by # "continue" =>
            IsUser(d[l - 1]) /\ l > 2 /\ IsAssistant(d[l - 2]) /\ d[l - 2].turn = e.turn - 1

\* The last message is an input that waits for its answer.
Asked(e) ==
  LET d == e.display  l == Len(d)  h == e.history  n == Len(h) IN
  /\ n >= 1 /\ l >= 1 /\ IsUser(h[n])
  /\ h[n].by = "continue" => IsAssistant(d[l]) /\ d[l].turn = e.turn - 1
  /\ h[n].by # "continue" =>
       IsUser(d[l]) /\ l > 1 /\ IsAssistant(d[l - 1]) /\ d[l - 1].turn = e.turn - 1

\* No answer was regenerated; then, n turns wore the boundary.
Once(e) == \A i \in 1..Len(e.told) : e.told[i].take <= 1
WornBy(e, n) == Once(e) => FullResolve <= e.resolve + n

Rest(e) ==
  /\ Partition(e) /\ Room(e, Window) /\ Covered(e) /\ Ends(e) /\ WornBy(e, e.turn)

\* The end of what was trimmed is not summarised yet: the chunk, two messages,
\* or fewer when nothing was trimmed before it.
Chunked(e, c) ==
  LET k == Len(e.forgotten) - Len(c) IN
  /\ k >= 0 /\ CoveredTo(e, k)
  /\ \A i \in 1..Len(c) : c[i] = e.forgotten[k + i]
  /\ Len(c) <= 2 /\ (k > 0 /\ c # <<>> => Len(c) = 2)

AtRest == Rest(saved) /\ (pc = "idle" => eng = saved)

Begun ==
  pc \in Before => now.op \in Ops /\ eng = [saved EXCEPT !.turn = @ + 1, !.lang = eng.lang]

Redo == now.op = "regenerate"

Asks ==
  pc \in Asking =>
    /\ Partition(eng) /\ Covered(eng) /\ Asked(eng)
    /\ Room(eng, IF Redo THEN Window - 1 ELSE Window + 1)
    /\ WornBy(eng, IF Redo THEN eng.turn ELSE eng.turn - 1)
    /\ IsAssistant(now.answer) /\ now.answer.turn = eng.turn
    /\ Redo => now.answer.take > 1
    /\ ~Redo => now.op \in Ops

Context ==
  pc = "generate" =>
    /\ now.continuation = (eng.history[Len(eng.history)].by = "continue")
    /\ now.previous.turn = eng.turn - 1

\* A streamed turn trims when it summarises.
Untrimmed == pc \in {"extract", "summarise"} /\ now.op = "stream"

Answers ==
  pc \in After =>
    /\ Partition(eng) /\ Ends(eng) /\ Len(eng.history) > 1
    /\ Untrimmed => Room(eng, Window + 2) /\ Covered(eng) /\ now.chunk = Cut(eng.history)
    /\ ~Untrimmed => Room(eng, Window) /\ Chunked(eng, now.chunk)
    /\ pc \in {"media", "save"} <=> (pc # "extract" /\ now.chunk = <<>>)
    /\ WornBy(eng, IF pc = "extract" THEN eng.turn - 1 ELSE eng.turn)

Story == AtRest /\ Begun /\ Asks /\ Context /\ Answers

(* The last answer of a display is the one that no answer follows.          *)
LEMMA PreviousIs ==
  ASSUME NEW d \in Seq(Messages), NEW k \in 1..Len(d), IsAssistant(d[k]),
         \A i \in (k + 1)..Len(d) : ~IsAssistant(d[i])
  PROVE  Previous(d) = d[k] /\ d[k] \in Messages
<1> DEFINE A == {i \in DOMAIN d : IsAssistant(d[i])}
<1>1. Len(d) \in Nat /\ DOMAIN d = 1..Len(d) /\ d[k] \in Messages
  BY LenProperties, ElementOfSeq
<1>2. A \in SUBSET Int /\ k \in A /\ \A i \in A : i <= k BY <1>1
<1> HIDE DEF A
<1>3. Max(A) = k BY <1>2, MaxIs
<1> QED BY <1>1, <1>3 DEF Previous, A

(* Trimming to the window keeps the story whole and its end.                *)
LEMMA TrimKeeps ==
  ASSUME NEW e \in Engines, Partition(e), Room(e, Window + 2), Covered(e), Ends(e),
         Len(e.history) > 1
  PROVE  /\ Partition(Trimmed(e)) /\ Room(Trimmed(e), Window) /\ Ends(Trimmed(e))
         /\ Chunked(Trimmed(e), Cut(e.history)) /\ Len(Trimmed(e).history) > 1
<1> DEFINE t == Trimmed(e)
           h == e.history
           f == e.forgotten
           c == Cut(h)
           w == LastN(h, Window)
<1>1. /\ t \in Engines /\ t.history = w /\ t.forgotten = f \o c /\ t.turn = e.turn
      /\ t.display = e.display /\ t.summaries = e.summaries /\ t.told = e.told
      /\ t.lost = e.lost
  BY TrimmedIs
<1>2. h \in Seq(Messages) /\ f \in Seq(Messages) BY DEF Engines
<1>3. Window \in Nat /\ Window >= 2 /\ Window \in Nat \ {0} BY WindowAssumption
<1>4. /\ w \in Seq(Messages) /\ Len(w) = IF Len(h) > Window THEN Window ELSE Len(h)
      /\ \A i \in 1..Len(w) : w[i] = h[Len(h) - Len(w) + i]
      /\ c \in Seq(Messages) /\ c \o w = h /\ Len(c) = Len(h) - Len(w)
  <2> HIDE DEF h
  <2>1. h \in Seq(Messages) BY <1>2
  <2> QED BY <2>1, <1>3, Trimming
<1>5. Len(h) \in Nat /\ Len(f) \in Nat /\ Len(w) \in Nat /\ Len(c) \in Nat
  BY <1>2, <1>4, LenProperties
<1>6. f \o h = e.told /\ Len(h) \in 1..(Window + 2) /\ Len(h) > 1
      /\ (f # <<>> => Len(h) = Window + 2) /\ CoveredTo(e, Len(f))
  BY DEF Partition, Room, Covered
<1>7. /\ f \o c \in Seq(Messages) /\ Len(f \o c) = Len(f) + Len(c)
      /\ \A i \in 1..(Len(f) + Len(c)) :
           (f \o c)[i] = IF i <= Len(f) THEN f[i] ELSE c[i - Len(f)]
  <2>1. f \in Seq(Messages) /\ c \in Seq(Messages) BY <1>2, <1>4
  <2> HIDE DEF f, c
  <2> QED BY <2>1, ConcatProperties
<1>8. f # <<>> <=> Len(f) > 0
  <2> HIDE DEF f
  <2> QED BY <1>2, <1>5, EmptySeq
<1>9. c # <<>> <=> Len(c) > 0
  <2> HIDE DEF c
  <2> QED BY <1>4, <1>5, EmptySeq
<1>10. Partition(t)
  <2>1. (f \o c) \o w = f \o (c \o w)
    <3>1. f \in Seq(Messages) /\ c \in Seq(Messages) /\ w \in Seq(Messages) BY <1>2, <1>4
    <3> HIDE DEF f, c, w
    <3> QED BY <3>1, ConcatAssociative
  <2> HIDE DEF t, f, c, w, h
  <2> QED BY <2>1, <1>1, <1>4, <1>6 DEF Partition
<1>11. Room(t, Window)
  <2> HIDE DEF t, f, c, w, h
  <2>1. Len(w) \in 1..Window BY <1>3, <1>4, <1>5, <1>6
  <2>2. ASSUME f \o c # <<>> PROVE Len(w) = Window
    <3>1. Len(f) + Len(c) # 0 BY <2>2, <1>7, <1>5, EmptySeq
    <3>2. Len(f) > 0 \/ Len(c) > 0 BY <3>1, <1>5
    <3>3. Len(h) > Window BY <3>2, <1>3, <1>4, <1>5, <1>6, <1>8
    <3> QED BY <3>3, <1>4
  <2> QED BY <2>1, <2>2, <1>1 DEF Room
<1>12. Len(t.history) > 1
  <2> HIDE DEF t, f, c, w, h
  <2> QED BY <1>1, <1>3, <1>4, <1>5, <1>6
<1>13. Ends(t)
  <2>1. t.history[Len(w)] = h[Len(h)] /\ t.history[Len(w) - 1] = h[Len(h) - 1]
    <3> HIDE DEF t, f, c, w, h
    <3>1. Len(w) \in 1..Len(w) /\ Len(w) - 1 \in 1..Len(w)
          /\ Len(h) - Len(w) + Len(w) = Len(h)
          /\ Len(h) - Len(w) + (Len(w) - 1) = Len(h) - 1
      BY <1>1, <1>5, <1>12
    <3> QED BY <3>1, <1>1, <1>4
  <2> HIDE DEF t, w
  <2> QED BY <2>1, <1>1, <1>5, <1>6, <1>12 DEF Ends, IsAssistant, IsUser
<1>14. Chunked(t, c)
  <2> HIDE DEF t, f, c, w, h
  <2>1. Len(t.forgotten) - Len(c) = Len(f) BY <1>1, <1>5, <1>7
  <2>2. CoveredTo(t, Len(f))
    <3> SUFFICES ASSUME NEW i \in 1..Len(f)
                 PROVE  \/ t.forgotten[i] \in t.lost
                        \/ \E j \in 1..Len(t.summaries) :
                             /\ t.forgotten[i] \in t.summaries[j]
                             /\ 2 * (Len(t.summaries) - j) < Len(f) - i + 1
      BY DEF CoveredTo
    <3>1. i \in 1..(Len(f) + Len(c)) /\ i <= Len(f) BY <1>5
    <3>2. t.forgotten[i] = e.forgotten[i] BY <3>1, <1>1, <1>7 DEF f
    <3> QED BY <3>2, <1>1, <1>6 DEF CoveredTo
  <2>3. \A i \in 1..Len(c) : c[i] = t.forgotten[Len(f) + i]
    <3> SUFFICES ASSUME NEW i \in 1..Len(c) PROVE c[i] = t.forgotten[Len(f) + i]
      OBVIOUS
    <3>1. Len(f) + i \in 1..(Len(f) + Len(c)) /\ ~(Len(f) + i <= Len(f))
          /\ Len(f) + i - Len(f) = i
      BY <1>5
    <3> QED BY <3>1, <1>1, <1>7
  <2>4. Len(c) <= 2 /\ (Len(f) > 0 /\ c # <<>> => Len(c) = 2)
    BY <1>3, <1>4, <1>5, <1>6, <1>8
  <2> DEFINE k == Len(t.forgotten) - Len(c)
  <2>5. k = Len(f) /\ k >= 0 BY <2>1, <1>5
  <2> HIDE DEF k
  <2>6. CoveredTo(t, k) BY <2>2, <2>5
  <2>7. \A i \in 1..Len(c) : c[i] = t.forgotten[k + i] BY <2>3, <2>5
  <2>8. k > 0 /\ c # <<>> => Len(c) = 2 BY <2>4, <2>5
  <2> QED BY <2>4, <2>5, <2>6, <2>7, <2>8 DEF Chunked, k
<1> QED BY <1>10, <1>11, <1>12, <1>13, <1>14

(* A summary of the chunk stands for it, and is one more behind which the   *)
(* summaries before it recede, by half of what the story grew.              *)
LEMMA SummaryCovers ==
  ASSUME NEW e \in Engines, NEW c \in Seq(Messages), Chunked(e, c), c # <<>>
  PROVE  LET t == [e EXCEPT !.summaries = Append(@, Range(c))] IN
         t \in Engines /\ Covered(t)
<1> DEFINE t == [e EXCEPT !.summaries = Append(@, Range(c))]
           f == e.forgotten
           z == e.summaries
           k == Len(f) - Len(c)
<1>1. f \in Seq(Messages) /\ z \in Seq(SUBSET Messages) BY DEF Engines
<1>2. Len(f) \in Nat /\ Len(z) \in Nat /\ Len(c) \in Nat /\ DOMAIN c = 1..Len(c)
  BY <1>1, LenProperties
<1>3. Range(c) \in SUBSET Messages BY <1>2, ElementOfSeq DEF Range
<1>4. /\ Append(z, Range(c)) \in Seq(SUBSET Messages)
      /\ Len(Append(z, Range(c))) = Len(z) + 1
      /\ \A j \in 1..Len(z) : Append(z, Range(c))[j] = z[j]
      /\ Append(z, Range(c))[Len(z) + 1] = Range(c)
  <2> DEFINE r == Range(c)
  <2>1. r \in SUBSET Messages BY <1>3
  <2> HIDE DEF z, r
  <2>2. /\ Append(z, r) \in Seq(SUBSET Messages) /\ Len(Append(z, r)) = Len(z) + 1
        /\ \A j \in 1..Len(z) : Append(z, r)[j] = z[j]
        /\ Append(z, r)[Len(z) + 1] = r
    BY <1>1, <2>1, AppendProperties
  <2> QED BY <2>2 DEF r
<1> DEFINE y == Append(z, Range(c))
<1>5. t \in Engines /\ t.forgotten = f /\ t.lost = e.lost /\ t.summaries = y
  <2>1. y \in Seq(SUBSET Messages) /\ t = [e EXCEPT !.summaries = y] BY <1>4
  <2> HIDE DEF y
  <2> QED BY <2>1 DEF Engines
<1>6. /\ k \in Nat /\ CoveredTo(e, k) /\ \A i \in 1..Len(c) : c[i] = f[k + i]
      /\ Len(c) \in 1..2 /\ (k > 0 => Len(c) = 2)
  <2>1. Len(c) # 0 BY EmptySeq
  <2> QED BY <1>2, <2>1 DEF Chunked
<1>7. Len(f) = k + Len(c) BY <1>2
<1>8. Len(y) = Len(z) + 1 /\ y[Len(z) + 1] = Range(c) /\ \A j \in 1..Len(z) : y[j] = z[j]
  BY <1>4
<1> HIDE DEF t, f, z, k, y
<1>9. ASSUME NEW i \in 1..Len(f)
      PROVE  \/ f[i] \in e.lost
             \/ \E j \in 1..Len(y) : f[i] \in y[j] /\ 2 * (Len(y) - j) < Len(f) - i + 1
  <2>1. CASE i <= k
    <3>1. CASE f[i] \in e.lost BY <3>1
    <3>2. CASE \E j \in 1..Len(z) : f[i] \in z[j] /\ 2 * (Len(z) - j) < k - i + 1
      <4>1. PICK j \in 1..Len(z) : f[i] \in z[j] /\ 2 * (Len(z) - j) < k - i + 1 BY <3>2
      <4>2. j \in 1..Len(y) /\ y[j] = z[j] BY <1>2, <1>8
      <4>3. Len(c) = 2 BY <2>1, <1>2, <1>6
      <4>4. 2 * (Len(y) - j) < Len(f) - i + 1 BY <4>1, <4>3, <1>2, <1>6, <1>7, <1>8
      <4> QED BY <4>1, <4>2, <4>4
    <3>3. i \in 1..k BY <2>1, <1>6
    <3> QED BY <3>1, <3>2, <3>3, <1>6 DEF CoveredTo, f, z
  <2>2. CASE ~(i <= k)
    <3>1. i - k \in 1..Len(c) /\ k + (i - k) = i BY <2>2, <1>2, <1>6, <1>7
    <3>2. f[i] = c[i - k] BY <3>1, <1>6
    <3>3. f[i] \in Range(c) BY <3>1, <3>2, <1>2 DEF Range
    <3>4. Len(z) + 1 \in 1..Len(y) /\ 2 * (Len(y) - (Len(z) + 1)) < Len(f) - i + 1
      BY <1>2, <1>8
    <3> QED BY <3>3, <3>4, <1>8
  <2> QED BY <2>1, <2>2
<1>10. Covered(t) BY <1>5, <1>9 DEF Covered, CoveredTo
<1> QED BY <1>5, <1>10 DEF t

(* A chunk that no summary tells is lost.                                   *)
LEMMA LossCovers ==
  ASSUME NEW e \in Engines, NEW c \in Seq(Messages), Chunked(e, c)
  PROVE  LET t == [e EXCEPT !.lost = @ \union Range(c)] IN
         t \in Engines /\ Covered(t)
<1> DEFINE t == [e EXCEPT !.lost = @ \union Range(c)]
           f == e.forgotten
           z == e.summaries
           k == Len(f) - Len(c)
<1>1. f \in Seq(Messages) /\ z \in Seq(SUBSET Messages) BY DEF Engines
<1>2. Len(f) \in Nat /\ Len(z) \in Nat /\ Len(c) \in Nat /\ DOMAIN c = 1..Len(c)
  BY <1>1, LenProperties
<1>3. Range(c) \in SUBSET Messages BY <1>2, ElementOfSeq DEF Range
<1>4. t \in Engines /\ t.forgotten = f /\ t.lost = e.lost \union Range(c) /\ t.summaries = z
  BY <1>3 DEF Engines
<1>5. k \in Nat /\ CoveredTo(e, k) /\ \A i \in 1..Len(c) : c[i] = f[k + i]
  BY <1>2 DEF Chunked
<1>6. Len(f) = k + Len(c) BY <1>2
<1> HIDE DEF t, f, z, k
<1>7. ASSUME NEW i \in 1..Len(f)
      PROVE  \/ f[i] \in e.lost \union Range(c)
             \/ \E j \in 1..Len(z) : f[i] \in z[j] /\ 2 * (Len(z) - j) < Len(f) - i + 1
  <2>1. CASE i <= k
    <3>1. CASE f[i] \in e.lost BY <3>1
    <3>2. CASE \E j \in 1..Len(z) : f[i] \in z[j] /\ 2 * (Len(z) - j) < k - i + 1
      <4>1. PICK j \in 1..Len(z) : f[i] \in z[j] /\ 2 * (Len(z) - j) < k - i + 1 BY <3>2
      <4>2. 2 * (Len(z) - j) < Len(f) - i + 1 BY <4>1, <1>2, <1>5, <1>6
      <4> QED BY <4>1, <4>2
    <3>3. i \in 1..k BY <2>1, <1>5
    <3> QED BY <3>1, <3>2, <3>3, <1>5 DEF CoveredTo, f, z
  <2>2. CASE ~(i <= k)
    <3>1. i - k \in 1..Len(c) /\ k + (i - k) = i BY <2>2, <1>2, <1>5, <1>6
    <3>2. f[i] = c[i - k] BY <3>1, <1>5
    <3> QED BY <3>1, <3>2, <1>2 DEF Range
  <2> QED BY <2>1, <2>2
<1>8. Covered(t) BY <1>4, <1>7 DEF Covered, CoveredTo
<1> QED BY <1>4, <1>8 DEF t

(* A message more, at the end.                                              *)
LEMMA AppendIs ==
  ASSUME NEW S, NEW s \in Seq(S), NEW m \in S
  PROVE  /\ Append(s, m) \in Seq(S) /\ Len(Append(s, m)) = Len(s) + 1 /\ Len(s) \in Nat
         /\ \A i \in 1..Len(s) : Append(s, m)[i] = s[i]
         /\ Append(s, m)[Len(s) + 1] = m
<1>1. /\ Append(s, m) \in Seq(S) /\ Len(Append(s, m)) = Len(s) + 1
      /\ \A i \in 1..Len(s) : Append(s, m)[i] = s[i]
      /\ Append(s, m)[Len(s) + 1] = m
  BY AppendProperties
<1>2. Len(s) \in Nat BY LenProperties
<1> QED BY <1>1, <1>2

\* A message joins what is told and the history; the display may change too.
Told(e, m, d) == [e EXCEPT !.history = Append(@, m), !.told = Append(@, m), !.display = d]

(* Its place in the story: the last message, that nothing trimmed yet.      *)
LEMMA ToldMore ==
  ASSUME NEW e \in Engines, NEW m \in Messages, NEW d \in Seq(Messages),
         NEW n \in Nat, Partition(e), Room(e, n), Covered(e)
  PROVE  LET t == Told(e, m, d) IN
         /\ t \in Engines /\ Partition(t) /\ Room(t, n + 1) /\ Covered(t)
         /\ Len(t.history) = Len(e.history) + 1 /\ Len(e.history) \in Nat \ {0}
         /\ t.history[Len(t.history)] = m /\ t.history[Len(e.history)] = e.history[Len(e.history)]
         /\ t.display = d /\ t.turn = e.turn /\ t.forgotten = e.forgotten
         /\ t.voice = e.voice
         /\ \A k \in Int : WornBy(e, k) => WornBy(t, k)
         /\ m.take > 1 => ~Once(t)
         /\ \A x : Contains(e.told, x) \/ x = m => Contains(t.told, x)
<1> DEFINE t == Told(e, m, d)
           h == e.history
           o == e.told
<1>1. h \in Seq(Messages) /\ o \in Seq(Messages) /\ e.forgotten \in Seq(Messages)
  BY DEF Engines
<1>2. /\ Append(h, m) \in Seq(Messages) /\ Len(Append(h, m)) = Len(h) + 1 /\ Len(h) \in Nat
      /\ \A i \in 1..Len(h) : Append(h, m)[i] = h[i]
      /\ Append(h, m)[Len(h) + 1] = m
  <2> HIDE DEF h
  <2> QED BY <1>1, AppendIs
<1>3. /\ Append(o, m) \in Seq(Messages) /\ Len(Append(o, m)) = Len(o) + 1 /\ Len(o) \in Nat
      /\ \A i \in 1..Len(o) : Append(o, m)[i] = o[i]
      /\ Append(o, m)[Len(o) + 1] = m
  <2> HIDE DEF o
  <2> QED BY <1>1, AppendIs
<1> DEFINE a == Append(h, m)
           b == Append(o, m)
<1>4. /\ t \in Engines /\ t.history = a /\ t.told = b /\ t.display = d /\ t.turn = e.turn
      /\ t.forgotten = e.forgotten /\ t.summaries = e.summaries /\ t.lost = e.lost
      /\ t.resolve = e.resolve /\ t.voice = e.voice
  <2>1. a \in Seq(Messages) /\ b \in Seq(Messages)
        /\ t = [e EXCEPT !.history = a, !.told = b, !.display = d]
    BY <1>2, <1>3 DEF Told
  <2> HIDE DEF t, a, b
  <2> QED BY <2>1 DEF Engines
<1>5. Partition(t)
  <2>1. e.forgotten \o Append(h, m) = Append(e.forgotten \o h, m)
    <3> DEFINE f == e.forgotten
    <3>1. f \in Seq(Messages) BY <1>1
    <3> HIDE DEF f, h
    <3>2. f \o Append(h, m) = Append(f \o h, m) BY <1>1, <3>1, ConcatAppend
    <3> QED BY <3>2 DEF f
  <2> HIDE DEF t
  <2> QED BY <2>1, <1>4 DEF Partition
<1>6. Room(t, n + 1) /\ Len(h) # 0
  <2> HIDE DEF t
  <2> QED BY <1>2, <1>4 DEF Room
<1>7. Covered(t)
  <2> HIDE DEF t
  <2> QED BY <1>4 DEF Covered, CoveredTo
<1>8. ASSUME NEW i \in 1..Len(o) PROVE t.told[i] = o[i] /\ i \in 1..Len(t.told)
  <2> HIDE DEF t
  <2> QED BY <1>3, <1>4
<1>9. t.told[Len(o) + 1] = m /\ Len(o) + 1 \in 1..Len(t.told)
  <2> HIDE DEF t
  <2> QED BY <1>3, <1>4
<1>10. Once(t) => Once(e)
  <2> HIDE DEF t
  <2> QED BY <1>8 DEF Once
<1>11. \A k \in Int : WornBy(e, k) => WornBy(t, k)
  <2> HIDE DEF t
  <2> QED BY <1>4, <1>10 DEF WornBy
<1>12. m.take > 1 => ~Once(t)
  <2> HIDE DEF t
  <2>1. m.take \in Nat BY DEF Messages
  <2> QED BY <2>1, <1>9 DEF Once
<1>13. ASSUME NEW x, Contains(o, x) \/ x = m PROVE Contains(t.told, x)
  <2> HIDE DEF t
  <2> QED BY <1>8, <1>9, <1>13 DEF Contains
<1> HIDE DEF t
<1>14. t.history[Len(t.history)] = m /\ t.history[Len(h)] = h[Len(h)]
  BY <1>2, <1>4, <1>6
<1> QED BY <1>2, <1>4, <1>5, <1>6, <1>7, <1>11, <1>12, <1>13, <1>14 DEF t

-----------------------------------------------------------------------------
(* The steps of a turn.                                                    *)

\* A step that goes on with the turn and leaves the story as it is.
Quiet ==
  /\ UNCHANGED <<saved, eng, lock, shown>>
  /\ \/ pc' = pc
     \/ pc = "translate" /\ pc' = "prompt"
     \/ pc \in Asking /\ pc' \in Asking \ {"generate"}
  /\ now'.op = now.op /\ now'.answer = now.answer /\ now'.chunk = now.chunk
  /\ now'.voice = now.voice
  /\ now'.continuation = now.continuation /\ now'.previous = now.previous

\* The steps that are quiet when the call they make does not raise.
Talks ==
  RateLimited \/ TranslateInput \/ Generate \/ StreamToken \/ StreamEnds \/ TranslateOutput
    \/ Guard

(* A quiet step keeps the story.                                            *)
LEMMA QuietKeeps ==
  ASSUME Story, Quiet
  PROVE  Story'
<1>1. saved' = saved /\ eng' = eng /\ now'.op = now.op /\ now'.answer = now.answer
      /\ now'.chunk = now.chunk
      /\ now'.continuation = now.continuation /\ now'.previous = now.previous
  BY DEF Quiet
<1>2. CASE pc' = pc
  BY <1>1, <1>2 DEF Story, AtRest, Begun, Redo, Asks, Context, Untrimmed, Answers
<1>3. CASE pc = "translate" /\ pc' = "prompt"
  BY <1>1, <1>3 DEF Story, AtRest, Begun, Asks, Context, Answers, Before, After, Asking,
                    GuardCalls
<1>4. CASE pc \in Asking /\ pc' \in Asking \ {"generate"}
  BY <1>1, <1>4 DEF Story, AtRest, Begun, Redo, Asks, Context, Answers, Before, After,
                    Asking, GuardCalls
<1> QED BY <1>2, <1>3, <1>4 DEF Quiet

(* An exception leaves the story of the session.                            *)
LEMMA AbortStep ==
  ASSUME Typed, Story, NEW trouble \in {{}, {"nomedia"}}, Abort(trouble)
  PROVE  Typed' /\ Story' /\ now'.op = "none" /\ ~now'.refused
<1>1. /\ pc' = "idle" /\ now' = [NoWork EXCEPT !.trouble = trouble]
      /\ eng' = saved /\ lock' = FALSE /\ saved' = saved /\ shown' = shown
  BY DEF Abort
<1>2. now' \in Works /\ now'.attempt = 1 /\ now'.op = "none" /\ ~now'.refused
  <2>1. NoWork \in Works BY Beginnings
  <2>2. NoWork.attempt = 1 /\ NoWork.op = "none" /\ ~NoWork.refused BY DEF NoWork
  <2> QED BY <1>1, <2>1, <2>2 DEF Works
<1>3. Typed'
  <2>1. pc' \in Phases /\ 1 \in 1..Attempts(pc')
    BY <1>1, RetriesAssumption DEF Phases, Attempts
  <2> QED BY <1>1, <1>2, <2>1 DEF Typed
<1>4. Story'
  BY <1>1 DEF Story, AtRest, Begun, Asks, Context, Answers, Before, After, Asking,
              GuardCalls
<1> QED BY <1>2, <1>3, <1>4

(* What happens in a call goes on quietly, or raises.                       *)
LEMMA Going ==
  ASSUME Typed, Talks
  PROVE  (Typed' /\ Quiet) \/ Abort({})
<1>0. /\ saved \in Engines /\ eng \in Engines /\ now \in Works /\ pc \in Phases
      /\ lock \in BOOLEAN /\ shown \in Messages /\ now.attempt \in 1..Attempts(pc)
  BY DEF Typed
<1>1. ASSUME NEW p \in Phases, pc' = p, UNCHANGED <<saved, eng, lock, shown>>,
             now' \in Works, now'.attempt = 1
      PROVE  Typed'
  <2>1. 1 \in 1..Attempts(p) BY RetriesAssumption DEF Attempts
  <2> QED BY <1>0, <1>1, <2>1 DEF Typed
<1>2. CASE RateLimited
  <2>1. /\ UNCHANGED <<saved, eng, pc, lock, shown>> /\ now' = [now EXCEPT !.attempt = @ + 1]
        /\ now.attempt < Attempts(pc)
    BY <1>2 DEF RateLimited, MayRetry
  <2>2. now' \in Works /\ now'.attempt = now.attempt + 1 /\ Quiet
    BY <1>0, <2>1 DEF Works, Quiet
  <2>3. Attempts(pc) \in Nat BY RetriesAssumption DEF Attempts
  <2>4. now'.attempt \in 1..Attempts(pc) BY <1>0, <2>1, <2>2, <2>3
  <2> QED BY <1>0, <2>1, <2>2, <2>4 DEF Typed
<1>3. ASSUME NEW w \in Works, NEW p \in Phases, Goto(p, w), UNCHANGED <<eng, shown>>,
             \/ pc = "translate" /\ p = "prompt"
             \/ pc \in Asking /\ p \in Asking \ {"generate"},
             w.op = now.op, w.answer = now.answer, w.chunk = now.chunk, w.voice = now.voice,
             w.continuation = now.continuation, w.previous = now.previous
      PROVE  Typed' /\ Quiet
  <2>1. pc' = p /\ now' = [w EXCEPT !.attempt = 1] /\ UNCHANGED <<saved, lock, eng, shown>>
    BY <1>3 DEF Goto
  <2>2. now' \in Works /\ now'.attempt = 1 /\ now'.op = now.op /\ now'.answer = now.answer
        /\ now'.chunk = now.chunk /\ now'.voice = now.voice
        /\ now'.continuation = now.continuation /\ now'.previous = now.previous
    BY <1>3, <2>1 DEF Works
  <2>3. Quiet BY <1>3, <2>1, <2>2 DEF Quiet
  <2> QED BY <1>1, <2>1, <2>2, <2>3
<1>4. CASE TranslateInput
  <2>1. CASE Abort({}) BY <2>1
  <2>2. CASE pc = "translate" /\ Goto("prompt", now) /\ UNCHANGED <<eng, shown>>
    BY <1>0, <1>3, <2>2 DEF Phases
  <2> QED BY <1>4, <2>1, <2>2 DEF TranslateInput
<1>5. Translated \in {"judge", "tongue"} BY DEF Translated
<1>6. CASE Generate
  <2>1. CASE Abort({}) BY <2>1
  <2>2. CASE pc = "generate" /\ Goto(Translated, now) /\ UNCHANGED <<eng, shown>>
    BY <1>0, <1>3, <1>5, <2>2 DEF Phases, Calls, Asking
  <2> QED BY <1>6, <2>1, <2>2 DEF Generate
<1>7. CASE StreamToken
  <2>1. now' = [now EXCEPT !.begun = TRUE] /\ UNCHANGED <<saved, eng, pc, lock, shown>>
    BY <1>7 DEF StreamToken
  <2>2. now' \in Works /\ now'.attempt = now.attempt /\ Quiet
    BY <1>0, <2>1 DEF Works, Quiet
  <2> QED BY <1>0, <2>1, <2>2 DEF Typed
<1>8. CASE StreamEnds
  <2> DEFINE w == [now EXCEPT !.begun = FALSE]
  <2>1. CASE Abort({}) BY <2>1
  <2>2. CASE pc = "generate" /\ Goto(Translated, w) /\ UNCHANGED <<eng, shown>>
    <3>1. /\ w \in Works /\ w.op = now.op /\ w.answer = now.answer /\ w.chunk = now.chunk
          /\ w.voice = now.voice /\ w.continuation = now.continuation
          /\ w.previous = now.previous
      BY <1>0 DEF Works
    <3> HIDE DEF w
    <3> QED BY <1>3, <1>5, <2>2, <3>1 DEF Phases, Calls, Asking
  <2> QED BY <1>8, <2>1, <2>2 DEF StreamEnds
<1>9. CASE TranslateOutput
  <2>1. CASE Abort({}) BY <2>1
  <2>2. CASE pc = "tongue" /\ Goto("judge", now) /\ UNCHANGED <<eng, shown>>
    BY <1>0, <1>3, <2>2 DEF Phases, Calls, Asking
  <2> QED BY <1>9, <2>1, <2>2 DEF TranslateOutput
<1>10. ASSUME NEW p \in GuardCalls \union {"rejudge", "final"},
              NEW x \in Texts, NEW y \in Texts, NEW b \in BOOLEAN, NEW r \in BOOLEAN,
              NEW q \in SUBSET {"unnamed", "emptyrepair", "nofallback", "nomedia"},
              pc \in Asking, UNCHANGED <<eng, shown>>,
              Goto(p, [now EXCEPT !.revised = x, !.text = y, !.flawed = b, !.refused = r,
                                  !.trouble = q])
       PROVE  Typed' /\ Quiet
  <2> DEFINE w == [now EXCEPT !.revised = x, !.text = y, !.flawed = b, !.refused = r,
                              !.trouble = q]
  <2>1. /\ w \in Works /\ w.op = now.op /\ w.answer = now.answer /\ w.chunk = now.chunk
        /\ w.voice = now.voice /\ w.continuation = now.continuation
        /\ w.previous = now.previous
    BY <1>0 DEF Works
  <2>2. Goto(p, w) BY <1>10
  <2> HIDE DEF w
  <2>3. p \in Phases /\ p \in Asking \ {"generate"}
    BY DEF Phases, Calls, Asking, GuardCalls
  <2> QED BY <1>3, <1>10, <2>1, <2>2, <2>3
<1> DEFINE Edit(x, y, b, r, q) ==
             [now EXCEPT !.revised = x, !.text = y, !.flawed = b, !.refused = r, !.trouble = q]
<1>11. /\ \A b \in BOOLEAN : [now EXCEPT !.flawed = b]
                               = Edit(now.revised, now.text, b, now.refused, now.trouble)
       /\ now = Edit(now.revised, now.text, now.flawed, now.refused, now.trouble)
       /\ \A y \in Texts : [now EXCEPT !.text = y]
                             = Edit(now.revised, y, now.flawed, now.refused, now.trouble)
       /\ now.revised \in Texts /\ now.text \in Texts /\ now.flawed \in BOOLEAN
       /\ now.refused \in BOOLEAN
       /\ now.trouble \in SUBSET {"unnamed", "emptyrepair", "nofallback", "nomedia"}
  BY <1>0 DEF Works
<1> HIDE DEF Edit
<1>12. ASSUME NEW p \in GuardCalls \union {"rejudge", "final"},
              NEW x \in Texts, NEW y \in Texts, NEW b \in BOOLEAN, NEW r \in BOOLEAN,
              NEW q \in SUBSET {"unnamed", "emptyrepair", "nofallback", "nomedia"},
              pc \in Asking, UNCHANGED <<eng, shown>>, Goto(p, Edit(x, y, b, r, q))
       PROVE  Typed' /\ Quiet
  BY <1>10, <1>12 DEF Edit
<1>13. \A src \in {"repair", "fallback", "prefixed"} :
         /\ Written(src) \subseteq Texts /\ \A b \in BOOLEAN : Text(src, b) \in Texts
  BY Beginnings DEF Written, Text, Texts
<1>14. CASE JudgeDraft
  <2>1. PICK b \in BOOLEAN : Goto("validate", [now EXCEPT !.flawed = b])
        /\ pc = "judge" /\ UNCHANGED <<eng, shown>>
    BY <1>14 DEF JudgeDraft, Clean
  <2> QED BY <1>11, <1>12, <2>1 DEF Asking, GuardCalls
<1>15. CASE JudgeRepair
  <2>1. PICK b \in BOOLEAN : Goto("revalidate", [now EXCEPT !.flawed = b])
        /\ pc = "rejudge" /\ UNCHANGED <<eng, shown>>
    BY <1>15 DEF JudgeRepair, Clean
  <2> QED BY <1>11, <1>12, <2>1 DEF Asking, GuardCalls
<1>16. CASE ValidateDraft
  <2> DEFINE Work(r) == [now EXCEPT !.flawed = @ \/ FindsFault(r),
                                    !.refused = now.flawed \/ r # "valid",
                                    !.trouble = IF r = "unnamed" THEN @ \union {"unnamed"} ELSE @]
  <2>1. PICK r \in Outcome(Verdicts) :
          /\ IF Work(r).flawed THEN Goto("repair", Work(r))
             ELSE Goto("final", [Work(r) EXCEPT !.text = Draft])
          /\ pc = "validate" /\ UNCHANGED <<eng, shown>>
    BY <1>16 DEF ValidateDraft
  <2> DEFINE b == now.flawed \/ FindsFault(r)
             f == now.flawed \/ r # "valid"
             q == IF r = "unnamed" THEN now.trouble \union {"unnamed"} ELSE now.trouble
  <2>2. b \in BOOLEAN /\ f \in BOOLEAN
        /\ q \in SUBSET {"unnamed", "emptyrepair", "nofallback", "nomedia"}
    BY <1>11 DEF FindsFault
  <2>3. Work(r) = [now EXCEPT !.flawed = b, !.refused = f, !.trouble = q]
    BY <1>0 DEF Works
  <2> HIDE DEF Work, b, f, q
  <2>4. Work(r) = Edit(now.revised, now.text, b, f, q)
    BY <1>0, <2>3 DEF Works, Edit
  <2>5. [Work(r) EXCEPT !.text = Draft] = Edit(now.revised, Draft, b, f, q)
    BY <1>0, <2>3 DEF Works, Edit
  <2>6. Draft \in Texts BY Beginnings
  <2> QED BY <1>11, <1>12, <2>1, <2>2, <2>4, <2>5, <2>6 DEF Asking, GuardCalls
<1>17. CASE Repair
  <2>1. CASE Goto("final", [now EXCEPT !.text = Safe])
    <3>1. Safe \in Texts /\ pc = "repair" /\ UNCHANGED <<eng, shown>>
      BY <1>17, Beginnings DEF Repair
    <3> QED BY <1>11, <1>12, <2>1, <3>1 DEF Asking, GuardCalls
  <2>2. CASE \E x \in Written("repair") :
               Goto("rejudge", [now EXCEPT !.revised = x, !.flawed = FALSE])
    <3> DEFINE b == FALSE
    <3>1. PICK x \in Texts : Goto("rejudge", [now EXCEPT !.revised = x, !.flawed = b])
      BY <1>13, <2>2
    <3>2. b \in BOOLEAN OBVIOUS
    <3> HIDE DEF b
    <3>3. [now EXCEPT !.revised = x, !.flawed = b]
            = Edit(x, now.text, b, now.refused, now.trouble)
      BY <1>0 DEF Works, Edit
    <3>4. pc = "repair" /\ UNCHANGED <<eng, shown>> BY <1>17 DEF Repair
    <3> QED BY <1>11, <1>12, <3>1, <3>2, <3>3, <3>4 DEF Asking, GuardCalls
  <2> QED BY <1>17, <2>1, <2>2 DEF Repair
<1>18. ASSUME NEW q \in SUBSET {"unnamed", "emptyrepair", "nofallback", "nomedia"},
              pc \in Asking, UNCHANGED <<eng, shown>>,
              Goto("final", RepairOrDraft([now EXCEPT !.trouble = q]))
       PROVE  Typed' /\ Quiet
  <2> DEFINE w == [now EXCEPT !.trouble = q]
  <2>1. w.revised = now.revised /\ w.trouble = q BY <1>0 DEF Works
  <2>2. Draft \in Texts BY Beginnings
  <2>3. CASE now.revised = EmptyText
    <3>1. RepairOrDraft(w) = [w EXCEPT !.text = Draft, !.trouble = q \union {"emptyrepair"}]
      BY <2>1, <2>3 DEF RepairOrDraft
    <3>2. @ = Edit(now.revised, Draft, now.flawed, now.refused, q \union {"emptyrepair"})
      BY <1>0 DEF Works, Edit
    <3>3. q \union {"emptyrepair"} \in SUBSET {"unnamed", "emptyrepair", "nofallback", "nomedia"}
      OBVIOUS
    <3> HIDE DEF w
    <3> QED BY <1>11, <1>12, <1>18, <2>2, <3>1, <3>2, <3>3 DEF w
  <2>4. CASE now.revised # EmptyText
    <3>1. RepairOrDraft(w) = [w EXCEPT !.text = now.revised]
      BY <2>1, <2>4 DEF RepairOrDraft
    <3>2. @ = Edit(now.revised, now.revised, now.flawed, now.refused, q)
      BY <1>0 DEF Works, Edit
    <3> HIDE DEF w
    <3> QED BY <1>11, <1>12, <1>18, <3>1, <3>2 DEF w
  <2> QED BY <2>3, <2>4
<1>19. CASE ValidateRepair
  <2>1. pc = "revalidate" /\ UNCHANGED <<eng, shown>> BY <1>19 DEF ValidateRepair
  <2>2. CASE Goto("fallback", now)
    BY <1>11, <1>12, <2>1, <2>2 DEF Asking, GuardCalls
  <2>3. CASE Goto("final", RepairOrDraft(now))
    <3>1. now = [now EXCEPT !.trouble = now.trouble] BY <1>0 DEF Works
    <3> QED BY <1>11, <1>18, <2>1, <2>3, <3>1 DEF Asking, GuardCalls
  <2> QED BY <1>19, <2>2, <2>3 DEF ValidateRepair
<1>20. CASE Fallback
  <2>1. pc = "fallback" /\ UNCHANGED <<eng, shown>> BY <1>20 DEF Fallback
  <2>2. CASE Goto("novel", now)
    BY <1>11, <1>12, <2>1, <2>2 DEF Asking, GuardCalls
  <2>3. CASE \E y \in Written("fallback") : Goto("final", [now EXCEPT !.text = y])
    BY <1>11, <1>12, <1>13, <2>1, <2>3 DEF Asking, GuardCalls
  <2>4. CASE Goto("final", RepairOrDraft([now EXCEPT !.trouble = @ \union {"nofallback"}]))
    <3> DEFINE q == now.trouble \union {"nofallback"}
    <3>1. q \in SUBSET {"unnamed", "emptyrepair", "nofallback", "nomedia"} BY <1>11
    <3>2. Goto("final", RepairOrDraft([now EXCEPT !.trouble = q])) BY <2>4
    <3> HIDE DEF q
    <3> QED BY <1>18, <2>1, <3>1, <3>2 DEF Asking, GuardCalls
  <2> QED BY <1>20, <2>2, <2>3, <2>4 DEF Fallback
<1>21. CASE NovelFallback
  <2>1. pc = "novel" /\ UNCHANGED <<eng, shown>> BY <1>21 DEF NovelFallback
  <2>2. PICK y \in Texts : Goto("final", [now EXCEPT !.text = y])
    BY <1>13, <1>21 DEF NovelFallback
  <2> QED BY <1>11, <1>12, <2>1, <2>2 DEF Asking, GuardCalls
<1> QED
  BY <1>2, <1>4, <1>6, <1>7, <1>8, <1>9, <1>14, <1>15, <1>16, <1>17, <1>19, <1>20, <1>21
     DEF Talks, Guard

(* A turn starts from the story of the session.                             *)
LEMMA StartStep ==
  ASSUME Typed, Story, NEW op \in Ops, Start(op)
  PROVE  Typed' /\ Story'
<1>0. saved \in Engines /\ saved.lang \in Lang BY DEF Typed, Engines
<1>1. /\ pc = "idle" /\ saved.turn < MaxTurn /\ pc' \in Before
      /\ now' = [NoWork EXCEPT !.op = op]
      /\ lock' \in BOOLEAN /\ shown' = NoMessage /\ saved' = saved
  BY DEF Start, Before
<1>2. PICK l \in Lang : eng' = [saved EXCEPT !.turn = @ + 1, !.lang = l]
  BY <1>0 DEF Start, Loaded, Heard, Detected, Lang
<1>3. eng' \in Engines /\ eng' = [saved EXCEPT !.turn = @ + 1, !.lang = eng'.lang]
  <2>1. saved.turn + 1 \in 0..MaxTurn BY <1>0, <1>1, BoundsAssumption DEF Engines
  <2> QED BY <1>0, <1>2, <2>1 DEF Engines
<1>4. now' \in Works /\ now'.attempt = 1
  <2>1. NoWork \in Works /\ NoWork.attempt = 1 BY Beginnings DEF NoWork
  <2> QED BY <1>1, <2>1 DEF Works
<1>5. Typed'
  <2>1. pc' \in Phases /\ 1 \in 1..Attempts(pc')
    BY <1>1, RetriesAssumption DEF Phases, Calls, Before, Attempts
  <2> QED BY <1>0, <1>1, <1>3, <1>4, <2>1, Beginnings DEF Typed
<1>6. Story'
  <2>1. AtRest' BY <1>1 DEF Story, AtRest, Before
  <2>2. now'.op = op BY <1>1, Beginnings DEF Works
  <2>3. Begun' BY <1>1, <1>3, <2>2 DEF Begun
  <2>4. Asks' /\ Context' /\ Answers'
    BY <1>1 DEF Asks, Context, Answers, Before, After, Asking, GuardCalls
  <2> QED BY <2>1, <2>3, <2>4 DEF Story
<1> QED BY <1>5, <1>6

(* What the end of a story between two turns says of the answer before.     *)
LEMMA EndIs ==
  ASSUME NEW e \in Engines, Rest(e)
  PROVE  /\ Previous(e.display) \in Messages /\ Previous(e.display).turn = e.turn
         /\ Len(e.display) \in Nat \ {0} /\ e.display \in Seq(Messages)
         /\ e.display # <<>> /\ e.history # <<>>
         /\ IsAssistant(e.display[Len(e.display)])
         /\ e.display[Len(e.display)].turn = e.turn
<1> DEFINE d == e.display
<1>1. d \in Seq(Messages) /\ e.history \in Seq(Messages) BY DEF Engines
<1>2. Len(d) >= 1 /\ IsAssistant(d[Len(d)]) /\ d[Len(d)].turn = e.turn
      /\ Len(e.history) \in 1..Window
  BY DEF Rest, Ends, Room
<1>3. Len(d) \in Nat
  <2> HIDE DEF d
  <2> QED BY <1>1, LenProperties
<1>4. Previous(d) = d[Len(d)] /\ d[Len(d)] \in Messages
  <2> HIDE DEF d
  <2>1. Len(d) \in 1..Len(d) /\ \A i \in (Len(d) + 1)..Len(d) : ~IsAssistant(d[i])
    BY <1>2, <1>3
  <2> QED BY <2>1, <1>1, <1>2, PreviousIs
<1>5. d # <<>> /\ e.history # <<>>
  <2>1. Len(e.history) # 0 /\ Len(d) # 0 BY <1>2, WindowAssumption
  <2>2. Len(<<>>) = 0 BY EmptySeq
  <2> QED BY <2>1, <2>2
<1> QED BY <1>1, <1>2, <1>3, <1>4, <1>5

(* This turn's input joins the story.                                       *)
LEMMA PromptStep ==
  ASSUME Typed, Story, Prompt
  PROVE  Typed' /\ Story'
<1> DEFINE m == Message(IF now.op = "continue" THEN "continue" ELSE "player", eng.turn, 1)
           d == Display(eng.display, m)
           t == Told(eng, m, d)
<1>0. /\ saved \in Engines /\ eng \in Engines /\ now \in Works /\ lock \in BOOLEAN
      /\ shown \in Messages
  BY DEF Typed
<1>1. /\ pc = "prompt" /\ eng' = t
      /\ Goto("generate", [now EXCEPT !.previous = Previous(eng.display),
                                      !.continuation = (now.op = "continue"),
                                      !.answer = Message("narrator", eng.turn, 1)])
      /\ shown' = shown
  BY <1>0 DEF Prompt, Engines, Told
<1>2. Rest(saved) /\ eng = [saved EXCEPT !.turn = @ + 1, !.lang = eng.lang]
  BY <1>1 DEF Story, AtRest, Begun, Before
<1>3. /\ eng.turn = saved.turn + 1 /\ eng.history = saved.history /\ eng.told = saved.told
      /\ eng.display = saved.display /\ eng.forgotten = saved.forgotten
      /\ eng.lost = saved.lost /\ eng.summaries = saved.summaries
      /\ eng.resolve = saved.resolve
  <2> DEFINE l == eng.lang
  <2>1. eng = [saved EXCEPT !.turn = @ + 1, !.lang = l] BY <1>2
  <2> HIDE DEF l
  <2> QED BY <2>1, <1>0 DEF Engines
<1>4. /\ Previous(eng.display) \in Messages /\ Previous(eng.display).turn = eng.turn - 1
      /\ Len(eng.display) \in Nat \ {0} /\ eng.display \in Seq(Messages)
      /\ IsAssistant(eng.display[Len(eng.display)])
      /\ eng.display[Len(eng.display)].turn = eng.turn - 1
  <2>1. saved.turn \in Nat BY <1>0 DEF Engines
  <2> QED BY <1>0, <1>2, <1>3, <2>1, EndIs
<1>5. m \in Messages /\ IsUser(m) /\ eng.turn \in Nat
      /\ (m.by = "continue" <=> now.op = "continue")
  BY <1>0 DEF Message, Messages, IsUser, Engines
<1>6. /\ now' \in Works /\ now'.attempt = 1 /\ now'.op = now.op
      /\ now'.previous = Previous(eng.display) /\ now'.continuation = (now.op = "continue")
      /\ now'.answer = Message("narrator", eng.turn, 1) /\ now'.chunk = now.chunk
      /\ pc' = "generate" /\ saved' = saved /\ lock' = lock
  <2> DEFINE a == Message("narrator", eng.turn, 1)
             v == Previous(eng.display)
             c == (now.op = "continue")
  <2>1. a \in Messages /\ v \in Messages /\ c \in BOOLEAN
    BY <1>4, <1>5 DEF Message, Messages
  <2>2. Goto("generate", [now EXCEPT !.previous = v, !.continuation = c, !.answer = a])
    BY <1>1
  <2> DEFINE w == [now EXCEPT !.previous = v, !.continuation = c, !.answer = a]
  <2> HIDE DEF a, v, c
  <2>3. /\ w \in Works /\ w.op = now.op /\ w.previous = v
        /\ w.continuation = c /\ w.answer = a /\ w.chunk = now.chunk
    BY <1>0, <2>1 DEF Works
  <2>4. Goto("generate", w) BY <2>2
  <2> HIDE DEF w
  <2>5. /\ now' \in Works /\ now'.attempt = 1 /\ now'.op = now.op /\ now'.previous = v
        /\ now'.continuation = c /\ now'.answer = a /\ now'.chunk = now.chunk
    BY <2>3, <2>4 DEF Goto, Works
  <2> QED BY <2>4, <2>5 DEF Goto, a, v, c
<1>7. /\ Partition(eng) /\ Room(eng, Window) /\ Covered(eng) /\ WornBy(eng, eng.turn - 1)
  <2>1. saved.turn \in Nat /\ eng.turn - 1 = saved.turn BY <1>0, <1>3 DEF Engines
  <2>2. Partition(eng) /\ Room(eng, Window) BY <1>2, <1>3 DEF Rest, Partition, Room
  <2>3. Covered(eng) BY <1>2, <1>3 DEF Rest, Covered, CoveredTo
  <2>4. WornBy(eng, saved.turn) BY <1>2, <1>3 DEF Rest, WornBy, Once
  <2> QED BY <2>1, <2>2, <2>3, <2>4
<1>8. d \in Seq(Messages)
      /\ IF now.op = "continue" THEN d = eng.display
         ELSE /\ Len(d) = Len(eng.display) + 1 /\ d[Len(d)] = m
              /\ d[Len(d) - 1] = eng.display[Len(eng.display)]
  <2>1. CASE now.op = "continue" BY <2>1, <1>4, <1>5 DEF Display
  <2>2. CASE now.op # "continue"
    <3>1. d = Append(eng.display, m) BY <2>2, <1>5 DEF Display
    <3> HIDE DEF d, m
    <3>2. /\ Append(eng.display, m) \in Seq(Messages)
          /\ Len(Append(eng.display, m)) = Len(eng.display) + 1
          /\ \A i \in 1..Len(eng.display) : Append(eng.display, m)[i] = eng.display[i]
          /\ Append(eng.display, m)[Len(eng.display) + 1] = m
      BY <1>4, <1>5, AppendIs
    <3>3. Len(eng.display) \in 1..Len(eng.display) /\ Len(d) - 1 = Len(eng.display)
      BY <1>4, <3>1, <3>2
    <3> QED BY <2>2, <3>1, <3>2, <3>3
  <2> QED BY <2>1, <2>2
<1> HIDE DEF m, d, t
<1>9. /\ t \in Engines /\ Partition(t) /\ Room(t, Window + 1) /\ Covered(t)
      /\ Len(t.history) = Len(eng.history) + 1 /\ Len(eng.history) \in Nat \ {0}
      /\ t.history[Len(t.history)] = m /\ t.display = d /\ t.turn = eng.turn
      /\ WornBy(t, eng.turn - 1)
  <2>1. Window \in Nat /\ eng.turn - 1 \in Int BY <1>5, WindowAssumption
  <2> QED BY <1>0, <1>5, <1>7, <1>8, <2>1, ToldMore DEF t
<1>10. Typed'
  <2>1. "generate" \in Phases /\ 1 \in 1..Attempts("generate")
    BY RetriesAssumption DEF Phases, Calls, Attempts
  <2> QED BY <1>0, <1>1, <1>6, <1>9, <2>1 DEF Typed
<1>11. Asked(t)
  <2>1. CASE now.op = "continue"
    <3>1. m.by = "continue" /\ IsUser(m) /\ Len(t.history) >= 1 /\ d = eng.display
      BY <2>1, <1>5, <1>8, <1>9
    <3> QED BY <3>1, <1>4, <1>9 DEF Asked
  <2>2. CASE now.op # "continue"
    <3>1. m.by # "continue" /\ IsUser(m) /\ Len(t.history) >= 1
          /\ Len(d) > 1 /\ d[Len(d)] = m /\ d[Len(d) - 1] = eng.display[Len(eng.display)]
      BY <2>2, <1>4, <1>5, <1>8, <1>9
    <3> QED BY <3>1, <1>4, <1>9 DEF Asked
  <2> QED BY <2>1, <2>2
<1>12. now'.answer \in Messages /\ IsAssistant(now'.answer) /\ now'.answer.turn = eng.turn
  BY <1>5, <1>6 DEF Message, Messages, IsAssistant
<1>13. Asks'
  <2>1. now.op # "regenerate" /\ now.op \in Ops BY <1>1 DEF Story, Begun, Before, Ops
  <2> QED BY <1>1, <1>6, <1>9, <1>11, <1>12, <2>1 DEF Asks, Redo
<1>14. Context' BY <1>1, <1>4, <1>5, <1>6, <1>9 DEF Context
<1>15. AtRest' /\ Begun' /\ Answers'
  BY <1>2, <1>6 DEF AtRest, Begun, Answers, Before, After
<1> QED BY <1>10, <1>13, <1>14, <1>15 DEF Story

(* Dropping an answer that was not regenerated leaves its input, to be      *)
(* answered again.                                                          *)
LEMMA DropKeeps ==
  ASSUME NEW e \in Engines, Rest(e), Len(e.history) > 1,
         e.history[Len(e.history)].take = 1
  PROVE  LET t == [e EXCEPT !.history = Front(@), !.display = Front(@), !.told = Front(@)] IN
         /\ t \in Engines /\ Partition(t) /\ Room(t, Window - 1) /\ Covered(t) /\ Asked(t)
         /\ WornBy(t, t.turn) /\ t.turn = e.turn /\ t.voice = e.voice
         /\ Previous(t.display) \in Messages /\ Previous(t.display).turn = e.turn - 1
         /\ (~IsUser(t.display[Len(t.display)]))
              = (t.history[Len(t.history)].by = "continue")
         /\ t.display = Front(e.display) /\ t.history = Front(e.history)
<1> DEFINE t == [e EXCEPT !.history = Front(@), !.display = Front(@), !.told = Front(@)]
           h == e.history
           d == e.display
           o == e.told
           f == e.forgotten
           g == Front(h)
           c == Front(d)
           q == Front(o)
           n == Len(h)
           l == Len(d)
<1>1. h \in Seq(Messages) /\ d \in Seq(Messages) /\ o \in Seq(Messages) /\ f \in Seq(Messages)
  BY DEF Engines
<1>2. /\ f \o h = o /\ n \in 1..Window /\ n > 1 /\ (f # <<>> => n = Window) /\ h # <<>>
      /\ d # <<>>
  BY EndIs DEF Rest, Partition, Room
<1>3. /\ g \in Seq(Messages) /\ Len(g) = n - 1 /\ n \in Nat \ {0}
      /\ \A i \in 1..(n - 1) : g[i] = h[i]
  <2> HIDE DEF h
  <2> QED BY <1>1, <1>2, FrontIs
<1>4. /\ c \in Seq(Messages) /\ Len(c) = l - 1 /\ l \in Nat \ {0}
      /\ \A i \in 1..(l - 1) : c[i] = d[i]
  <2> HIDE DEF d
  <2> QED BY <1>1, <1>2, FrontIs
<1>5. /\ Len(o) = Len(f) + n /\ Len(f) \in Nat /\ o[Len(o)] = h[n]
  <2> HIDE DEF f, h
  <2>1. /\ Len(f \o h) = Len(f) + Len(h) /\ Len(f) \in Nat
        /\ \A i \in 1..(Len(f) + Len(h)) :
             (f \o h)[i] = IF i <= Len(f) THEN f[i] ELSE h[i - Len(f)]
    BY <1>1, ConcatProperties, LenProperties
  <2>2. Len(f) + n \in 1..(Len(f) + Len(h)) /\ ~(Len(f) + n <= Len(f))
        /\ Len(f) + n - Len(f) = n
    BY <1>3, <2>1
  <2> QED BY <1>2, <2>1, <2>2
<1>6. o # <<>>
  <2> HIDE DEF h, o, f
  <2>1. Len(o) # 0 BY <1>3, <1>5
  <2> QED BY <2>1, EmptySeq
<1>7. /\ q \in Seq(Messages) /\ Len(q) = Len(o) - 1 /\ Len(o) \in Nat \ {0}
      /\ \A i \in 1..(Len(o) - 1) : q[i] = o[i]
  <2> HIDE DEF o
  <2> QED BY <1>1, <1>6, FrontIs
<1>8. f \o g = q
  <2> HIDE DEF f, h, o
  <2> QED BY <1>1, <1>2, ConcatFront
<1>9. /\ t \in Engines /\ t.history = g /\ t.display = c /\ t.told = q /\ t.forgotten = f
      /\ t.turn = e.turn /\ t.resolve = e.resolve /\ t.lost = e.lost
      /\ t.summaries = e.summaries /\ t.voice = e.voice
  <2>1. g \in Seq(Messages) /\ c \in Seq(Messages) /\ q \in Seq(Messages)
        /\ t = [e EXCEPT !.history = g, !.display = c, !.told = q]
    BY <1>3, <1>4, <1>7
  <2> HIDE DEF g, c, q, t
  <2> QED BY <2>1 DEF Engines
<1>10. Partition(t)
  <2> HIDE DEF t, f, g, q
  <2> QED BY <1>8, <1>9 DEF Partition
<1>11. Room(t, Window - 1)
  <2> HIDE DEF t, f, g, h
  <2>1. Len(g) \in 1..(Window - 1) /\ (n = Window => Len(g) = Window - 1)
    BY <1>2, <1>3, WindowAssumption
  <2> QED BY <2>1, <1>2, <1>9 DEF Room
<1>12. Covered(t)
  <2> HIDE DEF t
  <2> QED BY <1>9 DEF Rest, Covered, CoveredTo, f
<1>13. /\ l > 1 /\ IsUser(h[n - 1])
       /\ h[n - 1].by = "continue" => IsAssistant(d[l - 1]) /\ d[l - 1].turn = e.turn - 1
       /\ h[n - 1].by # "continue" =>
            IsUser(d[l - 1]) /\ l > 2 /\ IsAssistant(d[l - 2]) /\ d[l - 2].turn = e.turn - 1
  BY <1>2 DEF Rest, Ends
<1>14. /\ Len(c) \in Nat \ {0} /\ Len(g) \in Nat \ {0} /\ IsUser(g[Len(g)])
       /\ g[Len(g)].by = "continue" =>
            IsAssistant(c[Len(c)]) /\ c[Len(c)].turn = e.turn - 1
       /\ g[Len(g)].by # "continue" =>
            /\ IsUser(c[Len(c)]) /\ Len(c) > 1 /\ IsAssistant(c[Len(c) - 1])
            /\ c[Len(c) - 1].turn = e.turn - 1
  <2> HIDE DEF c, g, d, h, l, n
  <2>1. Len(g) \in 1..(n - 1) /\ Len(g) = n - 1 /\ Len(c) \in 1..(l - 1) /\ Len(c) = l - 1
    BY <1>2, <1>3, <1>4, <1>13
  <2>2. g[Len(g)] = h[n - 1] /\ c[Len(c)] = d[l - 1] BY <2>1, <1>3, <1>4
  <2>3. l > 2 => Len(c) > 1 /\ c[Len(c) - 1] = d[l - 2] BY <2>1, <1>4
  <2> QED BY <2>1, <2>2, <2>3, <1>13
<1>15. Asked(t)
  <2> HIDE DEF t, c, g
  <2> QED BY <1>9, <1>14 DEF Asked
<1>16. Once(t) => Once(e)
  <2> SUFFICES ASSUME Once(t), NEW i \in 1..Len(o) PROVE o[i].take <= 1
    BY DEF Once
  <2> HIDE DEF t, o, q, h
  <2>1. CASE i = Len(o) BY <2>1, <1>5 DEF h
  <2>2. CASE i # Len(o)
    <3>1. i \in 1..(Len(o) - 1) /\ i \in 1..Len(q) BY <2>2, <1>7
    <3> QED BY <3>1, <1>7, <1>9 DEF Once
  <2> QED BY <2>1, <2>2
<1>17. WornBy(t, t.turn)
  <2> HIDE DEF t
  <2> QED BY <1>9, <1>16 DEF Rest, WornBy
<1>18. Previous(c) \in Messages /\ Previous(c).turn = e.turn - 1
  <2> HIDE DEF c, g
  <2>1. CASE g[Len(g)].by = "continue"
    <3>1. /\ Len(c) \in 1..Len(c) /\ IsAssistant(c[Len(c)])
          /\ \A i \in (Len(c) + 1)..Len(c) : ~IsAssistant(c[i])
      BY <2>1, <1>14
    <3> QED BY <3>1, <2>1, <1>4, <1>14, PreviousIs
  <2>2. CASE g[Len(g)].by # "continue"
    <3> DEFINE k == Len(c) - 1
    <3>1. IsUser(c[Len(c)]) /\ ~IsAssistant(c[Len(c)])
      BY <2>2, <1>14 DEF IsUser, IsAssistant
    <3>2. /\ k \in 1..Len(c) /\ IsAssistant(c[k]) /\ c[k].turn = e.turn - 1
          /\ \A i \in (k + 1)..Len(c) : i = Len(c)
      BY <2>2, <1>14
    <3>3. \A i \in (k + 1)..Len(c) : ~IsAssistant(c[i]) BY <3>1, <3>2
    <3> HIDE DEF k
    <3> QED BY <3>2, <3>3, <1>4, PreviousIs
  <2> QED BY <2>1, <2>2
<1>19. (~IsUser(c[Len(c)])) = (g[Len(g)].by = "continue")
  <2> HIDE DEF c, g
  <2>1. CASE g[Len(g)].by = "continue"
    <3>1. ~IsUser(c[Len(c)]) BY <2>1, <1>14 DEF IsUser, IsAssistant
    <3> QED BY <3>1, <2>1
  <2>2. CASE g[Len(g)].by # "continue"
    <3>1. IsUser(c[Len(c)]) BY <2>2, <1>14
    <3> QED BY <3>1, <2>2
  <2> QED BY <2>1, <2>2
<1>20. /\ Previous(t.display) = Previous(c) /\ t.display = c /\ t.history = g
  BY <1>9
<1> HIDE DEF t, c, g
<1> QED BY <1>9, <1>10, <1>11, <1>12, <1>15, <1>17, <1>18, <1>19, <1>20 DEF t, c, g

(* The last answer is taken back and asked for again.                       *)
LEMMA RegenerateStep ==
  ASSUME Typed, Story, Regenerate
  PROVE  Typed' /\ Story'
<1> DEFINE h == saved.history
           t == [saved EXCEPT !.history = Front(@), !.display = Front(@), !.told = Front(@)]
           a == [h[Len(h)] EXCEPT !.take = @ + 1]
           v == Previous(Front(saved.display))
           c == ~IsUser(Last(Front(saved.display)))
<1>0. saved \in Engines /\ now \in Works /\ Rest(saved) /\ h \in Seq(Messages)
  BY DEF Typed, Story, AtRest, Engines
<1>1. /\ Len(h) > 1 /\ h[Len(h)].take = 1 /\ IsAssistant(h[Len(h)]) /\ eng' = t
      /\ now' = [NoWork EXCEPT !.op = "regenerate", !.previous = v, !.continuation = c,
                               !.answer = a]
      /\ pc' = "generate" /\ lock' = TRUE /\ shown' = NoMessage /\ saved' = saved
  BY DEF Regenerate, Loaded, Last
<1>2. /\ t \in Engines /\ Partition(t) /\ Room(t, Window - 1) /\ Covered(t) /\ Asked(t)
      /\ WornBy(t, t.turn) /\ t.turn = saved.turn /\ v \in Messages
      /\ v.turn = saved.turn - 1
      /\ c = (t.history[Len(t.history)].by = "continue")
  <2> DEFINE e == saved
  <2>1. LET u == [e EXCEPT !.history = Front(@), !.display = Front(@), !.told = Front(@)] IN
         /\ u \in Engines /\ Partition(u) /\ Room(u, Window - 1) /\ Covered(u) /\ Asked(u)
         /\ WornBy(u, u.turn) /\ u.turn = e.turn
         /\ Previous(u.display) \in Messages /\ Previous(u.display).turn = e.turn - 1
         /\ (~IsUser(u.display[Len(u.display)]))
              = (u.history[Len(u.history)].by = "continue")
         /\ u.display = Front(e.display)
    BY <1>0, <1>1, DropKeeps
  <2> HIDE DEF t
  <2> QED BY <2>1 DEF t, Last
<1>3. h[Len(h)] \in Messages /\ h[Len(h)].turn = saved.turn
  <2>1. Len(h) \in 1..Len(h) BY <1>0, <1>1, LenProperties
  <2>2. h[Len(h)] \in Messages
    <3> HIDE DEF h
    <3> QED BY <1>0, <2>1, ElementOfSeq
  <2> QED BY <2>2, <1>0 DEF Rest, Ends
<1>4. a \in Messages /\ IsAssistant(a) /\ a.turn = saved.turn /\ a.take > 1
  <2> DEFINE m == h[Len(h)]
  <2>1. m \in Messages /\ m.turn = saved.turn /\ m.take = 1 /\ IsAssistant(m)
    BY <1>1, <1>3
  <2> HIDE DEF m, h
  <2>2. LET b == [m EXCEPT !.take = @ + 1] IN
          b \in Messages /\ b.by = m.by /\ b.turn = m.turn /\ b.take = 2
    BY <2>1 DEF Messages
  <2> QED BY <2>1, <2>2 DEF IsAssistant, m
<1>5. /\ now' \in Works /\ now'.attempt = 1 /\ now'.op = "regenerate" /\ now'.previous = v
      /\ now'.continuation = c /\ now'.answer = a
  <2>1. NoWork \in Works /\ NoWork.attempt = 1 /\ c \in BOOLEAN
    BY Beginnings DEF NoWork, IsUser
  <2> HIDE DEF a, v, c
  <2> QED BY <1>1, <1>2, <1>4, <2>1 DEF Works
<1> HIDE DEF t, a, v, c, h
<1>6. Typed'
  <2>1. "generate" \in Phases /\ 1 \in 1..Attempts("generate")
    BY RetriesAssumption DEF Phases, Calls, Attempts
  <2>2. NoMessage \in Messages BY Beginnings
  <2> QED BY <1>0, <1>1, <1>2, <1>5, <2>1, <2>2 DEF Typed
<1>7. Asks' BY <1>1, <1>2, <1>4, <1>5 DEF Asks, Redo
<1>8. Context' BY <1>1, <1>2, <1>5 DEF Context
<1>9. AtRest' /\ Begun' /\ Answers' BY <1>0, <1>1 DEF AtRest, Begun, Answers, Before, After
<1> QED BY <1>6, <1>7, <1>8, <1>9 DEF Story

(* The answer joins the story; what the window cannot hold is cut off now,  *)
(* or, if the turn is streamed, with its summary.                           *)
LEMMA AnswerStep ==
  ASSUME Typed, Story, Answer
  PROVE  Typed' /\ Story'
<1> DEFINE a == now.answer
           d == Append(eng.display, a)
           t == Told(eng, a, d)
<1>0. /\ saved \in Engines /\ eng \in Engines /\ now \in Works /\ shown \in Messages
      /\ a \in Messages /\ eng.turn \in Nat
  BY DEF Typed, Works, Engines
<1>1. PICK x \in {now.text, Safe} :
        /\ pc = "final" /\ pc' = "extract" /\ lock' = FALSE /\ saved' = saved
        /\ eng' = IF now.op \in {"step", "continue"} THEN Trimmed(t) ELSE t
        /\ now' = [now EXCEPT !.attempt = 1, !.text = x,
                              !.chunk = IF now.op = "regenerate" THEN <<>>
                                        ELSE Cut(t.history)]
        /\ shown' = IF now.op = "stream" THEN a ELSE shown
  <2>1. PICK r \in Outcome({"clean", "unclean"}) :
          LET said == [eng EXCEPT !.history = Append(@, a), !.display = Append(@, a),
                                  !.told = Append(@, a)]
          IN /\ eng' = IF now.op \in {"step", "continue"} THEN Trimmed(said) ELSE said
             /\ now' = [now EXCEPT !.attempt = 1,
                                   !.text = IF Clean(r) THEN @ ELSE Safe,
                                   !.chunk = IF now.op = "regenerate" THEN <<>>
                                             ELSE Cut(said.history)]
             /\ shown' = IF now.op = "stream" THEN a ELSE shown
    BY DEF Answer
  <2> DEFINE x == IF Clean(r) THEN now.text ELSE Safe
  <2>2. t = [eng EXCEPT !.history = Append(@, a), !.display = Append(@, a),
                        !.told = Append(@, a)]
    BY <1>0 DEF Told, Engines
  <2>3. /\ eng' = IF now.op \in {"step", "continue"} THEN Trimmed(t) ELSE t
        /\ now' = [now EXCEPT !.attempt = 1, !.text = x,
                              !.chunk = IF now.op = "regenerate" THEN <<>>
                                        ELSE Cut(t.history)]
        /\ shown' = IF now.op = "stream" THEN a ELSE shown
    <3> HIDE DEF t
    <3> QED BY <2>1, <2>2
  <2>4. x \in {now.text, Safe} OBVIOUS
  <2>5. pc = "final" /\ pc' = "extract" /\ lock' = FALSE /\ saved' = saved BY DEF Answer
  <2> HIDE DEF x, t
  <2> QED BY <2>3, <2>4, <2>5
<1>2. /\ Partition(eng) /\ Covered(eng) /\ Asked(eng)
      /\ Room(eng, IF Redo THEN Window - 1 ELSE Window + 1)
      /\ WornBy(eng, IF Redo THEN eng.turn ELSE eng.turn - 1)
      /\ IsAssistant(a) /\ a.turn = eng.turn /\ (Redo => a.take > 1)
      /\ (~Redo => now.op \in Ops)
  BY <1>1 DEF Story, Asks, Asking
<1>3. eng.display \in Seq(Messages) BY <1>0 DEF Engines
<1>4. /\ d \in Seq(Messages) /\ Len(d) = Len(eng.display) + 1 /\ d[Len(d)] = a
      /\ Len(eng.display) \in Nat /\ \A i \in 1..Len(eng.display) : d[i] = eng.display[i]
  <2> HIDE DEF a
  <2>1. LET s == eng.display IN
        /\ Append(s, a) \in Seq(Messages) /\ Len(Append(s, a)) = Len(s) + 1 /\ Len(s) \in Nat
        /\ \A i \in 1..Len(s) : Append(s, a)[i] = s[i]
        /\ Append(s, a)[Len(s) + 1] = a
    BY <1>0, <1>3, AppendIs
  <2> QED BY <2>1
<1> HIDE DEF a, d, t
<1>5. ASSUME NEW n \in Nat, Room(eng, n)
      PROVE  /\ t \in Engines /\ Partition(t) /\ Room(t, n + 1) /\ Covered(t)
             /\ Len(t.history) = Len(eng.history) + 1 /\ Len(eng.history) \in Nat \ {0}
             /\ t.history[Len(t.history)] = a
             /\ t.history[Len(eng.history)] = eng.history[Len(eng.history)]
             /\ t.display = d /\ t.turn = eng.turn
             /\ \A k \in Int : WornBy(eng, k) => WornBy(t, k)
             /\ a.take > 1 => ~Once(t)
  BY <1>0, <1>2, <1>4, <1>5, ToldMore DEF t
<1>6. Window - 1 \in Nat /\ Window + 1 \in Nat /\ Window - 1 + 1 = Window
      /\ Window + 1 + 1 = Window + 2 /\ Window \in Nat \ {0}
  BY WindowAssumption
<1>7. /\ t \in Engines /\ Partition(t) /\ Covered(t) /\ Len(t.history) > 1
      /\ Room(t, IF Redo THEN Window ELSE Window + 2) /\ t.turn = eng.turn
      /\ \A k \in Int : WornBy(eng, k) => WornBy(t, k)
      /\ a.take > 1 => ~Once(t)
  <2>1. CASE Redo BY <2>1, <1>2, <1>5, <1>6
  <2>2. CASE ~Redo BY <2>2, <1>2, <1>5, <1>6
  <2> QED BY <2>1, <2>2
<1>8. Ends(t)
  <2>1. /\ Len(t.history) = Len(eng.history) + 1 /\ Len(eng.history) \in Nat \ {0}
        /\ t.history[Len(t.history)] = a
        /\ t.history[Len(eng.history)] = eng.history[Len(eng.history)]
        /\ t.display = d /\ t.turn = eng.turn
    <3>1. PICK n \in Nat : Room(eng, n) BY <1>2, <1>6
    <3> QED BY <3>1, <1>5
  <2> DEFINE l == Len(d)
             n == Len(t.history)
             b == eng.display
             k == Len(b)
  <2>2. /\ k >= 1 /\ IsUser(eng.history[Len(eng.history)])
        /\ eng.history[Len(eng.history)].by = "continue" =>
             IsAssistant(b[k]) /\ b[k].turn = eng.turn - 1
        /\ eng.history[Len(eng.history)].by # "continue" =>
             IsUser(b[k]) /\ k > 1 /\ IsAssistant(b[k - 1]) /\ b[k - 1].turn = eng.turn - 1
    BY <1>2 DEF Asked
  <2>3. t.history[n - 1] = eng.history[Len(eng.history)] BY <2>1
  <2>4. l - 1 = k /\ d[l - 1] = b[k] /\ l > 1
    <3>1. k \in 1..k /\ l - 1 = k BY <1>4, <2>2
    <3> QED BY <3>1, <1>4, <2>2
  <2>5. k > 1 => l > 2 /\ d[l - 2] = b[k - 1]
    <3>1. ASSUME k > 1 PROVE k - 1 \in 1..k /\ l - 2 = k - 1 /\ l > 2 BY <1>4, <3>1
    <3> QED BY <3>1, <1>4
  <2> HIDE DEF l, n, b, k
  <2>6. l >= 1 /\ t.history[n] = d[l] /\ IsAssistant(d[l]) /\ d[l].turn = t.turn
    BY <1>2, <1>4, <2>1, <2>4 DEF l, n
  <2> QED BY <2>1, <2>2, <2>3, <2>4, <2>5, <2>6 DEF Ends, l, n
<1>9. WornBy(t, eng.turn - 1)
  <2>1. CASE Redo
    BY <2>1, <1>2, <1>7 DEF WornBy
  <2>2. CASE ~Redo
    <3>1. eng.turn - 1 \in Int BY <1>0
    <3> QED BY <2>2, <3>1, <1>2, <1>7
  <2> QED BY <2>1, <2>2
<1>10. /\ now' \in Works /\ now'.attempt = 1 /\ now'.op = now.op
       /\ now'.chunk = IF Redo THEN <<>> ELSE Cut(t.history)
  <2> DEFINE c == IF Redo THEN <<>> ELSE Cut(t.history)
  <2>1. t.history \in Seq(Messages) BY <1>7 DEF Engines
  <2>2. Cut(t.history) \in Seq(Messages) BY <2>1, <1>6, Trimming
  <2>3. c \in Seq(Messages) BY <2>2, EmptySeq
  <2>4. now' = [now EXCEPT !.attempt = 1, !.text = x, !.chunk = c] BY <1>1 DEF Redo
  <2>5. x \in Texts BY <1>0, Beginnings DEF Works
  <2> HIDE DEF c
  <2> DEFINE w == [now EXCEPT !.attempt = 1, !.text = x, !.chunk = c]
  <2>6. w \in Works
    <3>1. now \in Works BY <1>0
    <3>2. ASSUME NEW u \in Texts, NEW z \in Seq(Messages)
          PROVE  [now EXCEPT !.attempt = 1, !.text = u, !.chunk = z] \in Works
      <4> DEFINE n == [now EXCEPT !.text = u]
                 k == [n EXCEPT !.chunk = z]
      <4>1. n \in Works BY <3>1 DEF Works
      <4> HIDE DEF n
      <4>2. k \in Works BY <4>1 DEF Works
      <4> HIDE DEF k
      <4>3. [k EXCEPT !.attempt = 1] \in Works BY <4>2 DEF Works
      <4>4. [now EXCEPT !.attempt = 1, !.text = u, !.chunk = z] = [k EXCEPT !.attempt = 1]
        BY <3>1 DEF Works, n, k
      <4> QED BY <4>3, <4>4
    <3> QED BY <2>3, <2>5, <3>2
  <2>7. w.attempt = 1 /\ w.op = now.op /\ w.chunk = c BY <1>0 DEF Works
  <2> HIDE DEF w
  <2>8. now' = w BY <2>4 DEF w
  <2> QED BY <2>6, <2>7, <2>8 DEF c
<1>11. eng' \in Engines BY <1>1, <1>7, TrimmedIs
<1>12. Typed'
  <2>1. "extract" \in Phases /\ 1 \in 1..Attempts("extract")
    BY RetriesAssumption DEF Phases, Calls, Attempts
  <2> QED BY <1>0, <1>1, <1>10, <1>11, <2>1 DEF Typed
<1>13. /\ Partition(eng') /\ Ends(eng') /\ Len(eng'.history) > 1
       /\ WornBy(eng', eng'.turn - 1)
       /\ now.op = "stream" =>
            Room(eng', Window + 2) /\ Covered(eng') /\ now'.chunk = Cut(eng'.history)
       /\ now.op # "stream" => Room(eng', Window) /\ Chunked(eng', now'.chunk)
  <2>1. CASE now.op \in {"step", "continue"}
    <3>1. ~Redo /\ eng' = Trimmed(t) /\ now'.chunk = Cut(t.history) /\ now.op # "stream"
      BY <2>1, <1>1, <1>10 DEF Redo
    <3>2. /\ Partition(eng') /\ Ends(eng') /\ Len(eng'.history) > 1 /\ Room(eng', Window)
          /\ Chunked(eng', now'.chunk)
      BY <3>1, <1>7, <1>8, TrimKeeps
    <3>3. /\ eng'.turn = eng.turn /\ eng'.resolve = t.resolve /\ eng'.told = t.told
      BY <3>1, <1>7, TrimmedIs
    <3>4. WornBy(eng', eng'.turn - 1) BY <3>3, <1>9 DEF WornBy, Once
    <3> QED BY <3>1, <3>2, <3>4
  <2>2. CASE now.op = "stream"
    <3>1. ~Redo /\ eng' = t /\ now'.chunk = Cut(t.history) BY <2>2, <1>1, <1>10 DEF Redo
    <3> QED BY <2>2, <3>1, <1>7, <1>8, <1>9
  <2>3. CASE now.op \notin {"step", "continue", "stream"}
    <3>1. eng' = t /\ now.op # "stream" BY <2>3, <1>1
    <3>2. CASE Redo
      <4>1. Chunked(t, <<>>)
        <5>1. t.forgotten \in Seq(Messages) BY <1>7 DEF Engines
        <5>2. Len(t.forgotten) \in Nat BY <5>1, LenProperties
        <5>3. Len(<<>>) = 0 BY EmptySeq
        <5>4. Len(t.forgotten) - 0 = Len(t.forgotten) BY <5>2
        <5>5. CoveredTo(t, Len(t.forgotten)) BY <1>7 DEF Covered
        <5> QED BY <5>2, <5>3, <5>4, <5>5 DEF Chunked
      <4> QED BY <3>1, <3>2, <4>1, <1>7, <1>8, <1>9, <1>10
    <3>3. CASE ~Redo
      BY <1>2, <2>3, <3>3 DEF Ops
    <3> QED BY <3>2, <3>3
  <2> QED BY <2>1, <2>2, <2>3
<1>14. Answers' BY <1>1, <1>10, <1>13 DEF Answers, Untrimmed
<1>15. AtRest' /\ Begun' /\ Asks' /\ Context'
  BY <1>1 DEF Story, AtRest, Begun, Asks, Context, Before, Asking, GuardCalls
<1> QED BY <1>12, <1>14, <1>15 DEF Story

(* What is told of the story does not depend on the boundary or the voice.  *)
LEMMA SameStory ==
  ASSUME NEW e, NEW t, t.history = e.history, t.display = e.display, t.turn = e.turn,
         t.told = e.told, t.forgotten = e.forgotten
  PROVE  /\ Partition(e) => Partition(t)
         /\ \A n : Room(e, n) => Room(t, n)
         /\ Ends(e) => Ends(t)
         /\ Once(t) => Once(e)
         /\ t.lost = e.lost /\ t.summaries = e.summaries =>
              /\ Covered(e) => Covered(t)
              /\ \A c : Chunked(e, c) => Chunked(t, c)
<1>1. Partition(e) => Partition(t) BY DEF Partition
<1>2. \A n : Room(e, n) => Room(t, n) BY DEF Room
<1>3. Ends(e) => Ends(t) BY DEF Ends
<1>4. Once(t) => Once(e) BY DEF Once
<1>5. ASSUME t.lost = e.lost, t.summaries = e.summaries
      PROVE  /\ Covered(e) => Covered(t)
             /\ \A c : Chunked(e, c) => Chunked(t, c)
  <2>1. \A k : CoveredTo(e, k) => CoveredTo(t, k) BY <1>5 DEF CoveredTo
  <2>2. Covered(e) => Covered(t) BY <2>1 DEF Covered
  <2>3. \A c : Chunked(e, c) => Chunked(t, c) BY <2>1 DEF Chunked
  <2> QED BY <2>2, <2>3
<1> QED BY <1>1, <1>2, <1>3, <1>4, <1>5

(* Nothing waits to be summarised once all that was trimmed is covered.     *)
LEMMA NothingWaits ==
  ASSUME NEW e \in Engines
  PROVE  Chunked(e, <<>>) <=> Covered(e)
<1>1. e.forgotten \in Seq(Messages) BY DEF Engines
<1>2. Len(e.forgotten) \in Nat BY <1>1, LenProperties
<1>3. Len(<<>>) = 0 /\ Len(e.forgotten) - 0 = Len(e.forgotten) BY <1>2, EmptySeq
<1> QED BY <1>2, <1>3 DEF Chunked, Covered

(* What the answer changed on the entities, or nothing if that failed.      *)
LEMMA ExtractStep ==
  ASSUME Typed, Story, Extract
  PROVE  Typed' /\ Story' /\ pc' \in {"media", "summarise"} /\ now'.op = now.op
         /\ eng'.voice = eng.voice /\ eng'.told = eng.told
<1> DEFINE p == IF now.chunk = <<>> THEN "media" ELSE "summarise"
           w == [NoWork EXCEPT !.op = now.op, !.answer = now.answer, !.chunk = now.chunk]
<1>0. /\ saved \in Engines /\ eng \in Engines /\ now \in Works /\ shown \in Messages
      /\ eng.turn \in Nat /\ eng.resolve \in 0..FullResolve /\ lock \in BOOLEAN
  BY DEF Typed, Engines
<1>1. pc = "extract" /\ Goto(p, w) /\ UNCHANGED shown BY DEF Extract
<1>2. /\ eng' \in Engines /\ eng'.history = eng.history /\ eng'.display = eng.display
      /\ eng'.turn = eng.turn /\ eng'.told = eng.told /\ eng'.forgotten = eng.forgotten
      /\ eng'.lost = eng.lost /\ eng'.summaries = eng.summaries /\ eng'.voice = eng.voice
      /\ eng.resolve <= eng'.resolve + 1 /\ eng'.resolve \in Nat
  <2>1. CASE eng' = eng BY <2>1, <1>0
  <2>2. CASE \E shift \in Shifts : eng' = [eng EXCEPT !.resolve = Worn(@, Capped(shift))]
    <3>1. PICK shift \in Shifts : eng' = [eng EXCEPT !.resolve = Worn(@, Capped(shift))]
      BY <2>2
    <3> DEFINE r == Worn(eng.resolve, Capped(shift))
    <3>2. r \in 0..FullResolve /\ eng.resolve <= r + 1 BY <1>0, WornIs
    <3>3. eng' = [eng EXCEPT !.resolve = r] BY <3>1, <1>0 DEF Engines
    <3> HIDE DEF r
    <3>4. /\ eng' \in Engines /\ eng'.history = eng.history /\ eng'.display = eng.display
          /\ eng'.turn = eng.turn /\ eng'.told = eng.told /\ eng'.forgotten = eng.forgotten
          /\ eng'.lost = eng.lost /\ eng'.summaries = eng.summaries
          /\ eng'.voice = eng.voice /\ eng'.resolve = r
      BY <1>0, <3>2, <3>3 DEF Engines
    <3>5. r \in Nat BY <3>2, ResolveAssumption
    <3> QED BY <3>2, <3>4, <3>5
  <2> QED BY <2>1, <2>2 DEF Extract
<1>3. /\ now' \in Works /\ now'.attempt = 1 /\ now'.op = now.op /\ now'.answer = now.answer
      /\ now'.chunk = now.chunk /\ pc' = p /\ saved' = saved /\ lock' = lock
  <2>1. NoWork \in Works BY Beginnings
  <2>2. w \in Works /\ w.op = now.op /\ w.answer = now.answer /\ w.chunk = now.chunk
    BY <1>0, <2>1 DEF Works
  <2> HIDE DEF w
  <2> QED BY <1>1, <2>2 DEF Goto, Works
<1>4. p \in {"media", "summarise"} OBVIOUS
<1>5. Typed'
  <2>1. p \in Phases /\ 1 \in 1..Attempts(p)
    BY RetriesAssumption DEF Phases, Calls, Attempts
  <2> HIDE DEF p
  <2> QED BY <1>0, <1>1, <1>2, <1>3, <2>1 DEF Typed
<1>6. /\ Partition(eng) /\ Ends(eng) /\ Len(eng.history) > 1
      /\ now.op = "stream" =>
           Room(eng, Window + 2) /\ Covered(eng) /\ now.chunk = Cut(eng.history)
      /\ now.op # "stream" => Room(eng, Window) /\ Chunked(eng, now.chunk)
      /\ WornBy(eng, eng.turn - 1)
  BY <1>1 DEF Story, Answers, Untrimmed, After
<1>7. /\ Partition(eng') /\ Ends(eng') /\ Len(eng'.history) > 1
      /\ now.op = "stream" =>
           Room(eng', Window + 2) /\ Covered(eng') /\ now.chunk = Cut(eng'.history)
      /\ now.op # "stream" => Room(eng', Window) /\ Chunked(eng', now.chunk)
      /\ Once(eng') => Once(eng)
  <2> DEFINE e == eng
             t == eng'
  <2>1. t.history = e.history /\ t.display = e.display /\ t.turn = e.turn /\ t.told = e.told
        /\ t.forgotten = e.forgotten /\ t.lost = e.lost /\ t.summaries = e.summaries
    BY <1>2
  <2>2. /\ Partition(e) /\ Ends(e) /\ Len(e.history) > 1
        /\ now.op = "stream" =>
             Room(e, Window + 2) /\ Covered(e) /\ now.chunk = Cut(e.history)
        /\ now.op # "stream" => Room(e, Window) /\ Chunked(e, now.chunk)
    BY <1>6
  <2> HIDE DEF e, t
  <2>3. /\ Partition(t) /\ Ends(t) /\ Len(t.history) > 1
        /\ now.op = "stream" =>
             Room(t, Window + 2) /\ Covered(t) /\ now.chunk = Cut(t.history)
        /\ now.op # "stream" => Room(t, Window) /\ Chunked(t, now.chunk)
        /\ Once(t) => Once(e)
    BY <2>1, <2>2, SameStory
  <2> QED BY <2>3 DEF e, t
<1>8. WornBy(eng', eng'.turn)
  BY <1>0, <1>2, <1>6, <1>7, ResolveAssumption DEF WornBy
<1>9. Untrimmed' <=> p = "summarise" /\ now.op = "stream"
  BY <1>3 DEF Untrimmed
<1>10. ASSUME now.op = "stream", now.chunk = <<>>
       PROVE  Room(eng', Window) /\ Chunked(eng', now.chunk)
  <2>1. eng'.history \in Seq(Messages) /\ Window \in Nat /\ Window \in Nat \ {0}
    BY <1>2, WindowAssumption DEF Engines
  <2>2. Len(eng'.history) \in Nat BY <2>1, LenProperties
  <2>3. ~(Len(eng'.history) > Window)
    <3> SUFFICES ASSUME Len(eng'.history) > Window PROVE FALSE OBVIOUS
    <3>1. Len(Cut(eng'.history)) = Len(eng'.history) - Len(LastN(eng'.history, Window))
          /\ Len(LastN(eng'.history, Window)) = Window
      BY <2>1, Trimming
    <3>2. Len(<<>>) = 0 BY EmptySeq
    <3> QED BY <3>1, <3>2, <2>1, <2>2, <1>7, <1>10
  <2>4. Room(eng', Window) BY <2>1, <2>2, <2>3, <1>7, <1>10 DEF Room
  <2> QED BY <2>4, <1>2, <1>7, <1>10, NothingWaits
<1>11. Answers'
  <2>1. CASE p = "media"
    <3>1. now'.chunk = <<>> /\ now.chunk = <<>> BY <2>1, <1>3
    <3>2. ~Untrimmed' BY <2>1, <1>9
    <3>3. Room(eng', Window) /\ Chunked(eng', now'.chunk) BY <3>1, <1>3, <1>7, <1>10
    <3>4. pc' = "media" BY <2>1, <1>3
    <3> HIDE DEF p
    <3> QED BY <3>1, <3>2, <3>3, <3>4, <1>7, <1>8 DEF Answers
  <2>2. CASE p = "summarise"
    <3>1. now'.chunk # <<>> BY <2>2, <1>3
    <3>2. pc' = "summarise" BY <2>2, <1>3
    <3> HIDE DEF p
    <3> QED BY <2>2, <3>1, <3>2, <1>3, <1>7, <1>8, <1>9 DEF Answers
  <2> QED BY <2>1, <2>2
<1>12. AtRest' /\ Begun' /\ Asks' /\ Context'
  <2> HIDE DEF p
  <2> QED BY <1>3, <1>4 DEF Story, AtRest, Begun, Asks, Context, Before, Asking, GuardCalls
<1> QED BY <1>2, <1>3, <1>4, <1>5, <1>11, <1>12 DEF Story

(* The chunk gets a summary, or is lost; a streamed turn trims now.         *)
LEMMA SummariseStep ==
  ASSUME Typed, Story, Summarise
  PROVE  Typed' /\ Story' /\ pc' = "media" /\ now'.op = now.op
         /\ eng'.voice = eng.voice /\ eng'.told = eng.told
<1> DEFINE e == IF now.op = "stream" THEN Trimmed(eng) ELSE eng
           c == now.chunk
           w == [now EXCEPT !.chunk = <<>>]
<1>0. /\ saved \in Engines /\ eng \in Engines /\ now \in Works /\ shown \in Messages
      /\ c \in Seq(Messages) /\ lock \in BOOLEAN
  BY DEF Typed, Works
<1>1. pc = "summarise" /\ Goto("media", w) /\ shown' = shown BY DEF Summarise
<1>2. /\ Partition(eng) /\ Ends(eng) /\ Len(eng.history) > 1 /\ c # <<>>
      /\ now.op = "stream" => Room(eng, Window + 2) /\ Covered(eng) /\ c = Cut(eng.history)
      /\ now.op # "stream" => Room(eng, Window) /\ Chunked(eng, c)
      /\ WornBy(eng, eng.turn)
  BY <1>1 DEF Story, Answers, Untrimmed, After
<1>3. /\ e \in Engines /\ Partition(e) /\ Ends(e) /\ Len(e.history) > 1 /\ Room(e, Window)
      /\ Chunked(e, c) /\ WornBy(e, e.turn) /\ e.voice = eng.voice /\ e.told = eng.told
  <2>1. CASE now.op = "stream"
    <3>1. e = Trimmed(eng) BY <2>1
    <3> HIDE DEF e, c
    <3>2. /\ e \in Engines /\ e.voice = eng.voice /\ e.told = eng.told
          /\ e.turn = eng.turn /\ e.resolve = eng.resolve
      BY <3>1, <1>0, TrimmedIs
    <3>3. WornBy(e, e.turn) BY <3>2, <1>2 DEF WornBy, Once
    <3> QED BY <2>1, <3>1, <3>2, <3>3, <1>0, <1>2, TrimKeeps
  <2>2. CASE now.op # "stream" BY <2>2, <1>0, <1>2
  <2> QED BY <2>1, <2>2
<1>4. /\ now' \in Works /\ now'.attempt = 1 /\ now'.op = now.op /\ now'.chunk = <<>>
      /\ pc' = "media" /\ saved' = saved /\ lock' = lock
  <2>1. <<>> \in Seq(Messages) BY EmptySeq
  <2>2. w \in Works /\ w.op = now.op /\ w.chunk = <<>> BY <1>0, <2>1 DEF Works
  <2> HIDE DEF w
  <2> QED BY <1>1, <2>2 DEF Goto, Works
<1>5. /\ eng' \in Engines /\ Covered(eng')
      /\ eng'.history = e.history /\ eng'.display = e.display /\ eng'.turn = e.turn
      /\ eng'.told = e.told /\ eng'.forgotten = e.forgotten /\ eng'.voice = e.voice
      /\ eng'.resolve = e.resolve
  <2> DEFINE s == [e EXCEPT !.summaries = Append(@, Range(c))]
             z == [e EXCEPT !.lost = @ \union Range(c)]
  <2>1. eng' = s \/ eng' = z BY DEF Summarise
  <2> HIDE DEF e, c
  <2>2. s \in Engines /\ Covered(s) BY <1>0, <1>2, <1>3, SummaryCovers
  <2>3. z \in Engines /\ Covered(z) BY <1>0, <1>3, LossCovers
  <2>4. /\ s.history = e.history /\ s.display = e.display /\ s.turn = e.turn
        /\ s.told = e.told /\ s.forgotten = e.forgotten /\ s.voice = e.voice
        /\ s.resolve = e.resolve
    <3> DEFINE y == Append(e.summaries, Range(c))
    <3>1. s = [e EXCEPT !.summaries = y] BY <1>3 DEF Engines
    <3> HIDE DEF y, s
    <3> QED BY <3>1, <1>3 DEF Engines
  <2>5. /\ z.history = e.history /\ z.display = e.display /\ z.turn = e.turn
        /\ z.told = e.told /\ z.forgotten = e.forgotten /\ z.voice = e.voice
        /\ z.resolve = e.resolve
    BY <1>3 DEF Engines
  <2> HIDE DEF s, z
  <2> QED BY <2>1, <2>2, <2>3, <2>4, <2>5
<1> HIDE DEF e, c, w
<1>6. /\ Partition(eng') /\ Ends(eng') /\ Len(eng'.history) > 1 /\ Room(eng', Window)
      /\ Once(eng') => Once(e)
  <2> DEFINE t == eng'
  <2>1. /\ t.history = e.history /\ t.display = e.display /\ t.turn = e.turn
        /\ t.told = e.told /\ t.forgotten = e.forgotten
    BY <1>5
  <2> HIDE DEF t
  <2>2. /\ Partition(t) /\ Ends(t) /\ Len(t.history) > 1 /\ Room(t, Window)
        /\ Once(t) => Once(e)
    BY <1>3, <2>1, SameStory
  <2> QED BY <2>2 DEF t
<1>7. WornBy(eng', eng'.turn) BY <1>3, <1>5, <1>6 DEF WornBy
<1>8. Chunked(eng', now'.chunk) BY <1>4, <1>5, NothingWaits
<1>9. Typed'
  <2>1. "media" \in Phases /\ 1 \in 1..Attempts("media")
    BY RetriesAssumption DEF Phases, Attempts
  <2> QED BY <1>0, <1>1, <1>4, <1>5, <2>1 DEF Typed
<1>10. Answers' BY <1>4, <1>6, <1>7, <1>8 DEF Answers, Untrimmed
<1>11. AtRest' /\ Begun' /\ Asks' /\ Context'
  BY <1>4 DEF Story, AtRest, Begun, Asks, Context, Before, Asking, GuardCalls
<1> QED BY <1>3, <1>4, <1>5, <1>9, <1>10, <1>11 DEF Story

(* The voice of the character in view, which the engine keeps unless it was *)
(* given back already.                                                      *)
LEMMA MediaStep ==
  ASSUME Typed, Story, Media
  PROVE  /\ Typed' /\ Story'
         /\ \/ Abort({"nomedia"})
            \/ /\ pc' = "save" /\ now'.op = now.op /\ UNCHANGED <<saved, shown>>
               /\ eng'.told = eng.told
               /\ now.op # "stream" /\ now'.voice # NoVoice => eng'.voice = now'.voice
               /\ now.op # "stream" => eng.voice \in {NoVoice, eng'.voice}
<1>0. /\ saved \in Engines /\ eng \in Engines /\ now \in Works /\ shown \in Messages
      /\ eng.voice \in Voices /\ lock \in BOOLEAN
  BY DEF Typed, Works, Engines
<1>1. CASE Abort({"nomedia"}) BY <1>1, AbortStep
<1>2. ASSUME NEW v \in VoiceOf(eng), NEW narrated \in BOOLEAN,
             eng' = IF now.op = "stream" THEN eng ELSE [eng EXCEPT !.voice = v],
             Goto("save", [now EXCEPT !.voice = IF narrated THEN v ELSE NoVoice]),
             UNCHANGED shown
      PROVE  /\ Typed' /\ Story'
             /\ pc' = "save" /\ now'.op = now.op /\ UNCHANGED <<saved, shown>>
             /\ eng'.told = eng.told
             /\ now.op # "stream" /\ now'.voice # NoVoice => eng'.voice = now'.voice
             /\ now.op # "stream" => eng.voice \in {NoVoice, eng'.voice}
  <2>1. v \in Voices /\ eng.voice \in {NoVoice, v} BY <1>0 DEF VoiceOf, Voices
  <2>2. /\ eng' \in Engines /\ eng'.history = eng.history /\ eng'.display = eng.display
        /\ eng'.turn = eng.turn /\ eng'.told = eng.told /\ eng'.forgotten = eng.forgotten
        /\ eng'.lost = eng.lost /\ eng'.summaries = eng.summaries
        /\ eng'.resolve = eng.resolve
        /\ now.op # "stream" => eng'.voice = v
    <3>1. CASE now.op = "stream" BY <3>1, <1>0, <1>2
    <3>2. CASE now.op # "stream"
      <4>1. eng' = [eng EXCEPT !.voice = v] BY <3>2, <1>2
      <4> QED BY <4>1, <1>0, <2>1 DEF Engines
    <3> QED BY <3>1, <3>2
  <2>3. /\ now' \in Works /\ now'.attempt = 1 /\ now'.op = now.op /\ now'.chunk = now.chunk
        /\ pc' = "save" /\ saved' = saved /\ lock' = lock /\ now'.voice \in {NoVoice, v}
    <3> DEFINE u == IF narrated THEN v ELSE NoVoice
    <3>1. u \in Voices /\ u \in {NoVoice, v} BY <2>1 DEF Voices
    <3> DEFINE w == [now EXCEPT !.voice = u]
    <3>2. Goto("save", w) BY <1>2
    <3> HIDE DEF u
    <3>3. w \in Works /\ w.op = now.op /\ w.chunk = now.chunk /\ w.voice = u
      BY <1>0, <3>1 DEF Works
    <3> HIDE DEF w
    <3> QED BY <3>1, <3>2, <3>3 DEF Goto, Works
  <2>4. Typed'
    <3>1. "save" \in Phases /\ 1 \in 1..Attempts("save")
      BY RetriesAssumption DEF Phases, Attempts
    <3> QED BY <1>0, <1>2, <2>2, <2>3, <3>1 DEF Typed
  <2>5. /\ Partition(eng) /\ Ends(eng) /\ Len(eng.history) > 1
        /\ Room(eng, Window) /\ Chunked(eng, now.chunk) /\ now.chunk = <<>>
        /\ WornBy(eng, eng.turn)
    BY DEF Media, Story, Answers, Untrimmed, After
  <2>6. /\ Partition(eng') /\ Ends(eng') /\ Len(eng'.history) > 1
        /\ Room(eng', Window) /\ Chunked(eng', now.chunk) /\ (Once(eng') => Once(eng))
    <3> DEFINE e == eng
               t == eng'
    <3>1. t.history = e.history /\ t.display = e.display /\ t.turn = e.turn
          /\ t.told = e.told /\ t.forgotten = e.forgotten /\ t.lost = e.lost
          /\ t.summaries = e.summaries
      BY <2>2
    <3>2. /\ Partition(e) /\ Ends(e) /\ Len(e.history) > 1
          /\ Room(e, Window) /\ Chunked(e, now.chunk)
      BY <2>5
    <3> HIDE DEF e, t
    <3>3. /\ Partition(t) /\ Ends(t) /\ Len(t.history) > 1
          /\ Room(t, Window) /\ Chunked(t, now.chunk) /\ (Once(t) => Once(e))
      BY <3>1, <3>2, SameStory
    <3> QED BY <3>3 DEF e, t
  <2>7. WornBy(eng', eng'.turn) BY <2>2, <2>5, <2>6 DEF WornBy
  <2>8. Answers' BY <2>3, <2>5, <2>6, <2>7 DEF Answers, Untrimmed
  <2>9. AtRest' /\ Begun' /\ Asks' /\ Context'
    BY <2>3 DEF Story, AtRest, Begun, Asks, Context, Before, Asking, GuardCalls
  <2> QED BY <1>2, <2>1, <2>2, <2>3, <2>4, <2>8, <2>9 DEF Story
<1> QED BY <1>1, <1>2 DEF Media

(* The session keeps what the turn made of its story.                       *)
LEMMA SaveStep ==
  ASSUME Typed, Story, Save
  PROVE  Typed' /\ Story'
<1>0. /\ eng \in Engines /\ shown \in Messages /\ lock \in BOOLEAN BY DEF Typed
<1>1. /\ pc = "save" /\ saved' = eng /\ pc' = "idle" /\ now' = NoWork
      /\ UNCHANGED <<eng, lock, shown>>
  BY DEF Save
<1>2. Typed'
  <2>1. "idle" \in Phases /\ 1 \in 1..Attempts("idle") /\ NoWork.attempt = 1
    BY RetriesAssumption DEF Phases, Attempts, NoWork
  <2> QED BY <1>0, <1>1, <2>1, Beginnings DEF Typed
<1>3. Rest(eng)
  <2>1. /\ Partition(eng) /\ Ends(eng) /\ Room(eng, Window)
        /\ Chunked(eng, now.chunk) /\ now.chunk = <<>> /\ WornBy(eng, eng.turn)
    BY <1>1 DEF Story, Answers, Untrimmed, After
  <2> QED BY <1>0, <2>1, NothingWaits DEF Rest
<1>4. Story'
  <2>1. Rest(saved')
    BY <1>1, <1>3
  <2> QED BY <1>1, <2>1 DEF Story, AtRest, Begun, Asks, Context, Answers, Before, After,
                            Asking, GuardCalls
<1> QED BY <1>2, <1>4

(* A new session's engine has told its opening.                             *)
LEMMA InitStory ==
  ASSUME Init
  PROVE  Typed /\ Story
<1>1. PICK l \in Lang : saved = [NewEngine EXCEPT !.lang = l] BY DEF Init
<1>2. eng = saved /\ pc = "idle" /\ now = NoWork /\ lock = FALSE /\ shown = NoMessage
  BY DEF Init
<1>3. Typed
  <2>1. saved \in Engines BY <1>1, Beginnings
  <2>2. "idle" \in Phases /\ 1 \in 1..Attempts("idle") /\ NoWork.attempt = 1
    BY RetriesAssumption DEF Phases, Attempts, NoWork
  <2> QED BY <1>2, <2>1, <2>2, Beginnings DEF Typed
<1>4. /\ saved.history = <<Opening>> /\ saved.display = <<Opening>>
      /\ saved.told = <<Opening>> /\ saved.forgotten = <<>> /\ saved.turn = 0
      /\ saved.resolve = FullResolve
  BY <1>1 DEF NewEngine
<1>5. Len(<<Opening>>) = 1 /\ <<Opening>>[1] = Opening /\ <<>> \o <<Opening>> = <<Opening>>
      /\ Len(<<>>) = 0
  OBVIOUS
<1>6. Partition(saved) BY <1>4, <1>5 DEF Partition
<1>7. Room(saved, Window) BY <1>4, <1>5, WindowAssumption DEF Room
<1>8. Covered(saved) BY <1>4, <1>5 DEF Covered, CoveredTo
<1>9. Ends(saved)
  <2>1. IsAssistant(Opening) /\ Opening.turn = 0 BY DEF Opening, Message, IsAssistant
  <2> QED BY <2>1, <1>4, <1>5 DEF Ends
<1>10. WornBy(saved, saved.turn) BY <1>4, ResolveAssumption DEF WornBy
<1>11. Story
  BY <1>2, <1>6, <1>7, <1>8, <1>9, <1>10
     DEF Story, AtRest, Rest, Begun, Asks, Context, Answers, Before, After, Asking, GuardCalls
<1> QED BY <1>3, <1>11

(* Every step keeps the types and the story.                                *)
LEMMA StoryStep ==
  ASSUME Typed, Story, [Next]_vars
  PROVE  Typed' /\ Story'
<1>1. CASE Talks BY <1>1, Going, QuietKeeps, AbortStep
<1>2. CASE \E op \in Ops : Start(op) BY <1>2, StartStep
<1>3. CASE Prompt BY <1>3, PromptStep
<1>4. CASE Regenerate BY <1>4, RegenerateStep
<1>5. CASE Answer BY <1>5, AnswerStep
<1>6. CASE Extract BY <1>6, ExtractStep
<1>7. CASE Summarise BY <1>7, SummariseStep
<1>8. CASE Media BY <1>8, MediaStep
<1>9. CASE Save BY <1>9, SaveStep
<1>10. CASE UNCHANGED vars
  BY <1>10 DEF vars, Typed, Story, AtRest, Begun, Redo, Asks, Context, Untrimmed, Answers
<1> QED
  BY <1>1, <1>2, <1>3, <1>4, <1>5, <1>6, <1>7, <1>8, <1>9, <1>10 DEF Next, TurnStep, Talks

(* The inductive invariant.                                                 *)
LEMMA Telling == Spec => [](Typed /\ Story)
<1>1. Init => Typed /\ Story BY InitStory
<1>2. Typed /\ Story /\ [Next]_vars => (Typed /\ Story)' BY StoryStep
<1> QED BY <1>1, <1>2, PTL DEF Spec

-----------------------------------------------------------------------------
(* What follows of the story.                                              *)

(* Types: every variable is in its range, in every state.                   *)
THEOREM Types == Spec => []TypeOK
<1>1. Typed /\ Story => TypeOK
  BY DEF Typed, Story, AtRest, Rest, Room, TypeOK, Engines
<1> QED BY <1>1, Telling, PTL

(* Nothing said falls between the history and what was cut off it.          *)
THEOREM Whole == Spec => []HistoryPartition
<1>1. Typed /\ Story => HistoryPartition
  BY DEF Story, AtRest, Rest, Partition, HistoryPartition
<1> QED BY <1>1, Telling, PTL

(* A boundary wears by at most one cap per turn.                            *)
THEOREM Erosion == Spec => []ErosionPerTurn
<1>1. ASSUME Typed, Story PROVE ErosionPerTurn
  <2>1. ASSUME Redone(saved) = {} PROVE Once(saved)
    <3> SUFFICES ASSUME NEW i \in 1..Len(saved.told) PROVE saved.told[i].take <= 1
      BY DEF Once
    <3>1. saved.told \in Seq(Messages) BY <1>1 DEF Typed, Engines
    <3>2. saved.told[i] \in Messages BY <3>1, ElementOfSeq
    <3>3. saved.told[i].take \in Nat BY <3>2 DEF Messages
    <3>4. ~(saved.told[i].take > 1) BY <2>1 DEF Redone
    <3> QED BY <3>3, <3>4
  <2> QED BY <1>1, <2>1 DEF ErosionPerTurn, Story, AtRest, Rest, WornBy
<1> QED BY <1>1, Telling, PTL

(* The guard is told what the turn is about.                                *)
THEOREM GuardContext == Spec => []GuardContextIsRight
<1>1. Typed /\ Story => GuardContextIsRight
  BY DEF Story, Context, Asks, Asking, GuardContextIsRight, Last
<1> QED BY <1>1, Telling, PTL

(* The last n of a sequence are among its last n.                           *)
LEMMA InLastN ==
  ASSUME NEW S, NEW s \in Seq(S), NEW n \in Nat, NEW i \in 1..Len(s), Len(s) - i < n
  PROVE  s[i] \in Range(LastN(s, n))
<1> DEFINE w == LastN(s, n)
<1>1. Len(s) \in Nat BY LenProperties
<1>2. n \in Nat \ {0} BY <1>1
<1>3. /\ w \in Seq(S) /\ Len(w) = IF Len(s) > n THEN n ELSE Len(s)
      /\ \A j \in 1..Len(w) : w[j] = s[Len(s) - Len(w) + j]
  BY <1>2, Trimming
<1> HIDE DEF w
<1>4. Len(w) \in Nat /\ DOMAIN w = 1..Len(w) BY <1>3, LenProperties
<1> DEFINE j == i - (Len(s) - Len(w))
<1>5. j \in 1..Len(w) /\ Len(s) - Len(w) + j = i
  <2>1. CASE Len(s) > n
    <3>1. Len(w) = n BY <2>1, <1>3
    <3> QED BY <2>1, <3>1, <1>1, <1>2
  <2>2. CASE ~(Len(s) > n)
    <3>1. Len(w) = Len(s) BY <2>2, <1>3
    <3> QED BY <3>1, <1>1
  <2> QED BY <2>1, <2>2
<1>6. w[j] = s[i] BY <1>3, <1>5
<1>7. s[i] \in Range(w) BY <1>4, <1>5, <1>6 DEF Range
<1> QED BY <1>7 DEF w

(* What is in the window is shown, and what was trimmed is in a summary     *)
(* that few others followed.                                                *)
LEMMA Sight == Typed /\ Story => RecentStoryInSight
<1> SUFFICES ASSUME Typed, Story, pc = "generate" PROVE RecentStoryInSight
  BY DEF RecentStoryInSight
<1> DEFINE o == eng.told
           h == eng.history
           f == eng.forgotten
           z == eng.summaries
           reach == Window + 2 * ShownSummaries - (IF Redo THEN 2 ELSE 0)
<1>1. /\ o \in Seq(Messages) /\ h \in Seq(Messages) /\ f \in Seq(Messages)
      /\ z \in Seq(SUBSET Messages)
  BY DEF Typed, Engines
<1>2. /\ f \o h = o /\ CoveredTo(eng, Len(f))
      /\ Len(h) \in 1..(IF Redo THEN Window - 1 ELSE Window + 1)
      /\ f # <<>> => Len(h) = IF Redo THEN Window - 1 ELSE Window + 1
  BY DEF Story, Asks, Asking, Partition, Covered, Room
<1>3. Window \in Nat /\ Window >= 2 /\ ShownSummaries \in Nat BY WindowAssumption
<1>4. CoveredTo(eng, Len(f)) <=>
        \A i \in 1..Len(f) :
          \/ f[i] \in eng.lost
          \/ \E j \in 1..Len(z) : f[i] \in z[j] /\ 2 * (Len(z) - j) < Len(f) - i + 1
  BY DEF CoveredTo
<1> SUFFICES ASSUME NEW i \in 1..Len(o), i >= Len(o) - reach
             PROVE  \/ o[i] \in Range(Hot(h))
                    \/ o[i] \in UNION Range(Recalled(z))
                    \/ o[i] \in eng.lost
                    \/ i = Len(o) - Window
  BY DEF RecentStoryInSight, Redo
<1> HIDE DEF o, h, f, z
<1>5. /\ Len(f) \in Nat /\ Len(h) \in Nat /\ Len(z) \in Nat /\ Len(o) = Len(f) + Len(h)
      /\ \A k \in 1..(Len(f) + Len(h)) :
           (f \o h)[k] = IF k <= Len(f) THEN f[k] ELSE h[k - Len(f)]
  BY <1>1, <1>2, LenProperties, ConcatProperties
<1>6. CASE i > Len(f)
  <2> DEFINE k == i - Len(f)
  <2>1. k \in 1..Len(h) /\ o[i] = h[k] BY <1>2, <1>5, <1>6
  <2>2. CASE Len(h) - k < Window
    <3>1. h[k] \in Range(LastN(h, Window)) BY <2>1, <2>2, <1>1, <1>3, InLastN
    <3> QED BY <2>1, <3>1 DEF Hot
  <2>3. CASE ~(Len(h) - k < Window)
    <3>1. Len(h) <= Window + 1 BY <1>2, <1>3, <1>5
    <3>2. k = 1 /\ Len(h) = Window + 1 BY <2>1, <2>3, <3>1, <1>3, <1>5
    <3>3. i = Len(f) + 1 BY <3>2, <1>5
    <3>4. i = Len(o) - Window BY <3>2, <3>3, <1>3, <1>5
    <3> QED BY <3>4
  <2> QED BY <2>2, <2>3
<1>7. CASE ~(i > Len(f))
  <2>1. i \in 1..Len(f) /\ o[i] = f[i] BY <1>2, <1>5, <1>7
  <2>2. CASE f[i] \in eng.lost BY <2>1, <2>2
  <2>3. CASE \E j \in 1..Len(z) : f[i] \in z[j] /\ 2 * (Len(z) - j) < Len(f) - i + 1
    <3>1. PICK j \in 1..Len(z) : f[i] \in z[j] /\ 2 * (Len(z) - j) < Len(f) - i + 1
      BY <2>3
    <3>2. f # <<>> BY <2>1, <1>5, EmptySeq
    <3>3. Len(f) - i + 1 <= 2 * ShownSummaries
      <4>1. CASE Redo BY <4>1, <3>2, <1>2, <1>3, <1>5
      <4>2. CASE ~Redo BY <4>2, <3>2, <1>2, <1>3, <1>5
      <4> QED BY <4>1, <4>2
    <3>4. Len(z) - j < ShownSummaries BY <3>1, <3>3, <2>1, <1>3, <1>5
    <3>5. z[j] \in Range(LastN(z, ShownSummaries)) BY <3>4, <1>1, <1>3, InLastN
    <3> QED BY <2>1, <3>1, <3>5 DEF Recalled
  <2> QED BY <2>1, <2>2, <2>3, <1>2, <1>4
<1> QED BY <1>6, <1>7

(* The narrator sees the end of the story, or a summary of it, or it is     *)
(* lost; but for the one message that this turn's input pushed out.         *)
THEOREM InSight == Spec => []RecentStoryInSight
BY Telling, Sight, PTL

-----------------------------------------------------------------------------
(* What was streamed, and the voice.                                       *)

\* An answer streamed is one the engine has told.
Streamed ==
  /\ pc \in Before \union Asking => shown = NoMessage
  /\ pc \in After /\ shown # NoMessage => Contains(eng.told, shown)

(* A step of a turn keeps that, and a turn that ends has saved it.          *)
LEMMA StreamedStep ==
  ASSUME Typed, Story, Streamed, ShownIsSaved, [Next]_vars
  PROVE  Streamed' /\ ShownIsSaved'
<1>1. CASE Talks
  <2>1. CASE Quiet
    <3>1. /\ pc' = pc \/ pc' \in Before \union Asking
          /\ pc' \in Before \union Asking <=> pc \in Before \union Asking
          /\ (pc' = "idle" => pc = "idle") /\ UNCHANGED <<saved, eng, shown>>
      BY <2>1 DEF Quiet, Before, Asking, GuardCalls
    <3>2. pc # "idle"
      BY <1>1 DEF Talks, RateLimited, TranslateInput, Generate, StreamToken, StreamEnds,
                  TranslateOutput, Guard, JudgeDraft, ValidateDraft, Repair, JudgeRepair,
                  ValidateRepair, Fallback, NovelFallback, Calls, GuardCalls
    <3>3. pc' # "idle" BY <3>1, <3>2
    <3> QED BY <3>1, <3>3 DEF Streamed, ShownIsSaved, Before, After, Asking, GuardCalls
  <2>2. CASE ~Quiet
    <3>1. Abort({}) BY <1>1, <2>2, Going
    <3>2. pc' = "idle" /\ shown' = shown BY <3>1 DEF Abort
    <3>3. pc \in Before \union Asking
      <4>1. ~RateLimited /\ ~StreamToken
        BY <2>2 DEF RateLimited, StreamToken, Quiet, Typed, Works
      <4> QED
        BY <1>1, <4>1 DEF Talks, TranslateInput, Generate, StreamEnds,
                  TranslateOutput, Guard, JudgeDraft, ValidateDraft, Repair, JudgeRepair,
                  ValidateRepair, Fallback, NovelFallback, Before, Asking, GuardCalls
    <3> QED BY <3>2, <3>3 DEF Streamed, ShownIsSaved, Before, After, Asking, GuardCalls
  <2> QED BY <2>1, <2>2
<1>2. CASE Regenerate \/ \E op \in Ops : Start(op)
  <2>1. shown' = NoMessage BY <1>2 DEF Regenerate, Start
  <2> QED BY <2>1 DEF Streamed, ShownIsSaved
<1>3. CASE Prompt
  <2>1. pc = "prompt" /\ pc' = "generate" /\ shown' = shown BY <1>3 DEF Prompt, Goto
  <2> QED BY <2>1 DEF Streamed, ShownIsSaved, Before, After, Asking, GuardCalls
<1>4. CASE Answer
  <2>1. pc = "final" /\ pc' = "extract"
        /\ shown' = IF now.op = "stream" THEN now.answer ELSE shown
    BY <1>4 DEF Answer
  <2>2. shown = NoMessage BY <2>1 DEF Streamed, Asking
  <2>3. ASSUME now.op = "stream" PROVE Contains(eng'.told, now.answer)
    <3>1. eng \in Engines /\ now.answer \in Messages /\ eng.told \in Seq(Messages)
      BY DEF Typed, Engines, Works
    <3> DEFINE o == eng.told
               b == Append(o, now.answer)
    <3>2. eng'.told = b BY <2>3, <3>1, <1>4 DEF Answer, Engines
    <3>3. Len(b) = Len(o) + 1 /\ Len(o) \in Nat /\ b[Len(o) + 1] = now.answer
      <4> HIDE DEF o
      <4> QED BY <3>1, AppendIs DEF o
    <3> HIDE DEF b
    <3>4. Len(o) + 1 \in 1..Len(b) BY <3>3
    <3> QED BY <3>2, <3>3, <3>4 DEF Contains
  <2> QED BY <2>1, <2>2, <2>3 DEF Streamed, ShownIsSaved, Before, After, Asking, GuardCalls
<1>5. CASE Extract
  <2>1. pc = "extract" /\ pc' \in {"media", "summarise"} /\ shown' = shown
        /\ eng'.told = eng.told
    BY <1>5, ExtractStep DEF Extract
  <2> QED BY <2>1 DEF Streamed, ShownIsSaved, Before, After, Asking, GuardCalls
<1>6. CASE Summarise
  <2>1. pc = "summarise" /\ pc' = "media" /\ shown' = shown /\ eng'.told = eng.told
    BY <1>6, SummariseStep DEF Summarise
  <2> QED BY <2>1 DEF Streamed, ShownIsSaved, Before, After, Asking, GuardCalls
<1>7. CASE Media
  <2>1. CASE Abort({"nomedia"})
    <3>1. pc' = "idle" /\ now' = [NoWork EXCEPT !.trouble = {"nomedia"}]
      BY <2>1 DEF Abort
    <3>2. "nomedia" \in now'.trouble BY <3>1 DEF NoWork
    <3> QED BY <3>1, <3>2 DEF Streamed, ShownIsSaved, Before, After, Asking, GuardCalls
  <2>2. CASE pc' = "save" /\ UNCHANGED shown /\ eng'.told = eng.told
    <3>1. pc = "media" BY <1>7 DEF Media
    <3> QED BY <2>2, <3>1 DEF Streamed, ShownIsSaved, Before, After, Asking, GuardCalls
  <2> QED BY <1>7, <2>1, <2>2, MediaStep
<1>8. CASE Save
  <2>1. pc = "save" /\ pc' = "idle" /\ saved' = eng /\ shown' = shown BY <1>8 DEF Save
  <2> QED BY <2>1 DEF Streamed, ShownIsSaved, Before, After, Asking, GuardCalls
<1>9. CASE UNCHANGED vars BY <1>9 DEF vars, Streamed, ShownIsSaved
<1> QED
  BY <1>1, <1>2, <1>3, <1>4, <1>5, <1>6, <1>7, <1>8, <1>9 DEF Next, TurnStep, Talks

(* An answer that was streamed is part of the story when the turn is over,  *)
(* unless its media context could not be made.                              *)
THEOREM Shown == Spec => []ShownIsSaved
<1>1. Init => Streamed /\ ShownIsSaved
  BY DEF Init, Streamed, ShownIsSaved
<1>2. Typed /\ Story /\ Streamed /\ ShownIsSaved /\ [Next]_vars
        => (Streamed /\ ShownIsSaved)'
  BY StreamedStep
<1> QED BY <1>1, <1>2, Telling, PTL DEF Spec

\* The voice is the session's until the turn gives one, which it keeps.
VoiceHeld ==
  /\ pc # "save" => eng.voice = saved.voice
  /\ pc = "save" /\ now.op # "stream" =>
       /\ saved.voice \in {NoVoice, eng.voice}
       /\ now.voice # NoVoice => eng.voice = now.voice

(* Every step holds it.                                                     *)
LEMMA VoiceStep ==
  ASSUME Typed, Story, VoiceHeld, [Next]_vars
  PROVE  VoiceHeld'
<1>0. /\ saved \in Engines /\ eng \in Engines /\ now \in Works BY DEF Typed
<1>1. CASE Talks
  <2>1. CASE Quiet
    <3>1. pc # "save" /\ pc' # "save" /\ saved' = saved /\ eng' = eng
      BY <1>1, <2>1 DEF Quiet, Talks, RateLimited, TranslateInput, Generate, StreamToken,
                  StreamEnds, TranslateOutput, Guard, JudgeDraft, ValidateDraft, Repair,
                  JudgeRepair, ValidateRepair, Fallback, NovelFallback, Calls, GuardCalls,
                  Asking
    <3> QED BY <3>1 DEF VoiceHeld
  <2>2. CASE Abort({}) BY <2>2 DEF Abort, VoiceHeld
  <2> QED BY <1>1, <2>1, <2>2, Going
<1>2. CASE \E op \in Ops : Start(op)
  <2>1. saved' = saved /\ pc' # "save" BY <1>2 DEF Start
  <2>2. \E l \in Lang : eng' = [saved EXCEPT !.turn = @ + 1, !.lang = l]
    BY <1>0, <1>2 DEF Start, Loaded, Heard, Detected, Lang, Engines
  <2>3. eng'.voice = saved.voice BY <1>0, <2>2 DEF Engines
  <2> QED BY <2>1, <2>3 DEF VoiceHeld
<1>3. CASE Prompt
  <2>1. pc = "prompt" /\ pc' = "generate" /\ saved' = saved BY <1>3 DEF Prompt, Goto
  <2>2. eng'.voice = eng.voice BY <1>0, <1>3 DEF Prompt, Engines
  <2> QED BY <2>1, <2>2 DEF VoiceHeld
<1>4. CASE Regenerate
  <2>1. saved' = saved /\ pc' = "generate" BY <1>4 DEF Regenerate
  <2>2. eng'.voice = saved.voice BY <1>0, <1>4 DEF Regenerate, Loaded, Engines
  <2> QED BY <2>1, <2>2 DEF VoiceHeld
<1>5. CASE Answer
  <2>1. pc = "final" /\ pc' = "extract" /\ saved' = saved BY <1>5 DEF Answer
  <2> DEFINE said == [eng EXCEPT !.history = Append(@, now.answer),
                                 !.display = Append(@, now.answer),
                                 !.told = Append(@, now.answer)]
  <2>2. eng' = said \/ eng' = Trimmed(said) BY <1>5 DEF Answer
  <2>3. said.voice = eng.voice /\ Trimmed(said).voice = said.voice
    BY <1>0 DEF Engines, Trimmed
  <2> HIDE DEF said
  <2> QED BY <2>1, <2>2, <2>3 DEF VoiceHeld
<1>6. CASE Extract
  <2>1. pc = "extract" /\ pc' # "save" /\ saved' = saved /\ eng'.voice = eng.voice
    BY <1>6, ExtractStep DEF Extract, Goto
  <2> QED BY <2>1 DEF VoiceHeld
<1>7. CASE Summarise
  <2>1. pc = "summarise" /\ pc' # "save" /\ saved' = saved /\ eng'.voice = eng.voice
    BY <1>7, SummariseStep DEF Summarise, Goto
  <2> QED BY <2>1 DEF VoiceHeld
<1>8. CASE Media
  <2>1. CASE Abort({"nomedia"}) BY <2>1 DEF Abort, VoiceHeld
  <2>2. CASE ~Abort({"nomedia"})
    <3>1. pc = "media" BY <1>8 DEF Media
    <3>2. /\ pc' = "save" /\ now'.op = now.op /\ saved' = saved
          /\ now.op # "stream" /\ now'.voice # NoVoice => eng'.voice = now'.voice
          /\ now.op # "stream" => eng.voice \in {NoVoice, eng'.voice}
      BY <1>8, <2>2, MediaStep
    <3> QED BY <3>1, <3>2 DEF VoiceHeld
  <2> QED BY <2>1, <2>2
<1>9. CASE Save BY <1>9 DEF Save, VoiceHeld
<1>10. CASE UNCHANGED vars BY <1>10 DEF vars, VoiceHeld
<1> QED
  BY <1>1, <1>2, <1>3, <1>4, <1>5, <1>6, <1>7, <1>8, <1>9, <1>10 DEF Next, TurnStep, Talks

(* The voice of a turn's narration is the character's, before and after, if *)
(* the turn was not streamed.                                               *)
THEOREM VoiceStays == Spec => VoiceIsKeptUnlessStreamed
<1>1. Init => VoiceHeld BY DEF Init, VoiceHeld
<1>2. Typed /\ Story /\ VoiceHeld /\ [Next]_vars => VoiceHeld' BY VoiceStep
<1>3. Typed /\ Story /\ VoiceHeld /\ [Next]_vars
        => [GivesVoice /\ now.op # "stream"
              => saved'.voice = now.voice /\ saved.voice \in {NoVoice, now.voice}]_vars
  <2> SUFFICES ASSUME Typed, VoiceHeld, Next, GivesVoice, now.op # "stream"
               PROVE  saved'.voice = now.voice /\ saved.voice \in {NoVoice, now.voice}
    OBVIOUS
  <2>1. pc = "save" /\ pc' = "idle" /\ now.voice # NoVoice BY DEF GivesVoice
  <2>2. Save
    BY <2>1 DEF Next, TurnStep, Regenerate, Start, RateLimited, TranslateInput, Prompt,
                Generate, StreamToken, StreamEnds, TranslateOutput, Guard, JudgeDraft,
                ValidateDraft, Repair, JudgeRepair, ValidateRepair, Fallback, NovelFallback,
                Answer, Extract, Summarise, Media, Calls, GuardCalls
  <2> QED BY <2>1, <2>2 DEF Save, VoiceHeld
<1> QED BY <1>1, <1>2, <1>3, Telling, PTL DEF Spec, VoiceIsKeptUnlessStreamed

-----------------------------------------------------------------------------
(* One story: an engine's turns implement Storyline.                       *)

\* What a turn answers, and its answer, in terms of what the session keeps.
Input == Message(IF now.op = "continue" THEN "continue" ELSE "player", saved.turn + 1, 1)
Reply == IF Redo THEN [Last(saved.told) EXCEPT !.take = @ + 1]
         ELSE Message("narrator", saved.turn + 1, 1)

\* What its answer is told, and shown, after.
ToldBefore == IF Redo THEN Front(saved.told) ELSE Append(saved.told, Input)
ShownBefore == IF Redo THEN Front(saved.display) ELSE Display(saved.display, Input)

\* An answer can be told again: it ends what is told and what is shown.
Retellable(e) ==
  /\ e.turn > 0 /\ e.told # <<>> /\ e.display # <<>>
  /\ Last(e.told) \in Messages /\ Last(e.display) = Last(e.told)

\* The turn's copy is the session's story and the exchange of this turn.
InLine ==
  pc \in Asking \union After =>
    /\ now.answer = Reply
    /\ eng.turn = IF Redo THEN saved.turn ELSE saved.turn + 1
    /\ pc \in Asking => eng.told = ToldBefore /\ eng.display = ShownBefore
    /\ pc \in After => eng.told = Append(ToldBefore, Reply)
                       /\ eng.display = Append(ShownBefore, Reply)
    /\ pc \in Asking \union {"extract"} => eng.resolve = saved.resolve
    /\ eng.resolve <= saved.resolve /\ saved.resolve <= eng.resolve + 1
    /\ saved.voice # NoVoice => eng.voice = saved.voice
    /\ Redo => Retellable(saved)

(* Another last element, or the last element replaced.                      *)
LEMMA LastReplaced ==
  ASSUME NEW S, NEW s \in Seq(S), s # <<>>, NEW x \in S
  PROVE  Append(Front(s), x) = [s EXCEPT ![Len(s)] = x]
<1> DEFINE f == Front(s)
           a == Append(f, x)
           b == [s EXCEPT ![Len(s)] = x]
<1>1. /\ f \in Seq(S) /\ Len(f) = Len(s) - 1 /\ Len(s) \in Nat \ {0}
      /\ \A i \in 1..(Len(s) - 1) : f[i] = s[i]
  BY FrontIs
<1> HIDE DEF f
<1>2. /\ a \in Seq(S) /\ Len(a) = Len(f) + 1
      /\ \A i \in 1..Len(f) : a[i] = f[i]
      /\ a[Len(f) + 1] = x
  BY <1>1, AppendIs
<1>3. b \in Seq(S) /\ Len(b) = Len(s) /\ \A i \in 1..Len(s) : b[i] = IF i = Len(s) THEN x ELSE s[i]
  <2>1. Len(s) \in 1..Len(s) BY <1>1
  <2>2. b \in Seq(S) /\ Len(b) = Len(s) BY <2>1, ExceptSeq
  <2>3. DOMAIN s = 1..Len(s) BY LenProperties
  <2> QED BY <2>2, <2>3
<1> HIDE DEF a, b
<1>4. Len(a) = Len(b) BY <1>1, <1>2, <1>3
<1>5. ASSUME NEW i \in 1..Len(a) PROVE a[i] = b[i]
  <2>1. CASE i = Len(s) BY <2>1, <1>1, <1>2, <1>3
  <2>2. CASE i # Len(s)
    <3>1. i \in 1..(Len(s) - 1) /\ i \in 1..Len(f) /\ i \in 1..Len(s) BY <2>2, <1>1, <1>2
    <3> QED BY <3>1, <2>2, <1>1, <1>2, <1>3
  <2> QED BY <2>1, <2>2
<1>6. a = b BY <1>2, <1>3, <1>4, <1>5, SeqEqual
<1> QED BY <1>6 DEF a, b, f

(* Between two turns, the last answer of a story with more than its opening *)
(* can be told again.                                                       *)
LEMMA CanRetell ==
  ASSUME NEW e \in Engines, Rest(e), Len(e.history) > 1
  PROVE  Retellable(e) /\ Last(e.told) = Last(e.history)
<1> DEFINE d == e.display
           h == e.history
           f == e.forgotten
           o == e.told
<1>1. /\ d \in Seq(Messages) /\ h \in Seq(Messages) /\ f \in Seq(Messages)
      /\ o \in Seq(Messages) /\ e.turn \in Nat
  BY DEF Engines
<1>2. f \o h = o /\ Ends(e) BY DEF Rest, Partition
<1>3. /\ Len(d) >= 1 /\ h[Len(h)] = d[Len(d)] /\ Len(d) > 1
      /\ \/ d[Len(d) - 1].turn = e.turn - 1
         \/ Len(d) > 2 /\ d[Len(d) - 2].turn = e.turn - 1
  BY <1>2 DEF Ends
<1>4. Len(h) > 1 OBVIOUS
<1> HIDE DEF d, h, f, o
<1>5. Len(d) \in Nat /\ Len(h) \in Nat /\ Len(f) \in Nat /\ Len(o) \in Nat
  BY <1>1, LenProperties
<1>6. e.turn > 0
  <2>1. CASE d[Len(d) - 1].turn = e.turn - 1
    <3>1. Len(d) - 1 \in 1..Len(d) BY <1>3, <1>5
    <3>2. d[Len(d) - 1] \in Messages BY <3>1, <1>1, ElementOfSeq
    <3>3. e.turn - 1 \in Nat BY <2>1, <3>2 DEF Messages
    <3> QED BY <3>3, <1>1
  <2>2. CASE Len(d) > 2 /\ d[Len(d) - 2].turn = e.turn - 1
    <3>1. Len(d) - 2 \in 1..Len(d) BY <2>2, <1>5
    <3>2. d[Len(d) - 2] \in Messages BY <3>1, <1>1, ElementOfSeq
    <3>3. e.turn - 1 \in Nat BY <2>2, <3>2 DEF Messages
    <3> QED BY <3>3, <1>1
  <2> QED BY <2>1, <2>2, <1>3
<1>7. /\ Len(o) = Len(f) + Len(h)
      /\ \A i \in 1..(Len(f) + Len(h)) : o[i] = IF i <= Len(f) THEN f[i] ELSE h[i - Len(f)]
  BY <1>1, <1>2, ConcatProperties
<1>8. Len(o) \in 1..(Len(f) + Len(h)) /\ ~(Len(o) <= Len(f)) /\ Len(o) - Len(f) = Len(h)
  BY <1>4, <1>5, <1>7
<1>9. o[Len(o)] = h[Len(h)] BY <1>7, <1>8
<1>10. o[Len(o)] \in Messages
  <2>1. Len(o) \in 1..Len(o) BY <1>4, <1>5, <1>7
  <2> QED BY <2>1, <1>1, ElementOfSeq
<1>11. o # <<>> /\ d # <<>> BY <1>3, <1>4, <1>5, <1>7, EmptySeq
<1> QED BY <1>3, <1>6, <1>9, <1>10, <1>11 DEF Retellable, Last, o, d, h

(* A turn keeps its copy in line with what the session has.                 *)
LEMMA InLineStep ==
  ASSUME Typed, Story, InLine, [Next]_vars
  PROVE  InLine'
<1>0. /\ saved \in Engines /\ eng \in Engines /\ now \in Works
      /\ eng.resolve \in Nat /\ saved.resolve \in Nat
      /\ eng.told \in Seq(Messages) /\ eng.display \in Seq(Messages)
  BY ResolveAssumption DEF Typed, Engines
<1>a. ASSUME pc' \in {"idle"} \union Before PROVE InLine'
  BY <1>a DEF InLine, Before, Asking, After, GuardCalls
<1>b. ASSUME UNCHANGED saved, now'.op = now.op, now'.answer = now.answer
      PROVE  Reply' = Reply /\ ToldBefore' = ToldBefore /\ ShownBefore' = ShownBefore
             /\ Redo' = Redo
  BY <1>b DEF Reply, ToldBefore, ShownBefore, Redo, Input
<1>c. ASSUME pc \in After, pc' \in After \ {"extract"}, UNCHANGED saved,
             now'.op = now.op, now'.answer = now.answer, eng'.turn = eng.turn,
             eng'.told = eng.told, eng'.display = eng.display,
             eng'.resolve <= saved.resolve /\ saved.resolve <= eng'.resolve + 1,
             eng.voice # NoVoice => eng'.voice = eng.voice
      PROVE  InLine'
  <2>1. ~(pc' \in Asking) BY <1>c DEF Asking, After, GuardCalls
  <2> QED BY <1>b, <1>c, <2>1 DEF InLine
<1>1. CASE Talks
  <2>1. CASE Abort({}) BY <2>1, <1>a DEF Abort
  <2>2. CASE Quiet
    <3>1. UNCHANGED <<saved, eng>> /\ now'.op = now.op /\ now'.answer = now.answer
      BY <2>2 DEF Quiet
    <3>2. CASE pc' = pc BY <3>1, <3>2, <1>b DEF InLine
    <3>3. CASE pc = "translate" /\ pc' = "prompt" BY <3>3, <1>a DEF Before
    <3>4. CASE pc \in Asking /\ pc' \in Asking \ {"generate"}
      <4>1. pc' \notin After BY <3>4 DEF Asking, After, GuardCalls
      <4> QED BY <3>1, <3>4, <4>1, <1>b DEF InLine
    <3> QED BY <2>2, <3>2, <3>3, <3>4 DEF Quiet
  <2> QED BY <1>1, <2>1, <2>2, Going
<1>2. CASE \E op \in Ops : Start(op)
  <2>1. pc' \in Before BY <1>2 DEF Start, Before
  <2> QED BY <2>1, <1>a
<1>3. CASE Prompt
  <2> DEFINE l == eng.lang
  <2>1. pc = "prompt" /\ pc' = "generate" /\ saved' = saved BY <1>3 DEF Prompt, Goto
  <2>2. now.op \in Ops /\ eng = [saved EXCEPT !.turn = @ + 1, !.lang = l]
    BY <2>1 DEF Story, Begun, Before
  <2> HIDE DEF l
  <2>3. /\ eng.turn = saved.turn + 1 /\ eng.told = saved.told /\ eng.display = saved.display
        /\ eng.resolve = saved.resolve /\ eng.voice = saved.voice
    BY <2>2, <1>0 DEF Engines
  <2>4. now'.op = now.op /\ now'.answer = Message("narrator", eng.turn, 1)
    <3> DEFINE a == Message("narrator", eng.turn, 1)
    <3>1. PICK v, c : now' = [[now EXCEPT !.previous = v, !.continuation = c, !.answer = a]
                                 EXCEPT !.attempt = 1]
      BY <1>3 DEF Prompt, Goto
    <3> HIDE DEF a
    <3>2. now'.op = now.op /\ now'.answer = a BY <3>1, <1>0 DEF Works
    <3> QED BY <3>2 DEF a
  <2>5. ~Redo /\ ~Redo' BY <2>2, <2>4 DEF Redo, Ops
  <2>6. Input = Message(IF now.op = "continue" THEN "continue" ELSE "player", eng.turn, 1)
        /\ Input' = Input
    BY <2>1, <2>3, <2>4 DEF Input
  <2>7. /\ eng'.told = Append(saved.told, Input)
        /\ eng'.display = Display(saved.display, Input)
        /\ eng'.turn = eng.turn /\ eng'.resolve = eng.resolve /\ eng'.voice = eng.voice
    <3> DEFINE b == Append(eng.told, Input)
               d == Display(eng.display, Input)
               g == Append(eng.history, Input)
    <3>1. eng' = [eng EXCEPT !.history = g, !.told = b, !.display = d]
      BY <1>3, <2>6, <1>0 DEF Prompt, Engines
    <3> HIDE DEF b, d, g
    <3>2. eng'.told = b /\ eng'.display = d /\ eng'.turn = eng.turn
          /\ eng'.resolve = eng.resolve /\ eng'.voice = eng.voice
      BY <3>1, <1>0 DEF Engines
    <3> QED BY <3>2, <2>3 DEF b, d
  <2>8. pc' \in Asking /\ pc' \notin After BY <2>1 DEF Asking, After
  <2>9. now'.answer = Reply' BY <2>1, <2>3, <2>4, <2>5 DEF Reply
  <2>10. ToldBefore' = Append(saved.told, Input) /\ ShownBefore' = Display(saved.display, Input)
    BY <2>1, <2>5, <2>6 DEF ToldBefore, ShownBefore
  <2> QED BY <1>0, <2>1, <2>3, <2>5, <2>7, <2>8, <2>9, <2>10 DEF InLine
<1>4. CASE Regenerate
  <2> DEFINE a == [Last(saved.history) EXCEPT !.take = @ + 1]
  <2>1. pc = "idle" /\ pc' = "generate" /\ saved' = saved /\ Len(saved.history) > 1
    BY <1>4 DEF Regenerate
  <2>2. /\ eng'.told = Front(saved.told) /\ eng'.display = Front(saved.display)
        /\ eng'.turn = saved.turn /\ eng'.resolve = saved.resolve
        /\ eng'.voice = saved.voice
    BY <1>4, <1>0 DEF Regenerate, Loaded, Engines
  <2>3. now'.op = "regenerate" /\ now'.answer = a
    <3>1. PICK v, c : now' = [NoWork EXCEPT !.op = "regenerate", !.previous = v,
                                            !.continuation = c, !.answer = a]
      BY <1>4 DEF Regenerate
    <3> HIDE DEF a
    <3> QED BY <3>1 DEF NoWork
  <2>4. Rest(saved) BY DEF Story, AtRest
  <2>5. Retellable(saved) /\ Last(saved.told) = Last(saved.history)
    <3> DEFINE e == saved
    <3>1. e \in Engines /\ Rest(e) /\ Len(e.history) > 1 BY <1>0, <2>1, <2>4
    <3> HIDE DEF e
    <3>2. Retellable(e) /\ Last(e.told) = Last(e.history) BY <3>1, CanRetell
    <3> QED BY <3>2 DEF e
  <2>6. Redo' BY <2>3 DEF Redo
  <2>7. pc' \in Asking /\ pc' \notin After BY <2>1 DEF Asking, After
  <2>8. now'.answer = Reply' BY <2>1, <2>3, <2>5, <2>6 DEF Reply
  <2>9. ToldBefore' = Front(saved.told) /\ ShownBefore' = Front(saved.display)
    BY <2>1, <2>6 DEF ToldBefore, ShownBefore
  <2>10. Retellable(saved)' BY <2>1, <2>5 DEF Retellable
  <2> QED BY <1>0, <2>1, <2>2, <2>6, <2>7, <2>8, <2>9, <2>10 DEF InLine
<1>5. CASE Answer
  <2> DEFINE b == Append(eng.told, now.answer)
             d == Append(eng.display, now.answer)
             t == Told(eng, now.answer, d)
  <2>1. pc = "final" /\ pc' = "extract" /\ saved' = saved BY <1>5 DEF Answer
  <2>2. eng' = t \/ eng' = Trimmed(t)
    <3>1. t = [eng EXCEPT !.history = Append(@, now.answer),
                          !.display = Append(@, now.answer),
                          !.told = Append(@, now.answer)]
      BY <1>0 DEF Told, Engines
    <3> HIDE DEF t
    <3> QED BY <1>5, <3>1 DEF Answer
  <2>3. /\ t.told = b /\ t.display = d /\ t.turn = eng.turn /\ t.resolve = eng.resolve
        /\ t.voice = eng.voice
    <3> DEFINE g == Append(eng.history, now.answer)
    <3>1. t = [eng EXCEPT !.history = g, !.told = b, !.display = d] BY <1>0 DEF Told, Engines
    <3> HIDE DEF b, d, g, t
    <3> QED BY <3>1, <1>0 DEF Engines
  <2>4. /\ Trimmed(t).told = t.told /\ Trimmed(t).display = t.display
        /\ Trimmed(t).turn = t.turn /\ Trimmed(t).resolve = t.resolve
        /\ Trimmed(t).voice = t.voice
    <3> DEFINE g == Append(eng.history, now.answer)
    <3>1. t = [eng EXCEPT !.history = g, !.told = b, !.display = d] BY <1>0 DEF Told, Engines
    <3> HIDE DEF b, d, g, t
    <3>2. DOMAIN t = DOMAIN eng BY <3>1
    <3> QED BY <3>2, <1>0 DEF Trimmed, Engines
  <2> HIDE DEF t
  <2>5. /\ eng'.told = b /\ eng'.display = d /\ eng'.turn = eng.turn
        /\ eng'.resolve = eng.resolve /\ eng'.voice = eng.voice
    <3> HIDE DEF b, d
    <3> QED BY <2>2, <2>3, <2>4
  <2>6. now'.op = now.op /\ now'.answer = now.answer
    <3>1. PICK x, c : now' = [now EXCEPT !.attempt = 1, !.text = x, !.chunk = c]
      BY <1>5 DEF Answer
    <3> QED BY <3>1, <1>0 DEF Works
  <2>7. pc \in Asking /\ pc' \in After /\ pc' \notin Asking
    BY <2>1 DEF Asking, After, GuardCalls
  <2>8. /\ now.answer = Reply /\ eng.told = ToldBefore /\ eng.display = ShownBefore
        /\ eng.turn = IF Redo THEN saved.turn ELSE saved.turn + 1
        /\ eng.resolve = saved.resolve
        /\ (saved.voice # NoVoice => eng.voice = saved.voice)
        /\ (Redo => Retellable(saved))
    BY <2>7 DEF InLine
  <2>9. eng'.told = Append(ToldBefore, Reply) /\ eng'.display = Append(ShownBefore, Reply)
    BY <2>5, <2>8
  <2>10. Retellable(saved)' <=> Retellable(saved) BY <2>1 DEF Retellable
  <2> HIDE DEF b, d
  <2> QED BY <1>0, <1>b, <2>1, <2>5, <2>6, <2>7, <2>8, <2>9, <2>10 DEF InLine
<1>6. CASE Extract
  <2>1. pc = "extract" /\ pc' \in {"media", "summarise"} /\ saved' = saved
        /\ now'.op = now.op /\ eng'.told = eng.told /\ eng'.voice = eng.voice
    BY <1>6, ExtractStep DEF Extract, Goto
  <2>2. now'.answer = now.answer
    <3>1. now' = [[NoWork EXCEPT !.op = now.op, !.answer = now.answer, !.chunk = now.chunk]
                    EXCEPT !.attempt = 1]
      BY <1>6 DEF Extract, Goto
    <3> QED BY <3>1 DEF NoWork
  <2>3. eng.resolve = saved.resolve BY <2>1 DEF InLine, After
  <2>4. /\ eng'.turn = eng.turn /\ eng'.display = eng.display
        /\ eng'.resolve <= eng.resolve /\ eng.resolve <= eng'.resolve + 1
    <3>1. CASE eng' = eng BY <3>1, <1>0
    <3>2. CASE \E shift \in Shifts : eng' = [eng EXCEPT !.resolve = Worn(@, Capped(shift))]
      <4>1. PICK shift \in Shifts : eng' = [eng EXCEPT !.resolve = Worn(@, Capped(shift))]
        BY <3>2
      <4> DEFINE r == Worn(eng.resolve, Capped(shift))
      <4>2. eng.resolve \in 0..FullResolve BY <1>0 DEF Engines
      <4>3. r <= eng.resolve /\ eng.resolve <= r + 1 BY <4>2, WornIs
      <4>4. eng' = [eng EXCEPT !.resolve = r] BY <4>1
      <4> HIDE DEF r
      <4>5. eng'.turn = eng.turn /\ eng'.display = eng.display /\ eng'.resolve = r
        BY <4>4, <1>0 DEF Engines
      <4> QED BY <4>3, <4>5
    <3> QED BY <1>6, <3>1, <3>2 DEF Extract
  <2>5. pc \in After /\ pc' \in After \ {"extract"} BY <2>1 DEF After
  <2> QED BY <1>c, <2>1, <2>2, <2>3, <2>4, <2>5
<1>7. CASE Summarise
  <2> DEFINE e == IF now.op = "stream" THEN Trimmed(eng) ELSE eng
  <2>1. pc = "summarise" /\ pc' = "media" /\ saved' = saved /\ now'.op = now.op
        /\ eng'.told = eng.told /\ eng'.voice = eng.voice
    BY <1>7, SummariseStep DEF Summarise, Goto
  <2>2. now'.answer = now.answer
    <3>1. now' = [[now EXCEPT !.chunk = <<>>] EXCEPT !.attempt = 1]
      BY <1>7 DEF Summarise, Goto
    <3> QED BY <3>1, <1>0 DEF Works
  <2>3. e \in Engines /\ e.turn = eng.turn /\ e.display = eng.display
        /\ e.resolve = eng.resolve
    BY <1>0, TrimmedIs
  <2>4. PICK z, y : eng' = [e EXCEPT !.summaries = z] \/ eng' = [e EXCEPT !.lost = y]
    <3> HIDE DEF e
    <3>1. \/ eng' = [e EXCEPT !.summaries = Append(@, Range(now.chunk))]
          \/ eng' = [e EXCEPT !.lost = @ \union Range(now.chunk)]
      BY <1>7 DEF Summarise, e
    <3>2. \/ eng' = [e EXCEPT !.summaries = Append(e.summaries, Range(now.chunk))]
          \/ eng' = [e EXCEPT !.lost = e.lost \union Range(now.chunk)]
      BY <3>1, <2>3 DEF Engines
    <3> QED BY <3>2
  <2> HIDE DEF e
  <2>5. eng'.turn = eng.turn /\ eng'.display = eng.display /\ eng'.resolve = eng.resolve
    BY <2>3, <2>4 DEF Engines
  <2>6. pc \in After /\ pc' \in After \ {"extract"} BY <2>1 DEF After
  <2>7. eng.resolve <= saved.resolve /\ saved.resolve <= eng.resolve + 1
    BY <2>6 DEF InLine
  <2> QED BY <1>c, <2>1, <2>2, <2>5, <2>6, <2>7
<1>8. CASE Media
  <2>1. CASE Abort({"nomedia"}) BY <2>1, <1>a DEF Abort
  <2>2. CASE \E v \in VoiceOf(eng), narrated \in BOOLEAN :
               /\ eng' = IF now.op = "stream" THEN eng ELSE [eng EXCEPT !.voice = v]
               /\ Goto("save", [now EXCEPT !.voice = IF narrated THEN v ELSE NoVoice])
    <3>1. PICK v, u :
            /\ v \in VoiceOf(eng)
            /\ eng' = eng \/ eng' = [eng EXCEPT !.voice = v]
            /\ Goto("save", [now EXCEPT !.voice = u])
      BY <2>2
    <3>2. /\ eng'.turn = eng.turn /\ eng'.told = eng.told /\ eng'.display = eng.display
          /\ eng'.resolve = eng.resolve /\ (eng.voice # NoVoice => eng'.voice = eng.voice)
      BY <3>1, <1>0 DEF Engines, VoiceOf
    <3>3. pc' = "save" /\ saved' = saved /\ now'.op = now.op /\ now'.answer = now.answer
      BY <3>1, <1>0 DEF Goto, Works
    <3>4. pc = "media" BY <1>8 DEF Media
    <3>5. pc \in After /\ pc' \in After \ {"extract"} BY <3>3, <3>4 DEF After
    <3>6. eng.resolve <= saved.resolve /\ saved.resolve <= eng.resolve + 1
      BY <3>5 DEF InLine
    <3> QED BY <1>c, <3>2, <3>3, <3>5, <3>6
  <2> QED BY <1>8, <2>1, <2>2 DEF Media
<1>9. CASE Save
  <2>1. pc' = "idle" BY <1>9 DEF Save
  <2> QED BY <2>1, <1>a
<1>10. CASE UNCHANGED vars
  <2>1. UNCHANGED <<saved, eng, pc, now>> BY <1>10 DEF vars
  <2> QED BY <2>1, <1>b DEF InLine
<1> QED
  BY <1>1, <1>2, <1>3, <1>4, <1>5, <1>6, <1>7, <1>8, <1>9, <1>10 DEF Next, TurnStep, Talks

(* What a turn gives back is one exchange more, or the last answer again.   *)
LEMMA SaveTells ==
  ASSUME Typed, InLine, Save
  PROVE  Line!Next
<1>0. /\ saved \in Engines /\ eng \in Engines
      /\ saved.told \in Seq(Messages) /\ saved.display \in Seq(Messages)
      /\ saved.turn \in Nat
  BY DEF Typed, Engines
<1>1. pc = "save" /\ saved' = eng BY DEF Save
<1>2. /\ eng.turn = IF Redo THEN saved.turn ELSE saved.turn + 1
      /\ eng.told = Append(ToldBefore, Reply) /\ eng.display = Append(ShownBefore, Reply)
      /\ eng.resolve <= saved.resolve /\ saved.resolve <= eng.resolve + 1
      /\ (saved.voice # NoVoice => eng.voice = saved.voice)
      /\ (Redo => Retellable(saved))
  BY <1>1 DEF InLine, After
<1>3. Line!Leaves BY <1>1, <1>2 DEF Line!Leaves
<1>4. CASE Redo
  <2> DEFINE o == saved.told
             d == saved.display
             a == [Last(o) EXCEPT !.take = @ + 1]
  <2>1. /\ o \in Seq(Messages) /\ d \in Seq(Messages) /\ o # <<>> /\ d # <<>>
        /\ Last(o) \in Messages /\ Last(d) = Last(o) /\ saved.turn > 0
    BY <1>0, <1>2, <1>4 DEF Retellable
  <2>2. a \in Messages
    <3> DEFINE m == Last(o)
    <3>1. m \in Messages BY <2>1
    <3> HIDE DEF m
    <3>2. m.take + 1 \in Nat BY <3>1 DEF Messages
    <3>3. [m EXCEPT !.take = m.take + 1] \in Messages BY <3>1, <3>2 DEF Messages
    <3> QED BY <3>3 DEF m
  <2>3. Append(Front(o), a) = [o EXCEPT ![Len(o)] = a]
        /\ Append(Front(d), a) = [d EXCEPT ![Len(d)] = a]
    <3> HIDE DEF o, d, a
    <3> QED BY <2>1, <2>2, LastReplaced
  <2>4. [o EXCEPT ![Len(o)] = a] = [o EXCEPT ![Len(o)].take = @ + 1]
        /\ [d EXCEPT ![Len(d)] = a] = [d EXCEPT ![Len(d)].take = @ + 1]
    <3> HIDE DEF o, d
    <3> QED BY <2>1 DEF Last
  <2>5. eng.told = Append(Front(o), a) /\ eng.display = Append(Front(d), a)
    BY <1>2, <1>4 DEF ToldBefore, ShownBefore, Reply
  <2>6. /\ eng.told = [saved.told EXCEPT ![Len(saved.told)].take = @ + 1]
        /\ eng.display = [saved.display EXCEPT ![Len(saved.display)].take = @ + 1]
    BY <2>3, <2>4, <2>5
  <2>7. Line!Retell BY <1>1, <1>2, <1>3, <1>4, <2>1, <2>6 DEF Line!Retell
  <2> QED BY <2>7 DEF Line!Next
<1>5. CASE ~Redo
  <2>1. /\ eng.turn = saved.turn + 1 /\ Reply = Line!Said("narrator", eng.turn)
        /\ ToldBefore = Append(saved.told, Input)
        /\ ShownBefore = Display(saved.display, Input)
    BY <1>2, <1>5 DEF ToldBefore, ShownBefore, Reply, Message, Line!Said
  <2>2. CASE now.op = "continue"
    <3>1. Input = Line!Said("continue", eng.turn) /\ Input.by = "continue"
      BY <2>1, <2>2 DEF Input, Message, Line!Said
    <3>2. ShownBefore = saved.display BY <2>1, <3>1 DEF Display
    <3>3. Line!Continue BY <1>1, <1>2, <1>3, <2>1, <3>1, <3>2 DEF Line!Continue
    <3> QED BY <3>3 DEF Line!Next
  <2>3. CASE now.op # "continue"
    <3>1. Input = Line!Said("player", eng.turn) /\ Input.by # "continue"
      BY <2>1, <2>3 DEF Input, Message, Line!Said
    <3>2. ShownBefore = Append(saved.display, Input) BY <2>1, <3>1 DEF Display
    <3>3. Line!Play BY <1>1, <1>2, <1>3, <2>1, <3>1, <3>2 DEF Line!Play
    <3> QED BY <3>3 DEF Line!Next
  <2> QED BY <2>2, <2>3
<1> QED BY <1>4, <1>5

(* Whatever calls fail or answer, the session's story grows as Storyline    *)
(* says, and by what is given back only.                                    *)
THEOREM EngineImplementsStoryline == Spec => ImplementsStoryline
<1>1. Init => Line!Init /\ InLine
  <2> SUFFICES ASSUME Init PROVE Line!Init /\ InLine OBVIOUS
  <2>1. PICK l \in Lang : saved = [NewEngine EXCEPT !.lang = l] BY DEF Init
  <2>2. /\ saved.turn = 0 /\ saved.told = <<Opening>> /\ saved.display = <<Opening>>
        /\ saved.resolve = FullResolve /\ saved.voice = NoVoice
    BY <2>1 DEF NewEngine
  <2>3. Line!Init BY <2>2 DEF Line!Init, Line!Said, Opening, Message
  <2>4. InLine BY DEF Init, InLine, Asking, After, GuardCalls
  <2> QED BY <2>3, <2>4
<1>2. Typed /\ Story /\ InLine /\ [Next]_vars => InLine' BY InLineStep
<1>3. Typed /\ InLine /\ [Next]_vars => [Line!Next]_(Line!lineVars)
  <2> SUFFICES ASSUME Typed, InLine, [Next]_vars PROVE [Line!Next]_(Line!lineVars) OBVIOUS
  <2>1. CASE Save BY <2>1, SaveTells
  <2>2. ASSUME ~Save PROVE saved' = saved
    BY <2>2 DEF Next, TurnStep, Regenerate, Start, RateLimited, TranslateInput, Prompt,
                Generate, StreamToken, StreamEnds, TranslateOutput, Guard, JudgeDraft,
                ValidateDraft, Repair, JudgeRepair, ValidateRepair, Fallback, NovelFallback,
                Answer, Extract, Summarise, Media, Goto, Abort, vars
  <2>3. CASE saved' = saved BY <2>3 DEF Line!lineVars
  <2> QED BY <2>1, <2>2, <2>3
<1> QED BY <1>1, <1>2, <1>3, Telling, PTL DEF Spec, ImplementsStoryline, Line!Spec

-----------------------------------------------------------------------------
(* What the guard lets pass.                                               *)

\* A refused draft was replaced, by something that does not repeat.
Replaced(w) ==
  /\ w.text.src = "draft" => w.trouble \intersect {"emptyrepair", "unnamed"} # {}
  /\ w.text.repeats => w.text.src = "prefixed" \/ "nofallback" \in w.trouble

\* Once the guard is done; until then, a repair is one, or empty.
Guarded ==
  /\ pc \in {"final", "extract"} /\ now.refused => Replaced(now)
  /\ pc \in {"rejudge", "revalidate", "fallback", "novel"} =>
       now.revised = EmptyText \/ now.revised.src = "repair"

(* A guard that answers with the repair, or with the draft if that is       *)
(* empty, has replaced the draft.                                           *)
LEMMA RepairReplaces ==
  ASSUME NEW w \in Works, w.revised = EmptyText \/ w.revised.src = "repair",
         w.revised.repeats => "nofallback" \in w.trouble
  PROVE  RepairOrDraft(w) \in Works /\ Replaced(RepairOrDraft(w))
<1>1. CASE w.revised = EmptyText
  <2> DEFINE q == w.trouble \union {"emptyrepair"}
             t == [w EXCEPT !.text = Draft, !.trouble = q]
  <2>1. RepairOrDraft(w) = t BY <1>1 DEF RepairOrDraft, Works
  <2>2. q \in SUBSET {"unnamed", "emptyrepair", "nofallback", "nomedia"} BY DEF Works
  <2>3. "emptyrepair" \in q OBVIOUS
  <2> HIDE DEF q
  <2>4. Draft \in Texts BY Beginnings
  <2>5. t \in Works /\ t.text = Draft /\ t.trouble = q BY <2>2, <2>4 DEF Works
  <2>6. Draft.src = "draft" /\ Draft.repeats = FALSE BY DEF Draft
  <2> HIDE DEF t
  <2> QED BY <2>1, <2>3, <2>5, <2>6 DEF Replaced
<1>2. CASE w.revised # EmptyText
  <2> DEFINE t == [w EXCEPT !.text = w.revised]
  <2>1. RepairOrDraft(w) = t BY <1>2 DEF RepairOrDraft
  <2>2. t \in Works /\ t.text = w.revised /\ t.trouble = w.trouble BY DEF Works
  <2>3. w.revised.src = "repair" BY <1>2
  <2> HIDE DEF t
  <2> QED BY <2>1, <2>2, <2>3 DEF Replaced
<1> QED BY <1>1, <1>2

(* Every step of the guard, and the answer.                                 *)
LEMMA GuardedStep ==
  ASSUME Typed, Story, Guarded, [Next]_vars
  PROVE  Guarded'
<1>0. now \in Works /\ now.text \in Texts /\ now.revised \in Texts
      /\ now.trouble \in SUBSET {"unnamed", "emptyrepair", "nofallback", "nomedia"}
  BY DEF Typed, Works
<1> DEFINE Clear(p) == p \notin {"final", "extract", "rejudge", "revalidate", "fallback",
                                 "novel"}
<1>1. ASSUME NEW p, Clear(p), pc' = p PROVE Guarded' BY <1>1 DEF Guarded
<1>2. ASSUME NEW w \in Works, Replaced(w), Goto("final", w) PROVE Guarded'
  <2>1. pc' = "final" /\ now' = [w EXCEPT !.attempt = 1] BY <1>2 DEF Goto
  <2>2. now'.text = w.text /\ now'.trouble = w.trouble BY <2>1 DEF Works
  <2> QED BY <1>2, <2>1, <2>2 DEF Guarded, Replaced
<1>3. ASSUME NEW w \in Works, NEW p \in {"rejudge", "revalidate", "fallback", "novel"},
             w.revised = EmptyText \/ w.revised.src = "repair", Goto(p, w)
      PROVE  Guarded'
  <2>1. pc' = p /\ now' = [w EXCEPT !.attempt = 1] BY <1>3 DEF Goto
  <2>2. now'.revised = w.revised BY <2>1 DEF Works
  <2> QED BY <1>3, <2>1, <2>2 DEF Guarded
<1>4. CASE RateLimited
  <2>1. pc' = pc /\ now' = [now EXCEPT !.attempt = @ + 1] BY <1>4 DEF RateLimited
  <2>2. now'.text = now.text /\ now'.trouble = now.trouble /\ now'.revised = now.revised
        /\ now'.refused = now.refused
    BY <1>0, <2>1 DEF Works
  <2> QED BY <2>1, <2>2 DEF Guarded, Replaced
<1>5. CASE TranslateInput BY <1>1, <1>5 DEF TranslateInput, Goto, Abort
<1>6. CASE Generate \/ StreamToken \/ StreamEnds \/ TranslateOutput
  BY <1>1, <1>6 DEF Generate, StreamToken, StreamEnds, TranslateOutput, Translated, Goto, Abort
<1>7. CASE JudgeDraft BY <1>1, <1>7 DEF JudgeDraft, Goto
<1>8. CASE ValidateDraft
  <2> DEFINE Work(r) == [now EXCEPT !.flawed = @ \/ FindsFault(r),
                                    !.refused = now.flawed \/ r # "valid",
                                    !.trouble = IF r = "unnamed" THEN @ \union {"unnamed"} ELSE @]
  <2>1. PICK r \in Outcome(Verdicts) :
          IF Work(r).flawed THEN Goto("repair", Work(r))
          ELSE Goto("final", [Work(r) EXCEPT !.text = Draft])
    BY <1>8 DEF ValidateDraft
  <2>2. CASE Work(r).flawed BY <1>1, <2>1, <2>2 DEF Goto
  <2>3. CASE ~Work(r).flawed
    <3> DEFINE w == [Work(r) EXCEPT !.text = Draft]
    <3>1. Goto("final", w) BY <2>1, <2>3
    <3>2. /\ Work(r).flawed = (now.flawed \/ FindsFault(r))
          /\ Work(r).refused = (now.flawed \/ r # "valid")
          /\ Work(r).trouble = IF r = "unnamed" THEN now.trouble \union {"unnamed"}
                               ELSE now.trouble
      BY <1>0 DEF Works
    <3>3. now' = [w EXCEPT !.attempt = 1] /\ pc' = "final" BY <3>1 DEF Goto
    <3>4. now'.text = Draft /\ now'.refused = Work(r).refused /\ now'.trouble = Work(r).trouble
      BY <1>0, <3>3 DEF Works
    <3> HIDE DEF Work
    <3>5. r \in Verdicts \union {"failed"} BY DEF Outcome
    <3>6. now'.refused => r = "unnamed"
      BY <2>3, <3>2, <3>4, <3>5 DEF FindsFault, Verdicts
    <3>7. now'.refused => "unnamed" \in now'.trouble BY <3>2, <3>4, <3>6
    <3>8. Draft.repeats = FALSE BY DEF Draft
    <3> QED BY <3>3, <3>4, <3>7, <3>8 DEF Guarded, Replaced
  <2> QED BY <2>2, <2>3
<1>9. CASE Repair
  <2>1. CASE Goto("final", [now EXCEPT !.text = Safe])
    <3> DEFINE w == [now EXCEPT !.text = Safe]
    <3>1. Safe \in Texts BY Beginnings
    <3>2. w \in Works /\ w.text = Safe BY <1>0, <3>1 DEF Works
    <3>3. Safe.src = "safe" /\ Safe.repeats = FALSE BY DEF Safe
    <3>4. Replaced(w) BY <3>2, <3>3 DEF Replaced
    <3> HIDE DEF w
    <3> QED BY <1>2, <2>1, <3>2, <3>4 DEF w
  <2>2. CASE \E x \in Written("repair") :
               Goto("rejudge", [now EXCEPT !.revised = x, !.flawed = FALSE])
    <3>1. PICK x \in Written("repair") :
            Goto("rejudge", [now EXCEPT !.revised = x, !.flawed = FALSE])
      BY <2>2
    <3>2. x = EmptyText \/ x.src = "repair" BY DEF Written, Text
    <3>3. pc' = "rejudge" /\ now' = [[now EXCEPT !.revised = x, !.flawed = FALSE]
                                       EXCEPT !.attempt = 1]
      BY <3>1 DEF Goto
    <3>4. now'.revised = x BY <1>0, <3>3 DEF Works
    <3> QED BY <3>2, <3>3, <3>4 DEF Guarded
  <2> QED BY <1>9, <2>1, <2>2 DEF Repair
<1>10. CASE JudgeRepair
  <2>1. PICK b \in BOOLEAN : pc = "rejudge" /\ Goto("revalidate", [now EXCEPT !.flawed = b])
    BY <1>10 DEF JudgeRepair, Clean
  <2> DEFINE w == [now EXCEPT !.flawed = b]
  <2>2. w \in Works /\ w.revised = now.revised BY <1>0 DEF Works
  <2>3. Goto("revalidate", w) BY <2>1
  <2> HIDE DEF w
  <2> QED BY <1>3, <2>1, <2>2, <2>3 DEF Guarded
<1>11. CASE ValidateRepair
  <2>1. pc = "revalidate" BY <1>11 DEF ValidateRepair
  <2>2. now.revised = EmptyText \/ now.revised.src = "repair" BY <2>1 DEF Guarded
  <2>3. CASE Goto("fallback", now) BY <1>0, <1>3, <2>2, <2>3
  <2>4. CASE ~now.revised.repeats /\ Goto("final", RepairOrDraft(now))
    <3>1. RepairOrDraft(now) \in Works /\ Replaced(RepairOrDraft(now))
      BY <1>0, <2>2, <2>4, RepairReplaces
    <3> QED BY <1>2, <2>4, <3>1
  <2> QED BY <1>11, <2>3, <2>4 DEF ValidateRepair, RepairAtFault
<1>12. CASE Fallback
  <2>1. pc = "fallback" BY <1>12 DEF Fallback
  <2>2. now.revised = EmptyText \/ now.revised.src = "repair" BY <2>1 DEF Guarded
  <2>3. CASE Goto("novel", now) BY <1>0, <1>3, <2>2, <2>3
  <2>4. CASE \E y \in Written("fallback") :
               ~y.repeats /\ y # EmptyText /\ Goto("final", [now EXCEPT !.text = y])
    <3>1. PICK y \in Written("fallback") :
            ~y.repeats /\ y # EmptyText /\ Goto("final", [now EXCEPT !.text = y])
      BY <2>4
    <3>2. y.src = "fallback" /\ y \in Texts
      BY <3>1, Beginnings DEF Written, Text, Texts
    <3> DEFINE w == [now EXCEPT !.text = y]
    <3>3. w \in Works /\ w.text = y BY <1>0, <3>2 DEF Works
    <3>4. Goto("final", w) BY <3>1
    <3> HIDE DEF w
    <3>5. Replaced(w) BY <3>1, <3>2, <3>3 DEF Replaced
    <3> QED BY <1>2, <3>3, <3>4, <3>5
  <2>5. CASE Goto("final", RepairOrDraft([now EXCEPT !.trouble = @ \union {"nofallback"}]))
    <3> DEFINE q == now.trouble \union {"nofallback"}
               w == [now EXCEPT !.trouble = q]
    <3>1. q \in SUBSET {"unnamed", "emptyrepair", "nofallback", "nomedia"}
          /\ "nofallback" \in q
      BY <1>0
    <3>2. Goto("final", RepairOrDraft(w)) BY <2>5
    <3> HIDE DEF q
    <3>3. w \in Works /\ w.revised = now.revised /\ w.trouble = q BY <1>0, <3>1 DEF Works
    <3> HIDE DEF w
    <3>4. RepairOrDraft(w) \in Works /\ Replaced(RepairOrDraft(w))
      BY <2>2, <3>1, <3>3, RepairReplaces
    <3> QED BY <1>2, <3>2, <3>4
  <2> QED BY <1>12, <2>3, <2>4, <2>5 DEF Fallback
<1>13. CASE NovelFallback
  <2>1. PICK src \in {"fallback", "prefixed"} :
          Goto("final", [now EXCEPT !.text = Text(src, src = "prefixed")])
    BY <1>13 DEF NovelFallback
  <2> DEFINE y == Text(src, src = "prefixed")
             w == [now EXCEPT !.text = y]
  <2>2. y \in Texts /\ y.src = src /\ (y.repeats => src = "prefixed")
    BY DEF Text, Texts
  <2>3. Goto("final", w) BY <2>1
  <2> HIDE DEF y
  <2>4. w \in Works /\ w.text = y BY <1>0, <2>2 DEF Works
  <2> HIDE DEF w
  <2>5. Replaced(w) BY <2>2, <2>4 DEF Replaced
  <2> QED BY <1>2, <2>3, <2>4, <2>5
<1>14. CASE Answer
  <2>1. pc = "final" /\ pc' = "extract" BY <1>14 DEF Answer
  <2>2. now'.text \in {now.text, Safe} /\ now'.refused = now.refused
        /\ now'.trouble = now.trouble
    BY <1>0, <1>14 DEF Answer, Works
  <2>3. Safe.src = "safe" /\ Safe.repeats = FALSE BY DEF Safe
  <2> QED BY <2>1, <2>2, <2>3 DEF Guarded, Replaced
<1>15. CASE Prompt \/ Regenerate \/ \E op \in Ops : Start(op)
  BY <1>1, <1>15 DEF Prompt, Regenerate, Start, Goto
<1>16. CASE Extract \/ Summarise \/ Media \/ Save
  BY <1>1, <1>16, ExtractStep DEF Summarise, Media, Save, Goto, Abort
<1>17. CASE UNCHANGED vars BY <1>17 DEF vars, Guarded, Replaced
<1> QED
  BY <1>4, <1>5, <1>6, <1>7, <1>8, <1>9, <1>10, <1>11, <1>12, <1>13, <1>14, <1>15, <1>16, <1>17
     DEF Next, TurnStep, Guard

(* A draft the guard refused is not what is saved, but for an empty repair  *)
(* or a verdict without a violation; and what is saved does not repeat.     *)
THEOREM Refusal == Spec => []RefusedIsReplaced
<1>1. Init => Guarded BY DEF Init, Guarded
<1>2. Typed /\ Story /\ Guarded /\ [Next]_vars => Guarded' BY GuardedStep
<1>3. Guarded => RefusedIsReplaced BY DEF Guarded, Replaced, RefusedIsReplaced
<1> QED BY <1>1, <1>2, <1>3, Telling, PTL DEF Spec
=============================================================================
