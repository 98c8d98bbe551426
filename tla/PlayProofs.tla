----------------------------- MODULE PlayProofs -----------------------------
(***************************************************************************)
(* What the player sees is what the backend holds, and what was left is    *)
(* what is resumed, for any number of visits and turns and whatever faults.*)
(*                                                                         *)
(* The bubbles and the display history agree bubble by bubble only when    *)
(* nothing is under way.  The invariant tells, while the last history is   *)
(* on its way, what it will agree with, and while a turn is in flight,     *)
(* which story the bubbles before its own show.                            *)
(***************************************************************************)
EXTENDS PlayView, SequenceTheorems, FiniteSetTheorems, TLAPS

-----------------------------------------------------------------------------
(* Bubbles and stories.                                                    *)

Bubbles == [role : {"user", "assistant", "error", "hole", "none"}, text : Nat, turn : Int]

Lines == [role : {"user", "assistant"}, text : 0..MaxSends]

\* An opening, then turns; it ends with an answer.
Display(d) ==
  /\ d # <<>> /\ d[1] = Fresh[1]
  /\ d[Len(d)].role = "assistant"
  /\ \A i \in 2..Len(d) : d[i].text # OpeningText

Histories == {d \in Seq(Lines) : Display(d)}

\* The bubbles m that are kept, in their order, are the story d from its first
\* message, or without its opening.
Tells(m, d, opening) ==
  LET n == Len(d) - opening IN
  /\ n >= 0
  /\ \E e \in [1..n -> 1..Len(m)] :
       /\ \A k, l \in 1..n : k < l => e[k] < e[l]
       /\ Kept(m) = {e[k] : k \in 1..n}
       /\ \A k \in 1..n : /\ m[e[k]].role = d[k + opening].role
                          /\ m[e[k]].text = d[k + opening].text

Told(m, d) == \E opening \in {0, 1} : Tells(m, d, opening)

\* An increasing function takes as many values as it has arguments.
LEMMA Counted ==
  ASSUME NEW n \in Nat, NEW e, \A k \in 1..n : e[k] \in Nat,
         \A k, l \in 1..n : k < l => e[k] < e[l]
  PROVE  Cardinality({e[k] : k \in 1..n}) = n
<1> DEFINE S == {e[k] : k \in 1..n}
           f == [k \in 1..n |-> e[k]]
<1>1. \A k, l \in 1..n : k # l => e[k] # e[l]
  <2> SUFFICES ASSUME NEW k \in 1..n, NEW l \in 1..n, k # l PROVE e[k] # e[l]
    OBVIOUS
  <2>1. k < l \/ l < k
    OBVIOUS
  <2> QED BY <2>1
<1>2. f \in Bijection(1..n, S)
  BY <1>1 DEF Bijection, Injection, Surjection, IsInjective
<1>3. ExistsBijection(1..n, S)
  BY <1>2 DEF ExistsBijection
<1> QED BY <1>3, FS_CountingElements

\* What a list of bubbles shows, which tells a story, is that story.
LEMMA StoryOf ==
  ASSUME NEW d \in Histories, NEW opening \in {0, 1}, NEW n \in Nat, n = Len(d) - opening,
         NEW s \in [1..n -> Bubbles],
         \A k \in 1..n : s[k].role = d[k + opening].role /\ s[k].text = d[k + opening].text
  PROVE  Story(s) = Story(d)
<1> DEFINE T(x) == [i \in DOMAIN x |-> [role |-> x[i].role, text |-> x[i].text]]
<1>1. d \in Seq(Lines) /\ d # <<>> /\ d[1] = Fresh[1] /\ Len(d) \in Nat /\ DOMAIN d = 1..Len(d)
      /\ Len(d) > 0 /\ \A i \in 2..Len(d) : d[i].text # OpeningText
  BY DEF Histories, Display
<1>2. \A i \in 1..Len(d) : d[i] \in Lines
  BY <1>1
<1>3. DOMAIN s = 1..n
  OBVIOUS
<1>4. T(d) \in Seq(Lines) /\ Len(T(d)) = Len(d)
  BY <1>1, <1>2 DEF Lines
<1>5. d[1].text = OpeningText
  BY <1>1 DEF Fresh
<1>6. Head(T(d)).text = OpeningText /\ T(d) # <<>>
  BY <1>1, <1>4, <1>5
<1>7. Story(d) = Tail(T(d))
  BY <1>6 DEF Story
<1>8. CASE opening = 0
  <2>1. T(s) = T(d)
    BY <1>1, <1>3, <1>8
  <2> QED BY <2>1, <1>6, <1>7 DEF Story
<1>9. CASE opening = 1
  <2>1. \A k \in 1..n : [role |-> s[k].role, text |-> s[k].text] \in Lines
    BY <1>1, <1>2, <1>9 DEF Lines
  <2>2. T(s) \in Seq(Lines) /\ Len(T(s)) = n
    BY <2>1, <1>3
  <2>3. Tail(T(d)) \in Seq(Lines) /\ Len(Tail(T(d))) = n
    BY <1>1, <1>4, <1>9
  <2>4. \A i \in 1..n : T(s)[i] = Tail(T(d))[i]
    BY <1>1, <1>3, <1>4, <1>9
  <2>5. T(s) = Tail(T(d))
    BY <2>2, <2>3, <2>4, SeqEqual
  <2>6. T(s) # <<>> => Head(T(s)).text # OpeningText
    BY <1>1, <1>3, <1>9, <2>2
  <2> QED BY <2>5, <2>6, <1>7 DEF Story
<1> QED BY <1>8, <1>9

\* Shown selects the bubbles that are kept, in their order.
LEMMA ShownIsTold ==
  ASSUME messages \in Seq(Bubbles), NEW d \in Histories, Told(messages, d)
  PROVE  Shown = Story(d)
<1>1. PICK opening \in {0, 1} : Tells(messages, d, opening)
  BY DEF Told
<1> DEFINE n == Len(d) - opening
           K == Kept(messages)
<1>2. n \in Nat
  BY <1>1 DEF Tells, Histories
<1>3. PICK e \in [1..n -> 1..Len(messages)] :
        /\ \A k, l \in 1..n : k < l => e[k] < e[l]
        /\ K = {e[k] : k \in 1..n}
        /\ \A k \in 1..n : /\ messages[e[k]].role = d[k + opening].role
                           /\ messages[e[k]].text = d[k + opening].text
  BY <1>1 DEF Tells
<1>4. \A k \in 1..n : e[k] \in Nat
  BY <1>2, <1>3
<1> HIDE DEF n, K
<1>5. Cardinality(K) = n
  BY <1>2, <1>3, <1>4, Counted
<1>6. ASSUME NEW k \in 1..n PROVE Cardinality({j \in K : j <= e[k]}) = k
  <2>1. {j \in K : j <= e[k]} = {e[l] : l \in 1..k}
    <3>1. \A l \in 1..n : e[l] <= e[k] <=> l <= k
      <4> SUFFICES ASSUME NEW l \in 1..n PROVE e[l] <= e[k] <=> l <= k
        OBVIOUS
      <4>1. CASE l < k
        BY <4>1, <1>2, <1>3, <1>4
      <4>2. CASE l = k
        BY <4>2, <1>2, <1>4
      <4>3. CASE k < l
        BY <4>3, <1>2, <1>3, <1>4
      <4> QED BY <4>1, <4>2, <4>3, <1>2
    <3>2. \A l \in 1..k : l \in 1..n
      BY <1>2
    <3>3. \A l \in 1..n : l <= k => l \in 1..k
      BY <1>2
    <3> QED BY <1>3, <3>1, <3>2, <3>3, <1>2
  <2>2. k \in Nat /\ \A l \in 1..k : e[l] \in Nat
    BY <1>2, <1>4
  <2>3. \A i, l \in 1..k : i < l => e[i] < e[l]
    BY <1>2, <1>3
  <2> QED BY <2>1, <2>2, <2>3, Counted
<1> DEFINE Nth(k) == CHOOSE i \in K : Cardinality({j \in K : j <= i}) = k
<1>7. \A k \in 1..n : Nth(k) = e[k]
  <2> SUFFICES ASSUME NEW k \in 1..n PROVE Nth(k) = e[k]
    OBVIOUS
  <2>1. e[k] \in K /\ Cardinality({j \in K : j <= e[k]}) = k
    BY <1>3, <1>6
  <2>2. ASSUME NEW i \in K, Cardinality({j \in K : j <= i}) = k PROVE i = e[k]
    <3>1. PICK l \in 1..n : i = e[l]
      BY <1>3
    <3>2. l = k
      BY <3>1, <2>2, <1>6
    <3> QED BY <3>1, <3>2
  <2> QED BY <2>1, <2>2
<1> DEFINE s == [k \in 1..n |-> messages[e[k]]]
<1>8. Shown = Story(s)
  <2>1. Shown = Story([k \in 1..Cardinality(K) |-> messages[Nth(k)]])
    BY DEF Shown, K
  <2>2. [k \in 1..Cardinality(K) |-> messages[Nth(k)]] = s
    <3> HIDE DEF Nth
    <3> QED BY <1>5, <1>7
  <2> QED BY <2>1, <2>2
<1>9. n = Len(d) - opening
  BY DEF n
<1>10. s \in [1..n -> Bubbles]
  BY <1>3
<1>11. \A k \in 1..n : s[k].role = d[k + opening].role /\ s[k].text = d[k + opening].text
  BY <1>3
<1> HIDE DEF s
<1>12. Story(s) = Story(d)
  BY <1>2, <1>9, <1>10, <1>11, StoryOf
<1> QED BY <1>8, <1>12

-----------------------------------------------------------------------------
(* Lists of bubbles that grow, fail and change.                            *)

\* Nothing follows a message of the user.
Settled(m) == m # <<>> => m[Len(m)].role \in {"assistant", "error"}

\* Bubbles that are not kept may change.
LEMMA SameTold ==
  ASSUME NEW m \in Seq(Bubbles), NEW m2 \in Seq(Bubbles), NEW d \in Seq(Lines), Told(m, d),
         Kept(m2) = Kept(m),
         \A i \in Kept(m) : m2[i].role = m[i].role /\ m2[i].text = m[i].text
  PROVE  Told(m2, d)
<1>1. PICK opening \in {0, 1} : Tells(m, d, opening)
  BY DEF Told
<1> DEFINE n == Len(d) - opening
<1>2. n >= 0
  BY <1>1 DEF Tells
<1>3. PICK e \in [1..n -> 1..Len(m)] :
        /\ \A k, l \in 1..n : k < l => e[k] < e[l]
        /\ Kept(m) = {e[k] : k \in 1..n}
        /\ \A k \in 1..n : /\ m[e[k]].role = d[k + opening].role
                           /\ m[e[k]].text = d[k + opening].text
  BY <1>1 DEF Tells
<1>4. Kept(m2) \subseteq 1..Len(m2)
  BY DEF Kept
<1>5. e \in [1..n -> 1..Len(m2)]
  BY <1>3, <1>4
<1>6. \A k \in 1..n : /\ m2[e[k]].role = d[k + opening].role
                      /\ m2[e[k]].text = d[k + opening].text
  BY <1>3
<1>7. Tells(m2, d, opening)
  BY <1>2, <1>3, <1>5, <1>6 DEF Tells
<1> QED BY <1>7 DEF Told

\* A bubble that is kept after the others is a line after the others.
LEMMA MoreTold ==
  ASSUME NEW m \in Seq(Bubbles), NEW m2 \in Seq(Bubbles), NEW d \in Seq(Lines), Told(m, d),
         NEW p \in 1..Len(m2), Kept(m2) = Kept(m) \union {p},
         \A i \in Kept(m) : i < p /\ m2[i].role = m[i].role /\ m2[i].text = m[i].text,
         NEW line \in Lines, m2[p].role = line.role, m2[p].text = line.text
  PROVE  Told(m2, Append(d, line))
<1>1. PICK opening \in {0, 1} : Tells(m, d, opening)
  BY DEF Told
<1> DEFINE n == Len(d) - opening
           d2 == Append(d, line)
           n2 == Len(d2) - opening
<1>2. n \in Nat
  BY <1>1 DEF Tells
<1>3. PICK e \in [1..n -> 1..Len(m)] :
        /\ \A k, l \in 1..n : k < l => e[k] < e[l]
        /\ Kept(m) = {e[k] : k \in 1..n}
        /\ \A k \in 1..n : /\ m[e[k]].role = d[k + opening].role
                           /\ m[e[k]].text = d[k + opening].text
  BY <1>1 DEF Tells
<1> DEFINE f == [k \in 1..n + 1 |-> IF k = n + 1 THEN p ELSE e[k]]
<1>4. n2 = n + 1 /\ d2[n + 1 + opening] = line
      /\ \A k \in 1..n : d2[k + opening] = d[k + opening]
  <2>1. Len(d) \in Nat /\ Len(d2) = Len(d) + 1 /\ d2[Len(d) + 1] = line
        /\ \A i \in 1..Len(d) : d2[i] = d[i]
    OBVIOUS
  <2> HIDE DEF d2
  <2>2. \A k \in 1..n : k + opening \in 1..Len(d)
    BY <2>1, <1>2
  <2>3. n + 1 + opening = Len(d) + 1 /\ n2 = n + 1
    BY <2>1
  <2> QED BY <2>1, <2>2, <2>3
<1> HIDE DEF n, n2, d2
<1>5. Kept(m2) \subseteq 1..Len(m2)
  BY DEF Kept
<1>6. f \in [1..n2 -> 1..Len(m2)]
  BY <1>2, <1>3, <1>4, <1>5
<1>7. \A k, l \in 1..n2 : k < l => f[k] < f[l]
  BY <1>2, <1>3, <1>4
<1>8. Kept(m2) = {f[k] : k \in 1..n2}
  <2>1. \A k \in 1..n : f[k] = e[k] /\ k \in 1..n2
    BY <1>2, <1>4
  <2>2. n + 1 \in 1..n + 1 /\ n2 = n + 1
    BY <1>2, <1>4
  <2>4. f[n + 1] = p
    BY <2>2
  <2>3. \A k \in 1..n2 : k = n + 1 \/ k \in 1..n
    BY <1>2, <1>4
  <2>5. n + 1 \in 1..n2
    BY <2>2
  <2> HIDE DEF f
  <2>6. ASSUME NEW i \in Kept(m2)
        PROVE  \E k \in 1..n2 : i = f[k]
    <3>1. CASE i = p
      BY <3>1, <2>4, <2>5
    <3>2. CASE i # p
      <4>1. PICK k \in 1..n : i = e[k]
        BY <3>2, <1>3
      <4> QED BY <4>1, <2>1
    <3> QED BY <3>1, <3>2
  <2>7. ASSUME NEW k \in 1..n2
        PROVE  f[k] \in Kept(m2)
    <3>1. CASE k = n + 1
      BY <3>1, <2>4
    <3>2. CASE k \in 1..n
      BY <3>2, <2>1, <1>3
    <3> QED BY <3>1, <3>2, <2>3
  <2> QED BY <2>6, <2>7
<1>9. \A k \in 1..n2 : /\ m2[f[k]].role = d2[k + opening].role
                       /\ m2[f[k]].text = d2[k + opening].text
  <2> SUFFICES ASSUME NEW k \in 1..n2
               PROVE  /\ m2[f[k]].role = d2[k + opening].role
                      /\ m2[f[k]].text = d2[k + opening].text
    OBVIOUS
  <2>1. CASE k = n + 1
    BY <2>1, <1>2, <1>4
  <2>2. CASE k \in 1..n
    BY <2>2, <1>2, <1>3, <1>4
  <2> QED BY <2>1, <2>2, <1>2, <1>4
<1> HIDE DEF f
<1>10. n2 >= 0
  BY <1>2, <1>4
<1>11. Tells(m2, d2, opening)
  BY <1>6, <1>7, <1>8, <1>9, <1>10 DEF Tells, n2
<1> QED BY <1>11 DEF Told, d2

\* The last bubble that is kept is the last line.
LEMMA LastTold ==
  ASSUME NEW m \in Seq(Bubbles), NEW m2 \in Seq(Bubbles), NEW d \in Seq(Lines), Told(m, d),
         NEW p \in Kept(m), Kept(m2) = Kept(m),
         \A i \in Kept(m) : /\ i <= p /\ m2[i].role = m[i].role
                            /\ i # p => m2[i].text = m[i].text,
         NEW x \in 0..MaxSends, m2[p].text = x
  PROVE  Told(m2, [d EXCEPT ![Len(d)].text = x])
<1>1. PICK opening \in {0, 1} : Tells(m, d, opening)
  BY DEF Told
<1> DEFINE n == Len(d) - opening
           d2 == [d EXCEPT ![Len(d)].text = x]
           n2 == Len(d2) - opening
<1>2. n \in Nat
  BY <1>1 DEF Tells
<1>3. PICK e \in [1..n -> 1..Len(m)] :
        /\ \A k, l \in 1..n : k < l => e[k] < e[l]
        /\ Kept(m) = {e[k] : k \in 1..n}
        /\ \A k \in 1..n : /\ m[e[k]].role = d[k + opening].role
                           /\ m[e[k]].text = d[k + opening].text
  BY <1>1 DEF Tells
<1>4. PICK last \in 1..n : p = e[last]
  BY <1>3
<1>5. Len(d) = n + opening /\ Len(d) \in 1..Len(d)
  <2>1. Len(d) \in Nat /\ n = Len(d) - opening
    OBVIOUS
  <2> HIDE DEF n
  <2>2. last \in 1..n
    BY <1>4
  <2>3. n > 0
    BY <2>2, <1>2
  <2>4. Len(d) = n + opening
    BY <2>1, <1>2
  <2>5. opening >= 0 /\ opening \in Int
    BY <1>1
  <2> QED BY <2>1, <2>3, <2>4, <2>5, <1>2
<1> HIDE DEF n
<1>6. last = n
  <2>1. last \in 1..n /\ n \in 1..n
    BY <1>2, <1>4
  <2>2. \A k \in 1..n : e[k] \in Nat
    BY <1>2, <1>3
  <2>5. e[n] \in Kept(m)
    BY <2>1, <1>3
  <2>3. e[n] <= e[last]
    BY <2>5, <1>4
  <2>4. ~(last < n)
    BY <2>1, <2>2, <2>3, <1>3
  <2> QED BY <2>1, <2>4, <1>2
<1>7. d[Len(d)] \in Lines
  BY <1>5
<1>8. Len(d2) = Len(d) /\ d2[Len(d)].role = d[Len(d)].role /\ d2[Len(d)].text = x
      /\ \A i \in 1..Len(d) : i # Len(d) => d2[i] = d[i]
  BY <1>5, <1>7 DEF Lines
<1> HIDE DEF d2
<1>9. Kept(m2) \subseteq 1..Len(m2)
  BY DEF Kept
<1>10. e \in [1..n -> 1..Len(m2)]
  BY <1>3, <1>9
<1>11. \A k \in 1..n : /\ m2[e[k]].role = d2[k + opening].role
                       /\ m2[e[k]].text = d2[k + opening].text
  <2> SUFFICES ASSUME NEW k \in 1..n
               PROVE  /\ m2[e[k]].role = d2[k + opening].role
                      /\ m2[e[k]].text = d2[k + opening].text
    OBVIOUS
  <2>1. CASE k = n
    BY <2>1, <1>3, <1>4, <1>5, <1>6, <1>8
  <2>2. CASE k # n
    <3>1. e[k] \in Kept(m) /\ e[k] # p
      BY <2>2, <1>2, <1>3, <1>4, <1>6
    <3>2. k + opening \in 1..Len(d) /\ k + opening # Len(d)
      BY <2>2, <1>2, <1>5
    <3>3. d2[k + opening] = d[k + opening]
      BY <3>2, <1>8
    <3> QED BY <3>1, <3>3, <1>3
  <2> QED BY <2>1, <2>2
<1>12. n2 = n
  BY <1>5, <1>8, <1>2
<1> HIDE DEF n2
<1>13. /\ n2 >= 0 /\ e \in [1..n2 -> 1..Len(m2)]
       /\ \A k, l \in 1..n2 : k < l => e[k] < e[l]
       /\ Kept(m2) = {e[k] : k \in 1..n2}
       /\ \A k \in 1..n2 : /\ m2[e[k]].role = d2[k + opening].role
                           /\ m2[e[k]].text = d2[k + opening].text
  BY <1>2, <1>3, <1>10, <1>11, <1>12
<1>14. Tells(m2, d2, opening)
  BY <1>13 DEF Tells, n2
<1> QED BY <1>14 DEF Told, d2

\* An answer after the others.
LEMMA AnswerTold ==
  ASSUME NEW m \in Seq(Bubbles), NEW b \in Bubbles, NEW d \in Seq(Lines), Told(m, d),
         NEW line \in Lines, b.role = line.role, b.text = line.text
  PROVE  Told(Append(m, b), Append(d, line)) /\ Append(m, b) \in Seq(Bubbles)
<1> DEFINE m2 == Append(m, b)
           p == Len(m) + 1
<1>1. /\ m2 \in Seq(Bubbles) /\ Len(m2) = p /\ m2[p] = b /\ p \in 1..Len(m2)
      /\ \A i \in 1..Len(m) : i \in 1..Len(m2) /\ m2[i] = m[i]
      /\ \A i \in 1..Len(m2) : i \in 1..Len(m) \/ i = p
      /\ Len(m) \in Nat /\ DOMAIN m = 1..Len(m) /\ DOMAIN m2 = 1..Len(m2)
  OBVIOUS
<1>2. b.role \in {"assistant", "user"}
  BY DEF Lines
<1> HIDE DEF m2
<1>3. \A i \in 1..Len(m) : i \in Kept(m2) <=> i \in Kept(m)
  <2> SUFFICES ASSUME NEW i \in 1..Len(m) PROVE i \in Kept(m2) <=> i \in Kept(m)
    OBVIOUS
  <2>1. m2[i] = m[i] /\ i \in DOMAIN m /\ i \in DOMAIN m2
    BY <1>1
  <2>2. CASE i = Len(m)
    BY <2>1, <2>2, <1>1, <1>2 DEF Kept
  <2>3. CASE i < Len(m)
    <3>1. m2[i + 1] = m[i + 1] /\ i < Len(m2)
      BY <2>3, <1>1
    <3> QED BY <2>1, <2>3, <3>1 DEF Kept
  <2>4. i = Len(m) \/ i < Len(m)
    OBVIOUS
  <2> QED BY <2>2, <2>3, <2>4
<1>4. p \in Kept(m2)
  BY <1>1, <1>2 DEF Kept
<1>5. Kept(m2) \subseteq 1..Len(m2) /\ Kept(m) \subseteq 1..Len(m)
  BY <1>1 DEF Kept
<1>6. Kept(m2) = Kept(m) \union {p}
  BY <1>1, <1>3, <1>4, <1>5
<1>7. \A i \in Kept(m) : i < p /\ m2[i].role = m[i].role /\ m2[i].text = m[i].text
  BY <1>1, <1>5
<1>8. m2[p].role = line.role /\ m2[p].text = line.text
  BY <1>1
<1> HIDE DEF p
<1>9. Told(m2, Append(d, line))
  BY <1>1, <1>6, <1>7, <1>8, MoreTold
<1> QED BY <1>1, <1>9 DEF m2

\* An error after an answer.
LEMMA ErrorTold ==
  ASSUME NEW m \in Seq(Bubbles), NEW d \in Seq(Lines), Told(m, d), Settled(m)
  PROVE  Told(Append(m, Refusal), d) /\ Settled(Append(m, Refusal))
<1> DEFINE m2 == Append(m, Refusal)
           p == Len(m) + 1
<1>1. Refusal \in Bubbles /\ Refusal.role = "error"
  BY BoundsAssumption DEF Refusal, Message, Failure, Bubbles
<1>2. /\ m2 \in Seq(Bubbles) /\ Len(m2) = p /\ m2[p] = Refusal
      /\ \A i \in 1..Len(m) : i \in 1..Len(m2) /\ m2[i] = m[i]
      /\ \A i \in 1..Len(m2) : i \in 1..Len(m) \/ i = p
      /\ Len(m) \in Nat /\ DOMAIN m = 1..Len(m) /\ DOMAIN m2 = 1..Len(m2)
  BY <1>1
<1> HIDE DEF m2
<1>3. \A i \in 1..Len(m) : i \in Kept(m2) <=> i \in Kept(m)
  <2> SUFFICES ASSUME NEW i \in 1..Len(m) PROVE i \in Kept(m2) <=> i \in Kept(m)
    OBVIOUS
  <2>1. m2[i] = m[i] /\ i \in DOMAIN m /\ i \in DOMAIN m2
    BY <1>2
  <2>2. CASE i = Len(m)
    <3>1. m[i].role # "user"
      BY <2>2, <1>2 DEF Settled
    <3> QED BY <2>1, <3>1 DEF Kept
  <2>3. CASE i < Len(m)
    <3>1. m2[i + 1] = m[i + 1] /\ i < Len(m2)
      BY <2>3, <1>2
    <3> QED BY <2>1, <2>3, <3>1 DEF Kept
  <2>4. i = Len(m) \/ i < Len(m)
    OBVIOUS
  <2> QED BY <2>2, <2>3, <2>4
<1>4. p \notin Kept(m2)
  BY <1>1, <1>2 DEF Kept
<1>5. Kept(m2) \subseteq 1..Len(m2) /\ Kept(m) \subseteq 1..Len(m)
  BY <1>2 DEF Kept
<1>6. Kept(m2) = Kept(m)
  BY <1>2, <1>3, <1>4, <1>5
<1>7. \A i \in Kept(m) : m2[i].role = m[i].role /\ m2[i].text = m[i].text
  BY <1>2, <1>5
<1>8. Told(m2, d)
  BY <1>2, <1>6, <1>7, SameTold
<1>9. Settled(m2)
  BY <1>1, <1>2 DEF Settled
<1> QED BY <1>8, <1>9 DEF m2

\* A message of the user and an error.
LEMMA RefusedTold ==
  ASSUME NEW m \in Seq(Bubbles), NEW u \in Bubbles, u.role = "user",
         NEW d \in Seq(Lines), Told(m, d),
         NEW m2, m2 = Append(Append(m, u), Refusal)
  PROVE  Told(m2, d) /\ Settled(m2)
<1> DEFINE p == Len(m) + 1
           q == Len(m) + 2
<1>1. Refusal \in Bubbles /\ Refusal.role = "error"
  BY BoundsAssumption DEF Refusal, Message, Failure, Bubbles
<1>2. /\ m2 \in Seq(Bubbles) /\ Len(m2) = q /\ m2[p] = u /\ m2[q] = Refusal
      /\ \A i \in 1..Len(m) : i \in 1..Len(m2) /\ m2[i] = m[i]
      /\ \A i \in 1..Len(m2) : i \in 1..Len(m) \/ i = p \/ i = q
      /\ Len(m) \in Nat /\ DOMAIN m = 1..Len(m) /\ DOMAIN m2 = 1..Len(m2)
  BY <1>1
<1>3. \A i \in 1..Len(m) : i \in Kept(m2) <=> i \in Kept(m)
  <2> SUFFICES ASSUME NEW i \in 1..Len(m) PROVE i \in Kept(m2) <=> i \in Kept(m)
    OBVIOUS
  <2>1. m2[i] = m[i] /\ i \in DOMAIN m /\ i \in DOMAIN m2
    BY <1>2
  <2>2. CASE i = Len(m)
    BY <2>1, <2>2, <1>2 DEF Kept
  <2>3. CASE i < Len(m)
    <3>1. m2[i + 1] = m[i + 1] /\ i < Len(m2)
      BY <2>3, <1>2
    <3> QED BY <2>1, <2>3, <3>1 DEF Kept
  <2>4. i = Len(m) \/ i < Len(m)
    OBVIOUS
  <2> QED BY <2>2, <2>3, <2>4
<1>4. p \notin Kept(m2) /\ q \notin Kept(m2)
  BY <1>1, <1>2 DEF Kept
<1>5. Kept(m2) \subseteq 1..Len(m2) /\ Kept(m) \subseteq 1..Len(m)
  BY <1>2 DEF Kept
<1>6. Kept(m2) = Kept(m)
  BY <1>2, <1>3, <1>4, <1>5
<1>7. \A i \in Kept(m) : m2[i].role = m[i].role /\ m2[i].text = m[i].text
  BY <1>2, <1>5
<1>8. Told(m2, d)
  BY <1>2, <1>6, <1>7, SameTold
<1>9. Settled(m2)
  BY <1>1, <1>2 DEF Settled
<1> QED BY <1>8, <1>9

\* The last answer, replaced.
LEMMA ReplacedTold ==
  ASSUME NEW m \in Seq(Bubbles), NEW p \in Nat, p = Len(m), p > 0, m[p].role = "assistant",
         NEW b \in Bubbles, b.role = "assistant", b.text \in 0..MaxSends,
         NEW d \in Seq(Lines), Told(m, d),
         NEW m2 \in Seq(Bubbles), Len(m2) = p, m2[p] = b,
         \A i \in 1..p : i # p => m2[i] = m[i]
  PROVE  Told(m2, [d EXCEPT ![Len(d)].text = b.text]) /\ Settled(m2)
<1>1. DOMAIN m = 1..p /\ DOMAIN m2 = 1..p /\ p \in 1..p
  OBVIOUS
<1>2. \A i \in 1..p : m2[i].role = m[i].role
  BY <1>1
<1>3. Kept(m2) = Kept(m)
  <2>1. \A i \in 1..p : i \in Kept(m2) <=> i \in Kept(m)
    <3> SUFFICES ASSUME NEW i \in 1..p PROVE i \in Kept(m2) <=> i \in Kept(m)
      OBVIOUS
    <3>1. m2[i].role = m[i].role /\ i \in DOMAIN m /\ i \in DOMAIN m2
      BY <1>1, <1>2
    <3>2. i < p => i + 1 \in 1..p
      OBVIOUS
    <3>3. i < p => m2[i + 1].role = m[i + 1].role
      BY <3>2, <1>2
    <3> QED BY <3>1, <3>3, <1>1 DEF Kept
  <2>2. Kept(m2) \subseteq 1..p /\ Kept(m) \subseteq 1..p
    BY <1>1 DEF Kept
  <2> QED BY <2>1, <2>2
<1>4. p \in Kept(m) /\ Kept(m) \subseteq 1..p
  BY <1>1 DEF Kept
<1>5. \A i \in Kept(m) : /\ i <= p /\ m2[i].role = m[i].role
                         /\ i # p => m2[i].text = m[i].text
  <2> SUFFICES ASSUME NEW i \in Kept(m)
               PROVE  /\ i <= p /\ m2[i].role = m[i].role
                      /\ i # p => m2[i].text = m[i].text
    OBVIOUS
  <2>1. i \in 1..p
    BY <1>4
  <2>2. i # p => m2[i] = m[i]
    BY <2>1
  <2>3. i <= p
    BY <2>1
  <2> QED BY <2>1, <2>2, <2>3, <1>2
<1>6. m2[p].text = b.text
  OBVIOUS
<1>7. Settled(m2)
  BY <1>1, <1>2 DEF Settled
<1>8. Told(m2, [d EXCEPT ![Len(d)].text = b.text])
  BY <1>3, <1>4, <1>5, <1>6, LastTold
<1> QED BY <1>7, <1>8

\* What is resumed.
LEMMA NumberedTold ==
  ASSUME NEW d \in Histories
  PROVE  /\ Numbered(d) \in Seq(Bubbles) /\ Told(Numbered(d), d) /\ Settled(Numbered(d))
         /\ Numbered(d) # <<>>
<1> DEFINE m == Numbered(d)
           C(i) == Cardinality({j \in 1..i : d[j].role = "assistant"})
<1>1. d \in Seq(Lines) /\ d # <<>> /\ Len(d) \in Nat /\ Len(d) > 0 /\ DOMAIN d = 1..Len(d)
      /\ d[Len(d)].role = "assistant"
  BY DEF Histories, Display
<1>2. \A i \in 1..Len(d) : C(i) \in Int
  <2> SUFFICES ASSUME NEW i \in 1..Len(d) PROVE C(i) \in Int
    OBVIOUS
  <2>1. IsFiniteSet(1..i)
    BY FS_Interval
  <2>2. IsFiniteSet({j \in 1..i : d[j].role = "assistant"})
    BY <2>1, FS_Subset
  <2> QED BY <2>2, FS_CardinalityType
<1>3. \A i \in 1..Len(d) : d[i] \in Lines
  BY <1>1
<1>4. m = [i \in 1..Len(d) |-> Message(d[i].role, d[i].text,
                                       IF d[i].role = "assistant" THEN C(i) ELSE 0)]
  BY <1>1 DEF Numbered
<1> HIDE DEF m, C
<1>5. \A i \in 1..Len(d) : m[i] \in Bubbles /\ m[i].role = d[i].role /\ m[i].text = d[i].text
  <2> SUFFICES ASSUME NEW i \in 1..Len(d)
               PROVE m[i] \in Bubbles /\ m[i].role = d[i].role /\ m[i].text = d[i].text
    OBVIOUS
  <2> DEFINE t == IF d[i].role = "assistant" THEN C(i) ELSE 0
  <2>1. t \in Int
    BY <1>2
  <2>2. m[i] = [role |-> d[i].role, text |-> d[i].text, turn |-> t]
    BY <1>4 DEF Message
  <2> HIDE DEF t
  <2> QED BY <2>1, <2>2, <1>3, BoundsAssumption DEF Lines, Bubbles
<1>6. m \in Seq(Bubbles) /\ Len(m) = Len(d) /\ DOMAIN m = 1..Len(d)
  BY <1>1, <1>4, <1>5
<1>7. Kept(m) = 1..Len(d)
  BY <1>1, <1>3, <1>5, <1>6 DEF Kept, Lines
<1>8. Told(m, d)
  <2> DEFINE e == [k \in 1..Len(d) |-> k]
             n == Len(d) - 0
  <2>1. n = Len(d)
    BY <1>1
  <2> HIDE DEF n
  <2>2. n >= 0 /\ e \in [1..n -> 1..Len(m)]
    BY <1>1, <1>6, <2>1
  <2>3. \A k, l \in 1..n : k < l => e[k] < e[l]
    BY <2>1
  <2>4. Kept(m) = {e[k] : k \in 1..n}
    BY <1>7, <2>1
  <2>5. \A k \in 1..n : m[e[k]].role = d[k + 0].role /\ m[e[k]].text = d[k + 0].text
    BY <1>1, <1>5, <2>1
  <2> HIDE DEF e
  <2>6. Tells(m, d, 0)
    BY <2>2, <2>3, <2>4, <2>5 DEF Tells, n
  <2> QED BY <2>6 DEF Told
<1>9. Settled(m)
  BY <1>1, <1>5, <1>6 DEF Settled
<1> QED BY <1>1, <1>6, <1>8, <1>9 DEF m

\* Nothing tells the opening.
LEMMA NothingTold ==
  <<>> \in Seq(Bubbles) /\ Told(<<>>, Fresh) /\ Settled(<<>>) /\ Fresh \in Histories
<1>1. Fresh \in Histories
  BY BoundsAssumption DEF Fresh, Histories, Display, Lines, OpeningText
<1> DEFINE n == Len(Fresh) - 1
           e == [k \in 1..n |-> 1]
<1>2. n = 0 /\ 1..n = {}
  BY DEF Fresh
<1>3. Kept(<<>>) = {}
  BY DEF Kept
<1> HIDE DEF n
<1>4. e \in [1..n -> 1..Len(<<>>)] /\ n >= 0 /\ Kept(<<>>) = {e[k] : k \in 1..n}
  BY <1>2, <1>3
<1>5. Tells(<<>>, Fresh, 1)
  <2> HIDE DEF e
  <2>1. \A k, l \in 1..n : k < l => e[k] < e[l]
    BY <1>2
  <2>2. \A k \in 1..n : /\ <<>>[e[k]].role = Fresh[k + 1].role
                        /\ <<>>[e[k]].text = Fresh[k + 1].text
    BY <1>2
  <2> QED BY <1>4, <2>1, <2>2 DEF Tells, n
<1>6. Settled(<<>>) /\ <<>> \in Seq(Bubbles)
  BY DEF Settled
<1> QED BY <1>1, <1>5, <1>6 DEF Told

-----------------------------------------------------------------------------
(* Turns in flight.                                                        *)

\* The bubbles m show the story d before the turn in flight.
Pending(mode, i, m, d) ==
  \/ /\ mode = "turn" /\ i >= 2 /\ Len(m) = i
     /\ m[i - 1].role = "user" /\ m[i].role = "assistant" /\ m[i].text = Partial
     /\ Told(SubSeq(m, 1, i - 2), d)
  \/ mode = "continue" /\ Told(m, d) /\ Settled(m)
  \/ mode = "regenerate" /\ Told(m, d) /\ m # <<>> /\ m[Len(m)].role = "assistant"

\* The turn in flight says what its bubble says.
Says(mode, i, m, text) == mode = "turn" => m[i - 1].text = text

\* What is asked for: a mode, a text and the story before.
Turns == {t \in [mode : Modes, text : 1..MaxSends, display : Histories] :
            t.mode = "regenerate" => Len(t.display) > 1}

\* The lines that a turn adds.
LEMMA LinesOf ==
  ASSUME NEW x \in 1..MaxSends
  PROVE  /\ [role |-> "user", text |-> x] \in Lines
         /\ [role |-> "assistant", text |-> x] \in Lines
BY BoundsAssumption DEF Lines

\* A turn makes a history of a history, whose last line is its text.
LEMMA PlayedHistory ==
  ASSUME NEW t \in Turns
  PROVE  /\ Played(t) \in Histories
         /\ Last(Played(t)).text = t.text
<1> DEFINE d == t.display
           x == t.text
           u == [role |-> "user", text |-> x]
           a == [role |-> "assistant", text |-> x]
<1>1. d \in Histories /\ x \in 1..MaxSends /\ t.mode \in Modes
      /\ (t.mode = "regenerate" => Len(d) > 1)
  BY DEF Turns
<1>2. u \in Lines /\ a \in Lines /\ x # OpeningText /\ u.text = x /\ a.text = x
      /\ a.role = "assistant"
  BY <1>1, LinesOf DEF OpeningText
<1>3. /\ d \in Seq(Lines) /\ d # <<>> /\ d[1] = Fresh[1] /\ d[Len(d)].role = "assistant"
      /\ \A i \in 2..Len(d) : d[i].text # OpeningText
  BY <1>1 DEF Histories, Display
<1>4. Len(d) \in Nat /\ Len(d) > 0
  BY <1>3
<1> HIDE DEF d, x, u, a
<1>5. CASE t.mode = "turn"
  <2> DEFINE p == d \o <<u, a>>
  <2>1. Played(t) = p
    BY <1>5 DEF Played, d, x, u, a
  <2>2. /\ p \in Seq(Lines) /\ Len(p) = Len(d) + 2 /\ p[Len(d) + 1] = u /\ p[Len(d) + 2] = a
        /\ \A i \in 1..Len(d) : p[i] = d[i]
    BY <1>2, <1>3
  <2> HIDE DEF p
  <2>3. p # <<>> /\ p[1] = Fresh[1] /\ p[Len(p)].role = "assistant" /\ Last(p).text = x
    BY <2>2, <1>2, <1>3, <1>4 DEF Last
  <2>4. \A i \in 2..Len(p) : p[i].text # OpeningText
    BY <2>2, <1>2, <1>3, <1>4
  <2> QED BY <2>1, <2>2, <2>3, <2>4 DEF Histories, Display, x
<1>6. CASE t.mode = "continue"
  <2> DEFINE p == Append(d, a)
  <2>1. Played(t) = p
    BY <1>6 DEF Played, d, x, a
  <2>2. /\ p \in Seq(Lines) /\ Len(p) = Len(d) + 1 /\ p[Len(d) + 1] = a
        /\ \A i \in 1..Len(d) : p[i] = d[i]
    BY <1>2, <1>3
  <2> HIDE DEF p
  <2>3. p # <<>> /\ p[1] = Fresh[1] /\ p[Len(p)].role = "assistant" /\ Last(p).text = x
    BY <2>2, <1>2, <1>3, <1>4 DEF Last
  <2>4. \A i \in 2..Len(p) : p[i].text # OpeningText
    BY <2>2, <1>2, <1>3, <1>4
  <2> QED BY <2>1, <2>2, <2>3, <2>4 DEF Histories, Display, x
<1>7. CASE t.mode = "regenerate"
  <2> DEFINE p == [d EXCEPT ![Len(d)].text = x]
             n == Len(d)
  <2>1. Played(t) = p
    BY <1>7 DEF Played, d, x
  <2>2. n \in Nat /\ n > 1
    BY <1>1, <1>4, <1>7
  <2>3. d[n] \in Lines /\ n \in 1..Len(d)
    BY <2>2, <1>3
  <2>4. /\ p \in Seq(Lines) /\ Len(p) = n /\ p[n].role = d[n].role /\ p[n].text = x
        /\ \A i \in 1..n : i # n => p[i] = d[i]
    <3> DEFINE line == [d[n] EXCEPT !.text = x]
    <3>1. line \in Lines /\ line.role = d[n].role /\ line.text = x
      BY <2>3, <1>2 DEF Lines, u
    <3>2. p = [d EXCEPT ![n] = line]
      OBVIOUS
    <3> HIDE DEF line
    <3>3. /\ [d EXCEPT ![n] = line] \in Seq(Lines) /\ Len([d EXCEPT ![n] = line]) = Len(d)
          /\ \A j \in 1..Len(d) : [d EXCEPT ![n] = line][j] = IF j = n THEN line ELSE d[j]
      BY <2>3, <3>1, <1>3, ExceptSeq
    <3> QED BY <3>1, <3>2, <3>3, <2>3
  <2> HIDE DEF p
  <2>5. p # <<>> /\ p[1] = Fresh[1] /\ p[Len(p)].role = "assistant" /\ Last(p).text = x
    BY <2>2, <2>4, <1>3 DEF Last
  <2>6. \A i \in 2..Len(p) : p[i].text # OpeningText
    BY <2>2, <2>4, <1>2, <1>3
  <2> QED BY <2>1, <2>4, <2>5, <2>6 DEF Histories, Display, x
<1> QED BY <1>1, <1>5, <1>6, <1>7 DEF Modes

\* A bubble of such a history is one of the assistant's.
LEMMA BubbleOf ==
  ASSUME NEW d \in Histories
  PROVE  Bubble(d) \in Bubbles /\ Bubble(d).role = "assistant" /\ Bubble(d).text = Last(d).text
<1> DEFINE S == {i \in DOMAIN d : d[i].role = "assistant"}
<1>1. d \in Seq(Lines) /\ Len(d) \in Nat /\ Len(d) > 0 /\ DOMAIN d = 1..Len(d)
  BY DEF Histories, Display
<1>2. IsFiniteSet(1..Len(d))
  BY <1>1, FS_Interval
<1>3. IsFiniteSet(S)
  BY <1>1, <1>2, FS_Subset
<1>4. Cardinality(S) - 1 \in Int
  BY <1>3, FS_CardinalityType
<1>5. Last(d) \in Lines
  BY <1>1 DEF Last
<1>6. Last(d).text \in Nat
  BY <1>5, BoundsAssumption DEF Lines
<1> DEFINE c == Cardinality(S) - 1
<1>7. Bubble(d) = [role |-> "assistant", text |-> Last(d).text, turn |-> c]
  BY DEF Bubble, Message
<1> HIDE DEF c
<1>8. c \in Int
  BY <1>4 DEF c
<1> QED BY <1>6, <1>7, <1>8 DEF Bubbles

\* A bubble is put at its place, or beyond the end.
LEMMA PutTyped ==
  ASSUME NEW m \in Seq(Bubbles), NEW i \in Nat, NEW b \in Bubbles
  PROVE  /\ Put(m, i, b) \in Seq(Bubbles) /\ Len(Put(m, i, b)) >= Len(m)
         /\ i \in 1..Len(m) =>
              /\ Len(Put(m, i, b)) = Len(m) /\ Put(m, i, b)[i] = b
              /\ \A k \in 1..Len(m) : k # i => Put(m, i, b)[k] = m[k]
<1> DEFINE n == IF i > Len(m) THEN i ELSE Len(m)
           hole == Message("hole", 0, 0)
           P == [k \in 1..n |-> IF k = i THEN b ELSE IF k <= Len(m) THEN m[k] ELSE hole]
<1>1. Len(m) \in Nat
  OBVIOUS
<1>2. n \in Nat /\ n >= Len(m) /\ (i \in 1..Len(m) => n = Len(m))
  BY <1>1
<1>3. hole \in Bubbles
  BY DEF Message, Bubbles
<1>4. P = Put(m, i, b)
  BY DEF Put
<1> HIDE DEF n, hole
<1>5. P \in Seq(Bubbles) /\ Len(P) = n
  BY <1>1, <1>2, <1>3
<1>6. \A k \in 1..n : P[k] = IF k = i THEN b ELSE IF k <= Len(m) THEN m[k] ELSE hole
  OBVIOUS
<1> HIDE DEF P
<1>7. i \in 1..Len(m) => /\ Len(P) = Len(m) /\ P[i] = b
                         /\ \A k \in 1..Len(m) : k # i => P[k] = m[k]
  BY <1>1, <1>2, <1>5, <1>6
<1> QED BY <1>2, <1>4, <1>5, <1>7

\* A list does not get shorter.
LEMMA PutLonger ==
  ASSUME NEW m, Len(m) \in Nat, NEW i \in Nat, NEW b
  PROVE  Len(Put(m, i, b)) >= Len(m)
<1> DEFINE n == IF i > Len(m) THEN i ELSE Len(m)
<1>1. n \in Nat /\ n >= Len(m)
  OBVIOUS
<1> HIDE DEF n
<1>2. Len([k \in 1..n |-> IF k = i THEN b ELSE IF k <= Len(m) THEN m[k]
                          ELSE Message("hole", 0, 0)]) = n
  BY <1>1
<1>3. Len(Put(m, i, b)) = n
  BY <1>2 DEF Put, n
<1> QED BY <1>1, <1>3

\* Errors are bubbles.
LEMMA RefusalTyped == Refusal \in Bubbles /\ Nothing \in Bubbles /\ Refusal.role = "error"
                      /\ Nothing # Refusal /\ Nothing.role = "none"
BY BoundsAssumption DEF Refusal, Nothing, Message, Failure, Bubbles

\* Bubbles stay bubbles, and do not vanish.
LEMMA ShowTyped ==
  ASSUME messages \in Seq(Bubbles), at \in Nat, doing \in Modes, NEW b \in Bubbles
  PROVE  /\ Show(b) \in Seq(Bubbles)
         /\ (doing = "turn" => Len(messages) >= 2) /\ (doing = "regenerate" => messages # <<>>)
              => Show(b) # <<>>
<1>1. Len(messages) \in Nat
  OBVIOUS
<1>2. CASE doing = "turn"
  <2>1. Show(b) = Put(messages, at, b)
    BY <1>2 DEF Show
  <2>2. Put(messages, at, b) \in Seq(Bubbles) /\ Len(Put(messages, at, b)) >= Len(messages)
    BY PutTyped
  <2>3. Len(messages) >= 2 => Put(messages, at, b) # <<>>
    BY <2>2, <1>1
  <2> QED BY <2>1, <2>2, <2>3, <1>2
<1>3. CASE doing = "continue"
  <2>1. Show(b) = Append(messages, b)
    BY <1>3 DEF Show
  <2> QED BY <2>1, AppendProperties
<1>4. CASE doing = "regenerate"
  <2>1. Show(b) = IF messages # <<>> /\ Last(messages).role = "assistant"
                    THEN Put(messages, Len(messages), b) ELSE messages
    BY <1>4 DEF Show
  <2>2. /\ Put(messages, Len(messages), b) \in Seq(Bubbles)
        /\ Len(Put(messages, Len(messages), b)) >= Len(messages)
    BY <1>1, PutTyped
  <2>3. messages # <<>> => Put(messages, Len(messages), b) # <<>>
    BY <2>2, <1>1
  <2> QED BY <2>1, <2>2, <2>3, <1>4
<1> QED BY <1>2, <1>3, <1>4 DEF Modes

\* An error takes the place of a placeholder at most.
LEMMA FailedTyped ==
  ASSUME messages \in Seq(Bubbles), at \in Nat, doing \in Modes
  PROVE  /\ Failed \in Seq(Bubbles)
         /\ (doing = "turn" => Len(messages) >= 2) => Failed # <<>>
<1> DEFINE told == Append(messages, Refusal)
<1>1. told \in Seq(Bubbles) /\ Len(told) = Len(messages) + 1 /\ Len(messages) \in Nat
      /\ DOMAIN told = 1..Len(told)
  BY RefusalTyped
<1>2. Failed = IF doing = "turn" /\ at \in DOMAIN told THEN RemoveAt(told, at) ELSE told
  BY DEF Failed
<1> HIDE DEF told
<1>3. CASE doing = "turn" /\ at \in DOMAIN told
  <2>1. at \in 1..Len(told)
    BY <1>1, <1>3
  <2> DEFINE l == SubSeq(told, 1, at - 1)
             r == SubSeq(told, at + 1, Len(told))
  <2>2. l \in Seq(Bubbles) /\ r \in Seq(Bubbles) /\ Len(l) = at - 1 /\ Len(r) = Len(told) - at
    BY <1>1, <2>1
  <2>3. Failed = l \o r
    BY <1>2, <1>3 DEF RemoveAt
  <2> HIDE DEF l, r
  <2>4. l \o r \in Seq(Bubbles) /\ Len(l \o r) = Len(l) + Len(r)
    BY <2>2, ConcatProperties
  <2>5. Len(l \o r) = Len(messages)
    BY <2>1, <2>2, <2>4, <1>1
  <2> QED BY <2>3, <2>4, <2>5, <1>3
<1>4. CASE ~(doing = "turn" /\ at \in DOMAIN told)
  <2>1. told # <<>>
    BY <1>1
  <2> QED BY <1>1, <1>2, <1>4, <2>1
<1> QED BY <1>3, <1>4

\* The bubbles before those of a turn that is streamed.
LEMMA PendingTurn ==
  ASSUME NEW m \in Seq(Bubbles), NEW i \in Nat, i >= 2, Len(m) = i
  PROVE  /\ SubSeq(m, 1, i - 2) \in Seq(Bubbles) /\ Len(SubSeq(m, 1, i - 2)) = i - 2
         /\ m[i - 1] \in Bubbles /\ m[i] \in Bubbles
         /\ \A b \in Bubbles :
              /\ Put(m, i, b) = Append(Append(SubSeq(m, 1, i - 2), m[i - 1]), b)
              /\ RemoveAt(Append(m, b), i) = Append(Append(SubSeq(m, 1, i - 2), m[i - 1]), b)
<1> DEFINE base == SubSeq(m, 1, i - 2)
           u == m[i - 1]
<1>1. /\ base \in Seq(Bubbles) /\ Len(base) = i - 2
      /\ \A k \in 1..i - 2 : base[k] = m[k]
  OBVIOUS
<1>2. u \in Bubbles /\ m[i] \in Bubbles
  OBVIOUS
<1>3. ASSUME NEW b \in Bubbles
      PROVE  /\ Put(m, i, b) = Append(Append(base, u), b)
             /\ RemoveAt(Append(m, b), i) = Append(Append(base, u), b)
  <2> DEFINE r == Append(Append(base, u), b)
  <2>1. /\ r \in Seq(Bubbles) /\ Len(r) = i /\ r[i] = b
        /\ \A k \in 1..i - 1 : r[k] = m[k]
    <3>1. /\ Append(base, u) \in Seq(Bubbles) /\ Len(Append(base, u)) = i - 1
          /\ \A k \in 1..i - 1 : Append(base, u)[k] = m[k]
      <4>1. Append(base, u)[i - 1] = u
        BY <1>1, <1>2
      <4>2. \A k \in 1..i - 2 : Append(base, u)[k] = base[k]
        BY <1>1, <1>2
      <4> HIDE DEF base
      <4>3. Append(base, u) \in Seq(Bubbles) /\ Len(Append(base, u)) = i - 1
        BY <1>1, <1>2
      <4>4. \A k \in 1..i - 1 : k = i - 1 \/ k \in 1..i - 2
        OBVIOUS
      <4> QED BY <4>1, <4>2, <4>3, <4>4, <1>1
    <3> HIDE DEF base, u
    <3> QED BY <3>1
  <2> HIDE DEF r, base, u
  <2>2. i \in 1..Len(m) /\ i \in Nat
    OBVIOUS
  <2>3. Put(m, i, b) = r
    <3>1. /\ Put(m, i, b) \in Seq(Bubbles) /\ Len(Put(m, i, b)) = i /\ Put(m, i, b)[i] = b
          /\ \A k \in 1..i : k # i => Put(m, i, b)[k] = m[k]
      BY <2>2, PutTyped
    <3>2. \A k \in 1..i : Put(m, i, b)[k] = r[k]
      BY <2>1, <3>1
    <3> QED BY <2>1, <3>1, <3>2, SeqEqual
  <2>4. RemoveAt(Append(m, b), i) = r
    <3> DEFINE p == Append(m, b)
               x == SubSeq(p, 1, i - 1)
               y == SubSeq(p, i + 1, Len(p))
    <3>1. p \in Seq(Bubbles) /\ Len(p) = i + 1 /\ p[i + 1] = b /\ \A k \in 1..i : p[k] = m[k]
      OBVIOUS
    <3> HIDE DEF p
    <3>2. x \in Seq(Bubbles) /\ Len(x) = i - 1 /\ \A k \in 1..i - 1 : x[k] = p[k]
      BY <3>1
    <3>3. y \in Seq(Bubbles) /\ Len(y) = 1 /\ y[1] = b
      BY <3>1
    <3>4. RemoveAt(p, i) = x \o y
      BY DEF RemoveAt
    <3> HIDE DEF x, y
    <3>8. /\ x \o y \in Seq(Bubbles) /\ Len(x \o y) = Len(x) + Len(y)
          /\ \A k \in 1..Len(x) + Len(y) :
               (x \o y)[k] = IF k <= Len(x) THEN x[k] ELSE y[k - Len(x)]
      BY <3>2, <3>3, ConcatProperties
    <3>9. Len(x) + Len(y) = i
      BY <3>2, <3>3
    <3>5. /\ x \o y \in Seq(Bubbles) /\ Len(x \o y) = i
          /\ \A k \in 1..i : (x \o y)[k] = IF k <= Len(x) THEN x[k] ELSE y[k - Len(x)]
      BY <3>8, <3>9
    <3>6. \A k \in 1..i : (x \o y)[k] = r[k]
      <4> SUFFICES ASSUME NEW k \in 1..i PROVE (x \o y)[k] = r[k]
        OBVIOUS
      <4>1. CASE k = i
        BY <4>1, <3>2, <3>3, <3>5, <2>1
      <4>2. CASE k # i
        BY <4>2, <3>1, <3>2, <3>3, <3>5, <2>1
      <4> QED BY <4>1, <4>2
    <3>7. x \o y = r
      BY <3>5, <3>6, <2>1, SeqEqual
    <3> QED BY <3>4, <3>7 DEF p
  <2> QED BY <2>3, <2>4 DEF r, base, u
<1> QED BY <1>1, <1>2, <1>3

\* The answer of a turn that is pending makes its story.
LEMMA ShowTold ==
  ASSUME messages \in Seq(Bubbles), at \in Nat, NEW t \in Turns, t.mode = doing,
         NEW b \in Bubbles, b.role = "assistant", b.text = t.text,
         Pending(doing, at, messages, t.display), Says(doing, at, messages, t.text)
  PROVE  Told(Show(b), Played(t)) /\ Settled(Show(b))
<1> DEFINE d == t.display
           x == t.text
           u == [role |-> "user", text |-> x]
           a == [role |-> "assistant", text |-> x]
<1>1. d \in Seq(Lines) /\ x \in 1..MaxSends /\ doing \in Modes
  BY DEF Turns, Histories
<1>2. u \in Lines /\ a \in Lines /\ u.role = "user" /\ u.text = x
      /\ a.role = "assistant" /\ a.text = x /\ x \in 0..MaxSends
  BY <1>1, LinesOf
<1>3. b.role = a.role /\ b.text = a.text
  OBVIOUS
<1> HIDE DEF u, a
<1>4. CASE doing = "turn"
  <2> DEFINE base == SubSeq(messages, 1, at - 2)
             v == messages[at - 1]
             m1 == Append(base, v)
             m2 == Append(m1, b)
  <2>1. at >= 2 /\ Len(messages) = at /\ v.role = "user" /\ Told(base, d) /\ v.text = x
    BY <1>4 DEF Pending, Says
  <2>2. base \in Seq(Bubbles) /\ v \in Bubbles /\ Put(messages, at, b) = m2
    BY <2>1, PendingTurn
  <2>3. Show(b) = m2
    BY <2>2, <1>4 DEF Show
  <2> HIDE DEF base, v
  <2>4. v.role = u.role /\ v.text = u.text
    BY <2>1, <1>2
  <2>5. Told(m1, Append(d, u)) /\ m1 \in Seq(Bubbles)
    BY <2>1, <2>2, <2>4, <1>1, <1>2, AnswerTold
  <2> HIDE DEF m1, d
  <2>6. Append(d, u) \in Seq(Lines)
    BY <1>1, <1>2
  <2>7. Told(m2, Append(Append(d, u), a)) /\ m2 \in Seq(Bubbles)
    BY <2>5, <2>6, <1>2, <1>3, AnswerTold
  <2>8. Played(t) = Append(Append(d, u), a)
    <3>1. Played(t) = d \o <<u, a>>
      BY <1>4 DEF Played, d, u, a
    <3>2. d \o <<u, a>> = Append(Append(d, u), a)
      BY <1>1, <1>2
    <3> QED BY <3>1, <3>2
  <2>9. Settled(m2)
    BY <2>5, <1>2 DEF Settled
  <2> QED BY <2>3, <2>7, <2>8, <2>9
<1>5. CASE doing = "continue"
  <2>1. Told(messages, d)
    BY <1>5 DEF Pending
  <2>2. Told(Append(messages, b), Append(d, a)) /\ Append(messages, b) \in Seq(Bubbles)
    BY <2>1, <1>1, <1>2, <1>3, AnswerTold
  <2>3. Show(b) = Append(messages, b) /\ Played(t) = Append(d, a)
    BY <1>5 DEF Show, Played, a
  <2>4. Settled(Append(messages, b))
    BY <1>2 DEF Settled
  <2> QED BY <2>2, <2>3, <2>4
<1>6. CASE doing = "regenerate"
  <2> DEFINE p == Len(messages)
             m2 == Put(messages, p, b)
  <2>1. Told(messages, d) /\ messages # <<>> /\ messages[p].role = "assistant"
    BY <1>6 DEF Pending
  <2>2. p \in Nat /\ p > 0 /\ p \in 1..p
    BY <2>1
  <2>3. Show(b) = m2
    BY <2>1, <1>6 DEF Show, Last
  <2>4. /\ m2 \in Seq(Bubbles) /\ Len(m2) = p /\ m2[p] = b
        /\ \A k \in 1..p : k # p => m2[k] = messages[k]
    BY <2>2, PutTyped
  <2>5. Played(t) = [d EXCEPT ![Len(d)].text = b.text]
    BY <1>6 DEF Played
  <2>6. b.text \in 0..MaxSends
    BY <1>2
  <2> HIDE DEF m2, d
  <2>7. p = Len(messages)
    OBVIOUS
  <2> HIDE DEF p
  <2>8. Told(m2, [d EXCEPT ![Len(d)].text = b.text]) /\ Settled(m2)
    BY <2>1, <2>2, <2>4, <2>6, <2>7, <1>1, ReplacedTold
  <2> QED BY <2>3, <2>5, <2>8
<1> QED BY <1>1, <1>4, <1>5, <1>6 DEF Modes

\* The refusal of a turn that is pending leaves the story.
LEMMA FailedTold ==
  ASSUME messages \in Seq(Bubbles), at \in Nat, doing \in Modes, NEW d \in Histories,
         Pending(doing, at, messages, d)
  PROVE  Told(Failed, d) /\ Settled(Failed)
<1>1. d \in Seq(Lines)
  BY DEF Histories
<1>2. CASE doing = "turn"
  <2> DEFINE base == SubSeq(messages, 1, at - 2)
             v == messages[at - 1]
             m2 == Append(Append(base, v), Refusal)
  <2>1. at >= 2 /\ Len(messages) = at /\ v.role = "user" /\ Told(base, d)
    BY <1>2 DEF Pending
  <2>2. base \in Seq(Bubbles) /\ v \in Bubbles /\ RemoveAt(Append(messages, Refusal), at) = m2
    BY <2>1, PendingTurn, RefusalTyped
  <2>3. at \in DOMAIN Append(messages, Refusal)
    BY <2>1, RefusalTyped
  <2>4. Failed = m2
    BY <2>2, <2>3, <1>2 DEF Failed
  <2> HIDE DEF base, v
  <2> QED BY <2>1, <2>2, <2>4, <1>1, RefusedTold
<1>3. CASE doing # "turn"
  <2>1. Failed = Append(messages, Refusal)
    BY <1>3 DEF Failed
  <2>2. Told(messages, d) /\ Settled(messages)
    BY <1>3 DEF Pending, Settled
  <2> QED BY <2>1, <2>2, <1>1, ErrorTold
<1> QED BY <1>2, <1>3

\* A message of the user and a placeholder wait for a turn.
LEMMA SendPending ==
  ASSUME NEW m \in Seq(Bubbles), NEW x \in 1..MaxSends,
         NEW m2, m2 = m \o <<Message("user", x, 0), Message("assistant", Partial, 0)>>
  PROVE  /\ m2 \in Seq(Bubbles) /\ Len(m2) = Len(m) + 2
         /\ \A d : Told(m, d) => Pending("turn", Len(m) + 2, m2, d)
         /\ Says("turn", Len(m) + 2, m2, x)
<1> DEFINE u == Message("user", x, 0)
           b == Message("assistant", Partial, 0)
           i == Len(m) + 2
<1>1. u \in Bubbles /\ b \in Bubbles /\ u.role = "user" /\ u.text = x /\ b.role = "assistant"
      /\ b.text = Partial
  BY BoundsAssumption DEF Message, Bubbles, Partial
<1> HIDE DEF u, b
<1>2. Len(m) \in Nat /\ m2 = m \o <<u, b>>
  BY DEF u, b
<1>3. /\ m2 \in Seq(Bubbles) /\ Len(m2) = i /\ m2[Len(m) + 1] = u /\ m2[i] = b
      /\ \A k \in 1..Len(m) : m2[k] = m[k]
  BY <1>1, <1>2
<1>4. i - 1 = Len(m) + 1 /\ i - 2 = Len(m) /\ i >= 2
  BY <1>2
<1>5. SubSeq(m2, 1, i - 2) = m
  <2>1. /\ SubSeq(m2, 1, Len(m)) \in Seq(Bubbles) /\ Len(SubSeq(m2, 1, Len(m))) = Len(m)
        /\ \A k \in 1..Len(m) : SubSeq(m2, 1, Len(m))[k] = m[k]
    BY <1>2, <1>3
  <2>2. SubSeq(m2, 1, Len(m)) = m
    BY <2>1, SeqEqual
  <2> QED BY <2>2, <1>4
<1> HIDE DEF i
<1>6. \A d : Told(m, d) => Pending("turn", i, m2, d)
  BY <1>1, <1>3, <1>4, <1>5 DEF Pending
<1>7. Says("turn", i, m2, x)
  BY <1>1, <1>3, <1>4 DEF Says
<1> QED BY <1>3, <1>6, <1>7 DEF i

-----------------------------------------------------------------------------
(* Types.                                                                  *)

Sessions == {NoSession} \union [status : {"initializing", "ready", "error"}, display : Histories]

Rows == [visit : Visits, display : Histories, void : {FALSE}]
          \union [visit : Visits, display : {<<>>}, void : {TRUE}]

\* A view that is open has a visit; histories are histories.
Typed ==
  /\ preview \in BOOLEAN /\ page \in {"away", "open"} /\ visit \in 0..MaxVisits
  /\ page = "open" => visit \in Visits
  /\ messages \in Seq(Bubbles) /\ engine \in {"asked", "waiting", "ready", "error"}
  /\ past \in {"asked", "read", "settled"} /\ pastLog \in Histories \union {<<>>}
  /\ doing \in Modes \union {"none"} /\ at \in Nat /\ answer \in Bubbles
  /\ leaving \in {"no", "waits", "ended"}
  /\ ctx \in [Visits -> Sessions] /\ running \in [Visits -> Turns \union {NoTurn}]
  /\ rows \in Seq(Rows) /\ sends \in 0..MaxSends

\* What the next visit resumes is a history.
LEMMA LastTyped ==
  ASSUME rows \in Seq(Rows)
  PROVE  /\ LastDisplay \in Histories \union {<<>>} /\ LastEngine \in Histories
         /\ IF LastDisplay = <<>> THEN LastEngine = Fresh ELSE LastEngine = LastDisplay
<1>1. \A d \in Histories : d # <<>>
  BY DEF Histories, Display
<1>2. CASE rows = <<>>
  BY <1>2, NothingTold DEF LastDisplay, LastEngine
<1>3. CASE rows # <<>>
  <2>1. Last(rows) \in Rows
    BY <1>3 DEF Last
  <2>2. CASE Last(rows).void
    BY <2>1, <2>2, <1>3, NothingTold DEF LastDisplay, LastEngine, Rows
  <2>3. CASE ~Last(rows).void
    BY <2>1, <2>3, <1>1, <1>3 DEF LastDisplay, LastEngine, Rows
  <2> QED BY <2>2, <2>3
<1> QED BY <1>2, <1>3

\* A row is written over the one of its visit, or at the end.
LEMMA UpsertedRows ==
  ASSUME rows \in Seq(Rows), preview \in BOOLEAN, NEW row \in Rows
  PROVE  /\ Upserted(row) \in Seq(Rows)
         /\ preview => Upserted(row) = rows
         /\ \A n \in 0..MaxVisits :
              (\A i \in DOMAIN rows : rows[i].visit <= n) /\ row.visit <= n
                => \A i \in DOMAIN Upserted(row) : Upserted(row)[i].visit <= n
         /\ ~preview /\ (\A i \in DOMAIN rows : rows[i].visit = row.visit => i = Len(rows))
              => /\ Upserted(row) # <<>> /\ Last(Upserted(row)) = row
                 /\ \A i \in DOMAIN Upserted(row) :
                      Upserted(row)[i].visit = row.visit => i = Len(Upserted(row))
<1> DEFINE U == Upserted(row)
           n == Len(rows)
<1>1. n \in Nat /\ DOMAIN rows = 1..n /\ \A i \in 1..n : rows[i] \in Rows
  OBVIOUS
<1>2. CASE preview
  BY <1>2 DEF Upserted
<1>3. CASE ~preview /\ \E i \in DOMAIN rows : rows[i].visit = row.visit
  <2>1. U = [i \in 1..n |-> IF rows[i].visit = row.visit THEN row ELSE rows[i]]
    BY <1>1, <1>3 DEF Upserted
  <2> HIDE DEF U
  <2>2. U \in Seq(Rows) /\ Len(U) = n /\ DOMAIN U = 1..n
    BY <2>1, <1>1
  <2>3. \A i \in 1..n : U[i] = IF rows[i].visit = row.visit THEN row ELSE rows[i]
    BY <2>1
  <2> HIDE DEF n
  <2>4. ASSUME NEW k \in 0..MaxVisits, \A i \in DOMAIN rows : rows[i].visit <= k, row.visit <= k
        PROVE  \A i \in DOMAIN U : U[i].visit <= k
    BY <2>2, <2>3, <2>4, <1>1
  <2>5. ASSUME \A i \in DOMAIN rows : rows[i].visit = row.visit => i = Len(rows)
        PROVE  /\ U # <<>> /\ Last(U) = row
               /\ \A i \in DOMAIN U : U[i].visit = row.visit => i = Len(U)
    <3>1. n = Len(rows)
      BY DEF n
    <3>2. n \in 1..n /\ rows[n].visit = row.visit
      BY <2>5, <3>1, <1>1, <1>3
    <3>3. U # <<>> /\ U[n] = row
      BY <2>2, <2>3, <3>2
    <3>4. \A i \in 1..n : U[i].visit = row.visit => i = n
      BY <2>3, <2>5, <3>1, <1>1
    <3> QED BY <2>2, <3>3, <3>4 DEF Last
  <2> QED BY <2>2, <2>4, <2>5, <1>3 DEF U
<1>4. CASE ~preview /\ ~\E i \in DOMAIN rows : rows[i].visit = row.visit
  <2>1. U = Append(rows, row)
    BY <1>4 DEF Upserted
  <2> HIDE DEF U
  <2>2. U \in Seq(Rows) /\ Len(U) = n + 1 /\ U[n + 1] = row /\ DOMAIN U = 1..n + 1
        /\ \A i \in 1..n : U[i] = rows[i]
    BY <2>1
  <2> HIDE DEF n
  <2>3. \A i \in 1..n + 1 : i = n + 1 \/ i \in 1..n
    BY <1>1
  <2>4. ASSUME NEW k \in 0..MaxVisits, \A i \in DOMAIN rows : rows[i].visit <= k, row.visit <= k
        PROVE  \A i \in DOMAIN U : U[i].visit <= k
    BY <2>2, <2>3, <2>4, <1>1
  <2>5. U # <<>> /\ Last(U) = row
    BY <2>2, <1>1 DEF Last
  <2>6. \A i \in DOMAIN U : U[i].visit = row.visit => i = Len(U)
    BY <2>2, <2>3, <1>1, <1>4
  <2> QED BY <2>2, <2>4, <2>5, <2>6, <1>4 DEF U
<1> QED BY <1>2, <1>3, <1>4

\* A session becomes another.
LEMMA SessionTyped ==
  ASSUME ctx \in [Visits -> Sessions], NEW v \in Visits, ctx[v].status = "initializing",
         NEW status \in {"ready", "error"}
  PROVE  /\ [ctx EXCEPT ![v].status = status] \in [Visits -> Sessions]
         /\ [ctx EXCEPT ![v].status = status][v].display = ctx[v].display
         /\ [ctx EXCEPT ![v].status = status][v].status = status
         /\ \A w \in Visits : w # v => [ctx EXCEPT ![v].status = status][w] = ctx[w]
<1> DEFINE s == [ctx[v] EXCEPT !.status = status]
<1>1. ctx[v] \in [status : {"initializing", "ready", "error"}, display : Histories]
  BY DEF Sessions, NoSession
<1>2. s \in [status : {"initializing", "ready", "error"}, display : Histories]
      /\ s.display = ctx[v].display /\ s.status = status
  BY <1>1
<1>3. [ctx EXCEPT ![v].status = status] = [ctx EXCEPT ![v] = s]
  OBVIOUS
<1> HIDE DEF s
<1>4. s \in Sessions
  BY <1>2 DEF Sessions
<1> QED BY <1>2, <1>3, <1>4

\* What a turn that is taken runs with.
LEMMA TurnTyped ==
  ASSUME NEW s \in Sessions, s.status = "ready", NEW mode \in Modes,
         mode = "regenerate" => Len(s.display) > 1, NEW n \in 0..MaxSends, n < MaxSends,
         NEW t, t = [mode |-> mode, text |-> n + 1, display |-> s.display]
  PROVE  t \in Turns /\ t.mode = mode /\ t.text = n + 1 /\ t.display = s.display
<1>1. s.display \in Histories
  BY DEF Sessions, NoSession
<1>2. n + 1 \in 1..MaxSends
  BY BoundsAssumption
<1> QED BY <1>1, <1>2 DEF Turns

\* The rows that are written.
LEMMA RowTyped ==
  ASSUME NEW v \in Visits
  PROVE  /\ \A d \in Histories : /\ Row(v, d, FALSE) \in Rows
                                 /\ Row(v, d, FALSE).visit = v /\ Row(v, d, FALSE).display = d
                                 /\ ~Row(v, d, FALSE).void
         /\ Row(v, <<>>, TRUE) \in Rows /\ Row(v, <<>>, TRUE).visit = v
BY DEF Row, Rows

\* Initial states are well typed.
LEMMA TypedInit ==
  ASSUME Init
  PROVE  Typed
<1>1. <<>> \in Seq(Bubbles) /\ <<>> \in Seq(Rows)
  OBVIOUS
<1>2. NoSession \in Sessions
  BY DEF Sessions
<1> QED BY <1>1, <1>2, RefusalTyped, BoundsAssumption DEF Init, Typed, Modes

\* Clients ask with a mode, of a session of their visit.
LEMMA TypedAsked ==
  ASSUME Typed, NEW mode \in Modes, Asked(mode)
  PROVE  /\ running' \in [Visits -> Turns \union {NoTurn}] /\ sends' \in 0..MaxSends
         /\ doing' = mode /\ answer' \in Bubbles /\ visit \in Visits
<1>1. /\ visit \in Visits /\ sends \in 0..MaxSends /\ sends < MaxSends /\ ctx[visit] \in Sessions
      /\ running \in [Visits -> Turns \union {NoTurn}]
  BY DEF Typed, Asked
<1>2. sends' = sends + 1 /\ doing' = mode
  BY DEF Asked
<1>3. sends' \in 0..MaxSends
  BY <1>1, <1>2, BoundsAssumption
<1> DEFINE t == [mode |-> mode, text |-> sends + 1, display |-> ctx[visit].display]
<1>4. CASE /\ ctx[visit].status = "ready" /\ running[visit].mode = "none"
           /\ mode = "regenerate" => Len(ctx[visit].display) > 1
  <2>1. running' = [running EXCEPT ![visit] = t] /\ answer' = Nothing
    BY <1>4 DEF Asked
  <2>2. t \in Turns
    BY <1>1, <1>4, TurnTyped
  <2> HIDE DEF t
  <2> QED BY <2>1, <2>2, <1>1, <1>2, <1>3, RefusalTyped
<1>5. CASE ~(/\ ctx[visit].status = "ready" /\ running[visit].mode = "none"
             /\ mode = "regenerate" => Len(ctx[visit].display) > 1)
  <2>1. answer' = Refusal /\ UNCHANGED running
    BY <1>5 DEF Asked
  <2> QED BY <2>1, <1>1, <1>2, <1>3, RefusalTyped
<1> QED BY <1>4, <1>5

\* Leaving the view.
LEMMA TypedUnmount ==
  ASSUME Typed, Unmount
  PROVE  Typed'
<1>1. <<>> \in Seq(Bubbles)
  OBVIOUS
<1> QED BY <1>1, RefusalTyped DEF Typed, Unmount, Over, serverVars

\* Steps of the page keep the types.
LEMMA TypedClient ==
  ASSUME Typed, Client
  PROVE  Typed'
<1>1. CASE Open
  <2>1. visit + 1 \in Visits /\ visit + 1 \in 0..MaxVisits
    BY <1>1, BoundsAssumption DEF Typed, Open, Visits
  <2>2. <<>> \in Seq(Bubbles)
    OBVIOUS
  <2> QED BY <1>1, <2>1, <2>2, RefusalTyped DEF Typed, Open, serverVars
<1>2. CASE LastArrives
  <2>1. pastLog # <<>> => Numbered(pastLog) \in Seq(Bubbles)
    BY NumberedTold DEF Typed
  <2>2. messages' \in Seq(Bubbles)
    BY <1>2, <2>1 DEF Typed, LastArrives
  <2> QED BY <1>2, <2>2 DEF Typed, LastArrives, serverVars
<1>3. CASE LastFails
  BY <1>3 DEF Typed, LastFails, serverVars
<1>4. CASE SessionKnown
  BY <1>4 DEF Typed, SessionKnown, serverVars
<1>5. CASE EnginePolled
  BY <1>5 DEF Typed, EnginePolled, serverVars
<1>6. CASE SetUpFails
  BY <1>6 DEF Typed, SetUpFails, serverVars
<1>7. CASE Send
  <2>1. "turn" \in Modes /\ Asked("turn")
    BY <1>7 DEF Send, Modes
  <2>2. sends + 1 \in 1..MaxSends
    BY <2>1, BoundsAssumption DEF Typed, Asked
  <2> DEFINE x == sends + 1
  <2>3. messages' = messages \o <<Message("user", x, 0), Message("assistant", Partial, 0)>>
    BY <1>7 DEF Send
  <2>4. messages \in Seq(Bubbles) /\ x \in 1..MaxSends
    BY <2>2 DEF Typed
  <2> HIDE DEF x
  <2>5. messages' \in Seq(Bubbles)
    BY <2>3, <2>4, SendPending
  <2>6. at' \in Nat
    BY <1>7, <2>4 DEF Send, AssistantIdx
  <2> QED BY <1>7, <2>1, <2>5, <2>6, TypedAsked DEF Typed, Send
<1>8. CASE ContinueStory
  <2>1. "continue" \in Modes /\ Asked("continue")
    BY <1>8 DEF ContinueStory, Modes
  <2> QED BY <1>8, <2>1, TypedAsked DEF Typed, ContinueStory
<1>9. CASE RegenerateStory
  <2>1. "regenerate" \in Modes /\ Asked("regenerate")
    BY <1>9 DEF RegenerateStory, Modes
  <2> QED BY <1>9, <2>1, TypedAsked DEF Typed, RegenerateStory
<1>10. CASE TokenArrives
  <2> DEFINE b == IF at <= Len(messages) THEN [messages[at] EXCEPT !.text = Partial]
                  ELSE Message("hole", Partial, 0)
  <2>1. messages' = Put(messages, at, b)
    BY <1>10 DEF TokenArrives
  <2>2. CASE at \in 1..Len(messages) \/ at > Len(messages)
    <3>1. b \in Bubbles
      <4>1. CASE at > Len(messages)
        BY <4>1, BoundsAssumption DEF Typed, Message, Bubbles, Partial
      <4>2. CASE at \in 1..Len(messages)
        <5>1. messages[at] \in Bubbles /\ at <= Len(messages)
          BY <4>2 DEF Typed
        <5> QED BY <5>1, BoundsAssumption DEF Bubbles, Partial
      <4> QED BY <2>2, <4>1, <4>2
    <3> HIDE DEF b
    <3>2. messages' \in Seq(Bubbles)
      BY <2>1, <3>1, PutTyped DEF Typed
    <3> QED BY <1>10, <3>2 DEF Typed, TokenArrives, serverVars
  <2>3. CASE at = 0
    <3>1. Put(messages, at, b) = messages
      <4>1. messages \in Seq(Bubbles) /\ Len(messages) \in Nat
        BY DEF Typed
      <4>2. Put(messages, at, b) = [k \in 1..Len(messages) |-> messages[k]]
        BY <2>3, <4>1 DEF Put
      <4> QED BY <4>1, <4>2
    <3> QED BY <1>10, <2>1, <3>1 DEF TokenArrives
  <2>4. at \in Nat /\ Len(messages) \in Nat
    BY DEF Typed
  <2> QED BY <2>2, <2>3, <2>4
<1>11. CASE Answered
  <2>1. doing \in Modes /\ messages' = Show(answer) /\ Over
    BY <1>11 DEF Typed, Answered
  <2>2. messages' \in Seq(Bubbles)
    BY <2>1, ShowTyped DEF Typed
  <2> QED BY <1>11, <2>1, <2>2, RefusalTyped DEF Typed, Answered, Over, serverVars
<1>12. CASE Refused
  <2>1. doing \in Modes /\ messages' = Failed /\ Over
    BY <1>12 DEF Typed, Refused
  <2>2. messages' \in Seq(Bubbles)
    BY <2>1, FailedTyped DEF Typed
  <2> QED BY <1>12, <2>1, <2>2, RefusalTyped DEF Typed, Refused, Over, serverVars
<1>13. CASE CutOff
  <2>1. doing \in Modes /\ (messages' = Failed \/ messages' = messages) /\ Over
    BY <1>13 DEF Typed, CutOff
  <2>2. messages' \in Seq(Bubbles)
    BY <2>1, FailedTyped DEF Typed
  <2> QED BY <1>13, <2>1, <2>2, RefusalTyped DEF Typed, CutOff, Over, serverVars
<1>14. CASE Back
  <2>1. CASE Unmount
    BY <2>1, TypedUnmount
  <2>2. CASE ~Unmount
    BY <1>14, <2>2 DEF Typed, Back, serverVars
  <2> QED BY <2>1, <2>2
<1>15. CASE Left
  BY <1>15, TypedUnmount DEF Left
<1>16. CASE TabCloses
  BY <1>16, TypedUnmount DEF TabCloses
<1> QED BY <1>1, <1>2, <1>3, <1>4, <1>5, <1>6, <1>7, <1>8, <1>9, <1>10, <1>11, <1>12, <1>13,
           <1>14, <1>15, <1>16 DEF Client

\* Steps of the backend keep the types.
LEMMA TypedServer ==
  ASSUME Typed, Server
  PROVE  Typed'
<1>1. CASE LastRead
  BY <1>1, LastTyped DEF Typed, LastRead, serverVars
<1>2. CASE CreateSession
  <2> DEFINE s == [status |-> "initializing", display |-> IF preview THEN Fresh ELSE LastEngine]
  <2>1. s \in Sessions
    BY LastTyped, NothingTold DEF Typed, Sessions
  <2>2. ctx' = [ctx EXCEPT ![visit] = s]
    BY <1>2 DEF CreateSession
  <2> HIDE DEF s
  <2> QED BY <1>2, <2>1, <2>2 DEF Typed, CreateSession, clientVars
<1>3. CASE EndSession
  <2>1. visit \in Visits /\ ctx[visit] \in Sessions
    BY <1>3 DEF Typed, EndSession
  <2>2. ctx[visit].status = "ready" => ctx[visit].display \in Histories
    BY <2>1 DEF Sessions, NoSession
  <2>3. rows' \in Seq(Rows)
    BY <1>3, <2>1, <2>2, RowTyped, UpsertedRows DEF Typed, EndSession
  <2>4. NoSession \in Sessions
    BY DEF Sessions
  <2> QED BY <1>3, <2>3, <2>4 DEF Typed, EndSession
<1>4. ASSUME NEW v \in Visits, NEW status \in {"ready", "error"}, EngineInit(v, status)
      PROVE  Typed'
  <2>1. ctx' \in [Visits -> Sessions]
    BY <1>4, SessionTyped DEF Typed, EngineInit
  <2> QED BY <1>4, <2>1 DEF Typed, EngineInit, clientVars
<1>5. ASSUME NEW v \in Visits, TurnSaved(v)
      PROVE  Typed'
  <2>1. running[v] \in Turns
    BY <1>5 DEF Typed, TurnSaved, NoTurn
  <2> DEFINE d == Played(running[v])
             s == [status |-> "ready", display |-> d]
             row == Row(v, d, FALSE)
  <2>2. d \in Histories
    BY <2>1, PlayedHistory
  <2>3. ctx' = [ctx EXCEPT ![v] = s] /\ rows' = Upserted(row)
    BY <1>5 DEF TurnSaved, Checkpointed
  <2>4. answer' = answer \/ answer' = Bubble(d)
    BY <1>5 DEF TurnSaved
  <2> HIDE DEF d
  <2>5. s \in Sessions /\ row \in Rows
    BY <2>2, RowTyped DEF Sessions
  <2>6. answer' \in Bubbles
    BY <2>2, <2>4, BubbleOf DEF Typed
  <2> HIDE DEF s, row
  <2>7. rows' \in Seq(Rows) /\ ctx' \in [Visits -> Sessions]
    BY <2>3, <2>5, UpsertedRows DEF Typed
  <2> QED BY <1>5, <2>6, <2>7 DEF Typed, TurnSaved
<1>6. ASSUME NEW v \in Visits, TurnFails(v)
      PROVE  Typed'
  <2>1. answer' \in Bubbles
    BY <1>6, RefusalTyped DEF Typed, TurnFails
  <2> QED BY <1>6, <2>1 DEF Typed, TurnFails
<1> QED BY <1>1, <1>2, <1>3, <1>4, <1>5, <1>6 DEF Server

-----------------------------------------------------------------------------
(* The invariant.                                                          *)

\* What the session of this visit holds, or will.
Held == IF ctx[visit].status # "none" THEN ctx[visit].display
        ELSE IF preview THEN Fresh ELSE LastEngine

\* Unless it was ended, and a turn given up may have been saved since.
Grounded ==
  \/ ctx[visit].status # "none" \/ engine = "asked"
  \/ excuse = {} /\ ~preview /\ engine = "ready"

Clean == page = "open" /\ excuse \subseteq {"orphan"}

\* What the last history is, or will be when it is read.
Coming == IF past = "asked" THEN LastDisplay ELSE pastLog
Agrees(history, display) ==
  IF history = <<>> THEN display = Fresh ELSE display = history

\* Sessions, turns and rows are of visits so far; the view uses a session when it
\* is ready.
Placed ==
  /\ page = "open" /\ engine # "ready" => doing = "none"
  /\ page = "open" /\ engine = "asked" => leaving = "no"
  /\ page = "open" /\ engine = "ready" => ctx[visit].status \in {"ready", "none"}
  /\ \A v \in Visits : v > visit => ctx[v].status = "none" /\ running[v].mode = "none"
  /\ \A i \in DOMAIN rows : rows[i].visit <= visit

\* The turn that is asked for runs until it is answered.
Matched ==
  Clean => IF doing = "none" \/ answer # Nothing THEN running[visit].mode = "none"
           ELSE running[visit].mode = doing

\* Before the last history arrived.
Awaited ==
  Clean /\ past # "settled" =>
    /\ messages = <<>> /\ doing = "none" /\ Grounded => Agrees(Coming, Held)
    /\ doing = "turn" => Len(messages) >= 2
    /\ doing = "regenerate" => messages # <<>>

\* Nothing in flight.
Seen ==
  Clean /\ past = "settled" /\ doing = "none" /\ Grounded
    => Told(messages, Held) /\ Settled(messages)

Waits(t) == Pending(doing, at, messages, t.display) /\ Says(doing, at, messages, t.text)

\* A turn in flight: it runs, is refused, or was saved and is answered.
Sent ==
  Clean /\ past = "settled" /\ doing # "none" =>
    /\ answer = Nothing => /\ Waits(running[visit])
                           /\ Grounded => Held = running[visit].display
    /\ answer = Refusal /\ Grounded => Pending(doing, at, messages, Held)
    /\ answer \notin {Nothing, Refusal} =>
         /\ answer.role = "assistant"
         /\ Grounded => \E t \in Turns : /\ t.mode = doing /\ Waits(t)
                                         /\ Held = Played(t) /\ answer.text = t.text

\* The row that the next visit resumes.
Logged ==
  page = "open" /\ excuse = {} /\ ~preview =>
    /\ ctx[visit].status # "none" => LastEngine = ctx[visit].display
    /\ \A i \in DOMAIN rows : rows[i].visit = visit => i = Len(rows)
    /\ doing # "none" /\ answer = Nothing => LastEngine = running[visit].display

\* The story as it was left.
LeftOff ==
  seen # Unknown /\ ~preview =>
    /\ page = "away" \/ (engine # "ready" /\ leaving # "ended") => Story(LastEngine) = seen
    /\ page = "open" /\ ctx[visit].status = "initializing" => Story(ctx[visit].display) = seen

Inv == Typed /\ Placed /\ Matched /\ Awaited /\ Seen /\ Sent /\ Logged /\ LeftOff

\* What is held is a history.
LEMMA HeldTyped ==
  ASSUME Typed, page = "open"
  PROVE  Held \in Histories /\ visit \in Visits /\ ctx[visit] \in Sessions
BY LastTyped, NothingTold DEF Typed, Held, Sessions, NoSession

\* The invariant holds of the initial states.
LEMMA InvInit ==
  ASSUME Init
  PROVE  Inv
<1>1. Typed
  BY TypedInit
<1>2. page = "away" /\ seen = Unknown /\ rows = <<>>
      /\ \A v \in Visits : ctx[v].status = "none" /\ running[v].mode = "none"
  BY DEF Init, NoSession, NoTurn
<1> QED BY <1>1, <1>2 DEF Inv, Placed, Matched, Awaited, Seen, Sent, Logged, LeftOff, Clean

-----------------------------------------------------------------------------
(* Steps.                                                                  *)

\* Asking for a turn.
LEMMA AskedTurn ==
  ASSUME Typed, Placed, Matched, NEW mode \in Modes, Idle, Asked(mode)
  PROVE  /\ page = "open" /\ engine = "ready" /\ doing' = mode /\ doing' # "none"
         /\ sends + 1 \in 1..MaxSends /\ visit \in Visits
         /\ \A v \in Visits : v # visit => running'[v] = running[v]
         /\ \/ /\ answer' = Nothing /\ ctx[visit].status = "ready"
               /\ running'[visit] \in Turns /\ running'[visit].mode = mode
               /\ running'[visit].text = sends + 1
               /\ running'[visit].display = ctx[visit].display
            \/ answer' = Refusal /\ running' = running
<1>1. /\ visit \in Visits /\ sends \in 0..MaxSends /\ sends < MaxSends /\ ctx[visit] \in Sessions
      /\ running \in [Visits -> Turns \union {NoTurn}] /\ page = "open" /\ engine = "ready"
      /\ doing' = mode
  BY DEF Typed, Asked
<1>2. sends + 1 \in 1..MaxSends /\ mode # "none"
  BY <1>1, BoundsAssumption DEF Modes
<1> DEFINE t == [mode |-> mode, text |-> sends + 1, display |-> ctx[visit].display]
<1>3. CASE /\ ctx[visit].status = "ready" /\ running[visit].mode = "none"
           /\ mode = "regenerate" => Len(ctx[visit].display) > 1
  <2>1. running' = [running EXCEPT ![visit] = t] /\ answer' = Nothing
    BY <1>3 DEF Asked
  <2>2. t \in Turns /\ t.mode = mode /\ t.text = sends + 1 /\ t.display = ctx[visit].display
    BY <1>1, <1>3, TurnTyped
  <2> HIDE DEF t
  <2>3. running'[visit] = t /\ \A v \in Visits : v # visit => running'[v] = running[v]
    BY <2>1, <1>1
  <2> QED BY <2>1, <2>2, <2>3, <1>1, <1>2, <1>3
<1>4. CASE ~(/\ ctx[visit].status = "ready" /\ running[visit].mode = "none"
             /\ mode = "regenerate" => Len(ctx[visit].display) > 1)
  <2>1. answer' = Refusal /\ UNCHANGED running
    BY <1>4 DEF Asked
  <2> QED BY <2>1, <1>1, <1>2
<1> QED BY <1>3, <1>4

\* What an action leaves alone.
Quiet == UNCHANGED <<page, visit, engine, doing, leaving, ctx, running, rows>>

\* Leaving the view uses nothing.
LEMMA PlacedUnmount ==
  ASSUME Placed, Unmount
  PROVE  Placed'
BY DEF Placed, Unmount, serverVars

\* Steps of the page keep sessions, turns and rows in their visits.
LEMMA PlacedClient ==
  ASSUME Typed, Placed, Matched, Client
  PROVE  Placed'
<1>1. CASE LastArrives \/ LastFails \/ TokenArrives
  <2>1. Quiet
    BY <1>1 DEF Quiet, LastArrives, LastFails, TokenArrives, serverVars
  <2> QED BY <2>1 DEF Placed, Quiet
<1>2. CASE Open
  <2>1. page' = "open" /\ engine' = "asked" /\ doing' = "none" /\ leaving' = "no"
        /\ visit' = visit + 1 /\ UNCHANGED <<ctx, running, rows>>
    BY <1>2 DEF Open, serverVars
  <2>2. \A v \in Visits : v > visit + 1 => v > visit
    BY DEF Typed, Visits
  <2>3. \A n \in Visits : n <= visit => n <= visit + 1
    BY DEF Typed, Visits
  <2>8. \A row \in Rows : row.visit \in Visits
    BY DEF Rows
  <2>4. \A i \in DOMAIN rows : rows[i].visit \in Visits
    <3>1. rows \in Seq(Rows)
      BY DEF Typed
    <3>2. \A i \in DOMAIN rows : rows[i] \in Rows
      BY <3>1
    <3> QED BY <3>2, <2>8
  <2>5. \A i \in DOMAIN rows : rows[i].visit <= visit + 1
    BY <2>3, <2>4 DEF Placed
  <2>6. \A v \in Visits : v > visit + 1 => ctx[v].status = "none" /\ running[v].mode = "none"
    BY <2>2 DEF Placed
  <2>7. visit + 1 \in Visits => ctx[visit + 1].status = "none"
    BY DEF Placed, Visits, Typed
  <2> QED BY <2>1, <2>5, <2>6, <2>7 DEF Placed
<1>3. CASE SessionKnown
  BY <1>3 DEF Placed, SessionKnown, serverVars
<1>4. CASE EnginePolled
  BY <1>4 DEF Placed, EnginePolled, serverVars
<1>5. CASE SetUpFails
  BY <1>5 DEF Placed, SetUpFails, serverVars
<1>6. CASE Send \/ ContinueStory \/ RegenerateStory
  <2>1. PICK mode \in Modes : Idle /\ Asked(mode)
    BY <1>6 DEF Send, ContinueStory, RegenerateStory, Modes
  <2>2. page = "open" /\ engine = "ready" /\ visit \in Visits
        /\ \A v \in Visits : v # visit => running'[v] = running[v]
    BY <2>1, AskedTurn
  <2>3. UNCHANGED <<page, visit, engine, leaving, ctx, rows>>
    BY <1>6 DEF Send, ContinueStory, RegenerateStory
  <2>4. \A v \in Visits : v > visit => v # visit
    BY <2>2 DEF Visits
  <2> QED BY <2>2, <2>3, <2>4 DEF Placed
<1>7. CASE Answered \/ Refused \/ CutOff
  <2>1. doing' = "none" /\ UNCHANGED <<page, visit, engine, leaving, ctx, running, rows>>
    BY <1>7 DEF Answered, Refused, CutOff, Over, serverVars
  <2> QED BY <2>1 DEF Placed
<1>8. CASE Back
  <2>1. CASE Unmount
    BY <2>1, PlacedUnmount
  <2>2. CASE ~Unmount
    BY <1>8, <2>2 DEF Placed, Back, serverVars
  <2> QED BY <2>1, <2>2
<1>9. CASE Left \/ TabCloses
  BY <1>9, PlacedUnmount DEF Left, TabCloses
<1> QED BY <1>1, <1>2, <1>3, <1>4, <1>5, <1>6, <1>7, <1>8, <1>9 DEF Client

\* So do steps of the backend.
LEMMA PlacedServer ==
  ASSUME Typed, Placed, Server
  PROVE  Placed'
<1> USE DEF clientVars
<1>1. CASE LastRead
  <2>1. Quiet
    BY <1>1 DEF Quiet, LastRead, serverVars
  <2> QED BY <2>1 DEF Placed, Quiet
<1>2. CASE CreateSession
  <2>1. /\ page = "open" /\ engine = "asked" /\ visit \in Visits
        /\ \A v \in Visits : v # visit => ctx'[v] = ctx[v]
        /\ UNCHANGED <<page, visit, engine, doing, leaving, running, rows>>
    BY <1>2 DEF Typed, CreateSession
  <2>2. \A v \in Visits : v > visit => v # visit
    BY <2>1 DEF Visits
  <2> QED BY <2>1, <2>2 DEF Placed
<1>3. CASE EndSession
  <2>1. /\ page = "open" /\ leaving = "waits" /\ visit \in Visits /\ ctx[visit] \in Sessions
        /\ ctx' = [ctx EXCEPT ![visit] = NoSession]
        /\ UNCHANGED <<page, visit, engine, doing, running>>
    BY <1>3 DEF Typed, EndSession
  <2>2. ctx'[visit].status = "none" /\ \A v \in Visits : v # visit => ctx'[v] = ctx[v]
    BY <2>1 DEF Typed, NoSession
  <2>3. \A v \in Visits : v > visit => v # visit
    BY <2>1 DEF Visits
  <2>4. \A i \in DOMAIN rows' : rows'[i].visit <= visit
    <3>1. \A i \in DOMAIN rows : rows[i].visit <= visit
      BY DEF Placed
    <3>2. visit <= visit /\ visit \in 0..MaxVisits
      BY DEF Typed
    <3>3. ctx[visit].status = "ready" => ctx[visit].display \in Histories
      BY <2>1 DEF Sessions, NoSession
    <3>4. \/ rows' = rows
          \/ rows' = Upserted(Row(visit, ctx[visit].display, FALSE)) /\ ctx[visit].status = "ready"
          \/ rows' = Upserted(Row(visit, <<>>, TRUE))
      BY <1>3 DEF EndSession
    <3>5. ASSUME NEW row \in Rows, row.visit = visit
          PROVE  \A i \in DOMAIN Upserted(row) : Upserted(row)[i].visit <= visit
      BY <3>1, <3>2, <3>5, UpsertedRows DEF Typed
    <3>6. CASE rows' = rows
      BY <3>1, <3>6
    <3>7. CASE /\ rows' = Upserted(Row(visit, ctx[visit].display, FALSE))
               /\ ctx[visit].status = "ready"
      <4> DEFINE row == Row(visit, ctx[visit].display, FALSE)
      <4>1. ctx[visit].display \in Histories
        BY <3>3, <3>7
      <4>2. row \in Rows /\ row.visit = visit
        BY <4>1, <2>1, RowTyped
      <4>3. rows' = Upserted(row)
        BY <3>7
      <4> HIDE DEF row
      <4> QED BY <4>2, <4>3, <3>5
    <3>8. CASE rows' = Upserted(Row(visit, <<>>, TRUE))
      BY <2>1, <3>5, <3>8, RowTyped
    <3> QED BY <3>4, <3>6, <3>7, <3>8
  <2> QED BY <2>1, <2>2, <2>3, <2>4 DEF Placed
<1>4. ASSUME NEW v \in Visits, NEW status \in {"ready", "error"}, EngineInit(v, status)
      PROVE  Placed'
  <2>1. /\ ctx[v].status = "initializing" /\ ctx' = [ctx EXCEPT ![v].status = status]
        /\ UNCHANGED <<page, visit, engine, doing, leaving, running, rows>>
    BY <1>4 DEF EngineInit
  <2>2. \A w \in Visits : w # v => ctx'[w] = ctx[w]
    BY <2>1, SessionTyped DEF Typed
  <2>3. ~(v > visit)
    BY <2>1 DEF Placed
  <2>4. page = "open" /\ engine = "ready" => v # visit
    BY <2>1 DEF Placed
  <2>5. page = "open" => visit \in Visits
    BY DEF Typed
  <2> QED BY <2>1, <2>2, <2>3, <2>4, <2>5 DEF Placed
<1>5. ASSUME NEW v \in Visits, TurnSaved(v)
      PROVE  Placed'
  <2>1. /\ running[v].mode # "none"
        /\ ctx' = [ctx EXCEPT ![v] = [status |-> "ready", display |-> Played(running[v])]]
        /\ running' = [running EXCEPT ![v] = NoTurn]
        /\ rows' = Upserted(Row(v, Played(running[v]), FALSE))
        /\ UNCHANGED <<page, visit, engine, doing, leaving>>
    BY <1>5 DEF TurnSaved, Checkpointed
  <2>2. ~(v > visit) /\ v \in Nat /\ visit \in 0..MaxVisits
    BY <2>1 DEF Placed, Typed, Visits
  <2>3. ctx'[v].status = "ready" /\ \A w \in Visits : w # v => ctx'[w] = ctx[w]
    BY <2>1 DEF Typed
  <2>4. \A w \in Visits : w # v => running'[w] = running[w]
    BY <2>1 DEF Typed
  <2>5. Played(running[v]) \in Histories
    BY <2>1, PlayedHistory DEF Typed, NoTurn
  <2>6. \A i \in DOMAIN rows' : rows'[i].visit <= visit
    <3>1. \A i \in DOMAIN rows : rows[i].visit <= visit
      BY DEF Placed
    <3>2. v <= visit
      BY <2>2
    <3> DEFINE row == Row(v, Played(running[v]), FALSE)
    <3>3. row \in Rows /\ row.visit <= visit
      BY <2>5, <3>2, RowTyped
    <3> HIDE DEF row
    <3>4. \A i \in DOMAIN Upserted(row) : Upserted(row)[i].visit <= visit
      BY <2>2, <3>1, <3>3, UpsertedRows DEF Typed
    <3> QED BY <2>1, <3>4 DEF row
  <2>7. page = "open" => visit \in Visits
    BY DEF Typed
  <2> QED BY <2>1, <2>2, <2>3, <2>4, <2>6, <2>7 DEF Placed
<1>6. ASSUME NEW v \in Visits, TurnFails(v)
      PROVE  Placed'
  <2>1. /\ running' = [running EXCEPT ![v] = NoTurn]
        /\ UNCHANGED <<page, visit, engine, doing, leaving, ctx, rows>>
    BY <1>6 DEF TurnFails
  <2>2. running'[v].mode = "none" /\ \A w \in Visits : w # v => running'[w] = running[w]
    BY <2>1 DEF Typed, NoTurn
  <2> QED BY <2>1, <2>2 DEF Placed
<1> QED BY <1>1, <1>2, <1>3, <1>4, <1>5, <1>6 DEF Server

\* The result of a turn, which is this page's unless it has given it up.
LEMMA TurnEnds ==
  ASSUME Typed, NEW v \in Visits, TurnSaved(v) \/ TurnFails(v)
  PROVE  /\ running'[v].mode = "none" /\ \A w \in Visits : w # v => running'[w] = running[w]
         /\ running[v] \in Turns
         /\ UNCHANGED <<page, visit, doing, at, messages, past, pastLog, engine, leaving, preview>>
         /\ \/ /\ Orphan(v) /\ answer' = answer
            \/ /\ ~Orphan(v) /\ v = visit /\ page = "open" /\ doing # "none"
               /\ excuse' = excuse /\ seen' = seen
               /\ \/ answer' = Refusal
                  \/ answer' = Bubble(Played(running[v])) /\ answer'.role = "assistant"
               /\ answer' # Nothing
<1>1. /\ running[v].mode # "none" /\ running' = [running EXCEPT ![v] = NoTurn]
      /\ running \in [Visits -> Turns \union {NoTurn}]
      /\ UNCHANGED <<page, visit, doing, at, messages, past, pastLog, engine, leaving, preview>>
  BY DEF Typed, TurnSaved, TurnFails
<1>2. running[v] \in Turns
  BY <1>1 DEF NoTurn
<1>3. running'[v].mode = "none" /\ \A w \in Visits : w # v => running'[w] = running[w]
  BY <1>1 DEF NoTurn
<1>4. Played(running[v]) \in Histories
  BY <1>2, PlayedHistory
<1>5. CASE Orphan(v)
  BY <1>1, <1>2, <1>3, <1>5 DEF TurnSaved, TurnFails
<1>6. CASE ~Orphan(v)
  <2>1. v = visit /\ page = "open" /\ doing # "none"
    BY <1>6 DEF Orphan, Typed
  <2>2. CASE TurnSaved(v)
    <3>1. answer' = Bubble(Played(running[v])) /\ UNCHANGED <<seen, excuse>>
      BY <1>6, <2>2 DEF TurnSaved
    <3>2. answer'.role = "assistant" /\ answer' # Nothing
      BY <3>1, <1>4, BubbleOf, RefusalTyped
    <3> QED BY <1>1, <1>2, <1>3, <1>6, <2>1, <3>1, <3>2
  <2>3. CASE TurnFails(v)
    <3>1. answer' = Refusal /\ UNCHANGED <<seen, excuse>>
      BY <1>6, <2>3 DEF TurnFails
    <3> QED BY <1>1, <1>2, <1>3, <1>6, <2>1, <3>1, RefusalTyped
  <2> QED BY <2>2, <2>3
<1> QED BY <1>5, <1>6

\* A step leaves the turn that is asked for running until it is answered.
LEMMA MatchedStep ==
  ASSUME Typed, Typed', Placed, Matched, Next
  PROVE  Matched'
<1> SUFFICES ASSUME Clean'
             PROVE  IF doing' = "none" \/ answer' # Nothing THEN running'[visit'].mode = "none"
                    ELSE running'[visit'].mode = doing'
  BY DEF Matched
<1>1. page' = "open" /\ excuse' \subseteq {"orphan"} /\ visit' \in Visits
  BY DEF Clean, Typed
<1>2. ~Unmount
  BY <1>1 DEF Unmount
<1>3. CASE Open
  <2>1. doing' = "none" /\ visit' = visit + 1 /\ running' = running
    BY <1>3 DEF Open, serverVars
  <2>2. visit' > visit
    BY <2>1 DEF Typed
  <2> QED BY <1>1, <2>1, <2>2 DEF Placed
<1>4. CASE UNCHANGED <<page, visit, doing, answer, running>> /\ excuse \subseteq excuse'
  BY <1>1, <1>4 DEF Matched, Clean
<1>5. LastArrives \/ LastFails \/ TokenArrives \/ SessionKnown \/ EnginePolled \/ SetUpFails
        => UNCHANGED <<page, visit, doing, answer, running>> /\ excuse \subseteq excuse'
  BY DEF LastArrives, LastFails, TokenArrives, SessionKnown, EnginePolled, SetUpFails, serverVars
<1>6. LastRead \/ CreateSession \/ EndSession \/ Back
        => UNCHANGED <<page, visit, doing, answer, running>> /\ excuse \subseteq excuse'
  BY <1>2 DEF LastRead, CreateSession, EndSession, Back, serverVars, clientVars
<1>7. \A v \in Visits : \A status \in {"ready", "error"} : EngineInit(v, status)
        => UNCHANGED <<page, visit, doing, answer, running>> /\ excuse \subseteq excuse'
  BY DEF EngineInit, clientVars
<1>8. CASE Send \/ ContinueStory \/ RegenerateStory
  <2>1. PICK mode \in Modes : Idle /\ Asked(mode)
    BY <1>8 DEF Send, ContinueStory, RegenerateStory, Modes
  <2>2. UNCHANGED <<page, visit, excuse>>
    BY <1>8 DEF Send, ContinueStory, RegenerateStory
  <2>3. Clean /\ running[visit].mode = "none"
    BY <2>1, <2>2, <1>1 DEF Clean, Idle, Matched
  <2> QED BY <2>1, <2>2, <2>3, AskedTurn, RefusalTyped
<1>9. CASE Answered \/ Refused
  <2>1. /\ doing # "none" /\ answer # Nothing /\ doing' = "none"
        /\ UNCHANGED <<page, visit, excuse, running>>
    BY <1>9, RefusalTyped DEF Answered, Refused, Over, serverVars
  <2> QED BY <1>1, <2>1 DEF Matched, Clean
<1>10. ~CutOff
  BY <1>1 DEF CutOff
<1>11. ASSUME NEW v \in Visits, TurnSaved(v) \/ TurnFails(v)
       PROVE  IF doing' = "none" \/ answer' # Nothing THEN running'[visit'].mode = "none"
              ELSE running'[visit'].mode = doing'
  <2>1. excuse \subseteq excuse'
    BY <1>11 DEF TurnSaved, TurnFails
  <2>2. CASE v = visit
    BY <1>1, <1>11, <2>2, TurnEnds DEF Orphan
  <2>3. CASE v # visit
    <3>1. UNCHANGED <<page, visit, doing, answer>> /\ running'[visit] = running[visit]
      BY <1>1, <1>11, <2>3, TurnEnds
    <3> QED BY <3>1, <2>1, <1>1 DEF Matched, Clean
  <2> QED BY <2>2, <2>3
<1>12. CASE Client
  BY <1>2, <1>3, <1>4, <1>5, <1>6, <1>8, <1>9, <1>10, <1>12 DEF Client, Left, TabCloses
<1>13. CASE Server
  BY <1>4, <1>6, <1>7, <1>11, <1>13 DEF Server
<1> QED BY <1>12, <1>13 DEF Next

\* A row that is written, and is the last, is what the next visit resumes.
LEMMA WrittenRow ==
  ASSUME Typed, ~preview, NEW row \in Rows, rows' = Upserted(row),
         \A i \in DOMAIN rows : rows[i].visit = row.visit => i = Len(rows)
  PROVE  /\ ~row.void => LastEngine' = row.display
         /\ \A i \in DOMAIN rows' : rows'[i].visit = row.visit => i = Len(rows')
<1>1. rows' # <<>> /\ Last(rows') = row
      /\ \A i \in DOMAIN rows' : rows'[i].visit = row.visit => i = Len(rows')
  BY UpsertedRows DEF Typed
<1> QED BY <1>1 DEF LastEngine

\* Ending a session that the page uses leaves what is resumed.
LEMMA EndedRow ==
  ASSUME Typed, Placed, Logged, EndSession, excuse = {}, ~preview, engine = "ready"
  PROVE  /\ LastEngine' = Held
         /\ \A i \in DOMAIN rows' : rows'[i].visit = visit => i = Len(rows')
<1>1. visit \in Visits /\ ctx[visit] \in Sessions /\ ctx[visit].status \in {"ready", "none"}
      /\ page = "open"
  BY DEF Typed, Placed, EndSession
<1>2. \A i \in DOMAIN rows : rows[i].visit = visit => i = Len(rows)
  BY <1>1 DEF Logged
<1>3. CASE ctx[visit].status = "none"
  BY <1>2, <1>3 DEF EndSession, Held, LastEngine
<1>4. CASE ctx[visit].status = "ready"
  <2> DEFINE row == Row(visit, ctx[visit].display, FALSE)
  <2>1. ctx[visit].display \in Histories
    BY <1>1, <1>4 DEF Sessions, NoSession
  <2>2. row \in Rows /\ row.visit = visit /\ row.display = ctx[visit].display /\ ~row.void
    BY <1>1, <2>1, RowTyped
  <2>3. rows' = Upserted(row)
    BY <1>4 DEF EndSession
  <2> HIDE DEF row
  <2>4. LastEngine' = row.display
        /\ \A i \in DOMAIN rows' : rows'[i].visit = row.visit => i = Len(rows')
    BY <1>2, <2>2, <2>3, WrittenRow
  <2> QED BY <1>4, <2>2, <2>4 DEF Held
<1> QED BY <1>1, <1>3, <1>4

\* What the session holds changes by its own turns only.
LEMMA GroundStep ==
  ASSUME Typed, Typed', Placed, Matched, Logged, Next, Clean', ~Open,
         ~(doing # "none" /\ TurnSaved(visit))
  PROVE  Clean /\ (Grounded' => Grounded /\ Held' = Held)
<1>1. page' = "open" /\ excuse' \subseteq {"orphan"} /\ visit' \in Visits
  BY DEF Clean, Typed
<1>2. ~Unmount /\ ~CutOff /\ ~LastFails
  BY <1>1 DEF Unmount, CutOff, LastFails
<1>3. CASE /\ UNCHANGED <<preview, page, visit, engine, ctx, rows>> /\ excuse \subseteq excuse'
  BY <1>1, <1>3 DEF Clean, Grounded, Held, LastEngine
<1>4. LastArrives \/ TokenArrives \/ LastRead \/ Answered \/ Refused
        => UNCHANGED <<preview, page, visit, engine, ctx, rows>> /\ excuse \subseteq excuse'
  BY DEF LastArrives, TokenArrives, LastRead, Answered, Refused, serverVars
<1>5. Send \/ ContinueStory \/ RegenerateStory \/ Back
        => UNCHANGED <<preview, page, visit, engine, ctx, rows>> /\ excuse \subseteq excuse'
  BY <1>2 DEF Send, ContinueStory, RegenerateStory, Back, serverVars
<1>6. CASE SessionKnown \/ EnginePolled \/ SetUpFails
  <2>1. /\ UNCHANGED <<preview, page, visit, ctx, rows, excuse>>
        /\ engine' # "asked" /\ (engine' = "ready" => ctx[visit].status = "ready")
    BY <1>6 DEF SessionKnown, EnginePolled, SetUpFails, serverVars
  <2> QED BY <1>1, <2>1 DEF Clean, Grounded, Held
<1>7. CASE CreateSession
  <2>1. /\ ctx[visit].status = "none" /\ engine = "asked" /\ page = "open"
        /\ ctx' = [ctx EXCEPT ![visit] =
             [status |-> "initializing", display |-> IF preview THEN Fresh ELSE LastEngine]]
        /\ UNCHANGED <<page, visit, excuse>>
    BY <1>7 DEF CreateSession, clientVars
  <2>2. ctx'[visit].status # "none" /\ ctx'[visit].display = IF preview THEN Fresh ELSE LastEngine
    BY <1>1, <2>1 DEF Typed
  <2> QED BY <1>1, <2>1, <2>2 DEF Clean, Grounded, Held
<1>8. CASE EndSession
  <2>1. /\ page = "open" /\ leaving = "waits" /\ ctx' = [ctx EXCEPT ![visit] = NoSession]
        /\ UNCHANGED <<preview, page, visit, engine, excuse>>
    BY <1>8 DEF EndSession
  <2>2. ctx'[visit].status = "none" /\ engine # "asked"
    BY <1>1, <2>1 DEF Typed, NoSession, Placed
  <2>3. ASSUME Grounded' PROVE Grounded /\ Held' = Held
    <3>1. excuse = {} /\ ~preview /\ engine = "ready"
      BY <2>1, <2>2, <2>3 DEF Grounded
    <3>2. LastEngine' = Held
      BY <1>8, <3>1, EndedRow
    <3> QED BY <2>1, <2>2, <3>1, <3>2 DEF Grounded, Held
  <2> QED BY <1>1, <2>1, <2>3 DEF Clean
<1>9. ASSUME NEW v \in Visits, NEW status \in {"ready", "error"}, EngineInit(v, status)
      PROVE  Clean /\ (Grounded' => Grounded /\ Held' = Held)
  <2>1. /\ ctx[v].status = "initializing" /\ ctx' = [ctx EXCEPT ![v].status = status]
        /\ UNCHANGED <<preview, page, visit, engine, rows, excuse>>
    BY <1>9 DEF EngineInit, clientVars
  <2>2. /\ ctx'[v].display = ctx[v].display /\ ctx'[v].status = status
        /\ \A w \in Visits : w # v => ctx'[w] = ctx[w]
    BY <2>1, SessionTyped DEF Typed
  <2> QED BY <1>1, <2>1, <2>2 DEF Clean, Grounded, Held, LastEngine
<1>10. ASSUME NEW v \in Visits, TurnSaved(v)
       PROVE  Clean /\ (Grounded' => Grounded /\ Held' = Held)
  <2>1. /\ ctx' = [ctx EXCEPT ![v] = [status |-> "ready", display |-> Played(running[v])]]
        /\ UNCHANGED <<preview, page, visit, engine>> /\ excuse \subseteq excuse'
    BY <1>10 DEF TurnSaved
  <2>2. Clean
    BY <1>1, <2>1 DEF Clean
  <2>3. v # visit
    BY <1>10, <2>2 DEF Matched, TurnSaved
  <2>4. "orphan" \in excuse' /\ engine # "asked"
    BY <1>1, <1>10, <2>3 DEF TurnSaved, Orphan
  <2>5. ctx'[visit] = ctx[visit]
    BY <1>1, <2>1, <2>3 DEF Typed
  <2> QED BY <2>1, <2>2, <2>4, <2>5 DEF Grounded, Held
<1>11. ASSUME NEW v \in Visits, TurnFails(v)
       PROVE  Clean /\ (Grounded' => Grounded /\ Held' = Held)
  <2>1. UNCHANGED <<preview, page, visit, engine, ctx, rows>> /\ excuse \subseteq excuse'
    BY <1>11 DEF TurnFails
  <2> QED BY <2>1, <1>3
<1>12. CASE Client
  BY <1>2, <1>3, <1>4, <1>5, <1>6, <1>12 DEF Client, Left, TabCloses
<1>13. CASE Server
  BY <1>3, <1>4, <1>7, <1>8, <1>9, <1>10, <1>11, <1>13 DEF Server
<1> QED BY <1>12, <1>13 DEF Next

\* What is read to be shown is what is read to be resumed.
LEMMA LastAgrees ==
  ASSUME rows' \in Seq(Rows)
  PROVE  Agrees(LastDisplay', LastEngine')
<1>1. \A d \in Histories : d # <<>>
  BY DEF Histories, Display
<1>2. CASE rows' = <<>>
  BY <1>2 DEF LastDisplay, LastEngine, Agrees
<1>3. CASE rows' # <<>>
  <2>1. Last(rows') \in Rows
    BY <1>3 DEF Last
  <2> QED BY <2>1, <1>1, <1>3 DEF LastDisplay, LastEngine, Agrees, Rows
<1> QED BY <1>2, <1>3

\* While the last history is on its way, what it will be is what will be held: both
\* are read of the last row, which the page's own session writes alone.
LEMMA AwaitedStep ==
  ASSUME Typed, Typed', Placed, Matched, Logged, Awaited, Next
  PROVE  Awaited'
<1> SUFFICES ASSUME Clean', past' # "settled"
             PROVE  /\ messages' = <<>> /\ doing' = "none" /\ Grounded' => Agrees(Coming', Held')
                    /\ doing' = "turn" => Len(messages') >= 2
                    /\ doing' = "regenerate" => messages' # <<>>
  BY DEF Awaited
<1>1. page' = "open" /\ excuse' \subseteq {"orphan"} /\ visit' \in Visits
  BY DEF Clean, Typed
<1>2. ~Unmount /\ ~CutOff /\ ~LastFails /\ ~LastArrives
  BY <1>1 DEF Unmount, CutOff, LastFails, LastArrives
<1>3. Agrees(LastDisplay', LastEngine')
  BY LastAgrees DEF Typed
<1>4. CASE Open
  <2>1. /\ doing' = "none" /\ visit' = visit + 1 /\ past' = "asked" /\ ~preview
        /\ UNCHANGED <<preview, ctx, rows>>
    BY <1>4 DEF Open, serverVars
  <2>2. visit' > visit
    BY <2>1 DEF Typed
  <2>3. ctx'[visit'].status = "none"
    BY <1>1, <2>1, <2>2 DEF Placed
  <2>4. Held' = LastEngine' /\ Coming' = LastDisplay'
    BY <2>1, <2>3 DEF Held, Coming
  <2> QED BY <2>1, <2>4, <1>3
<1>5. CASE ~Open
  <2>1. past # "settled"
    BY <1>2, <1>5 DEF Next, Client, Server, LastRead, CreateSession, SessionKnown, EngineInit,
       EnginePolled, SetUpFails, TurnSaved, TurnFails, EndSession, Send, ContinueStory,
       RegenerateStory, TokenArrives, Answered, Refused, Back, Left, TabCloses, clientVars
  <2>2. Clean /\ (doing = "none" /\ Grounded' => Grounded /\ Held' = Held)
    <3>1. TurnSaved(visit) => Clean
      BY <1>1 DEF TurnSaved, Clean
    <3> QED BY <3>1, <1>5, GroundStep
  <2>3. ASSUME UNCHANGED <<messages, doing>>
        PROVE  /\ messages' = <<>> /\ doing' = "none" /\ Grounded' => Agrees(Coming', Held')
               /\ doing' = "turn" => Len(messages') >= 2
               /\ doing' = "regenerate" => messages' # <<>>
    <3>1. /\ doing = "turn" => Len(messages) >= 2
          /\ doing = "regenerate" => messages # <<>>
      BY <2>1, <2>2 DEF Awaited
    <3>2. ASSUME messages' = <<>>, doing' = "none", Grounded'
          PROVE  Agrees(Coming', Held')
      <4>1. Agrees(Coming, Held) /\ Held' = Held
        BY <2>1, <2>2, <2>3, <3>2 DEF Awaited
      <4>2. CASE LastRead
        BY <4>1, <4>2 DEF LastRead, Coming
      <4>3. CASE EndSession
        <5>1. /\ page = "open" /\ leaving = "waits" /\ ctx' = [ctx EXCEPT ![visit] = NoSession]
              /\ UNCHANGED <<visit, engine, past, pastLog, preview>>
          BY <4>3 DEF EndSession
        <5>2. engine # "asked" /\ ctx'[visit].status = "none"
          BY <5>1, <1>1 DEF Placed, Typed, NoSession
        <5>3. ~preview
          BY <3>2, <5>1, <5>2 DEF Grounded
        <5>4. Held' = LastEngine'
          BY <5>1, <5>2, <5>3 DEF Held
        <5>5. CASE past = "asked"
          BY <5>1, <5>4, <5>5, <1>3 DEF Coming
        <5>6. CASE past # "asked"
          BY <5>1, <5>6, <4>1 DEF Coming
        <5> QED BY <5>5, <5>6
      <4>4. CASE UNCHANGED <<past, pastLog>> /\ (past = "asked" => rows' = rows)
        BY <4>1, <4>4 DEF Coming, LastDisplay
      <4>5. ASSUME NEW v \in Visits, TurnSaved(v)
            PROVE  UNCHANGED <<past, pastLog>> /\ past # "asked"
        <5>1. UNCHANGED <<past, pastLog, page, visit>>
          BY <4>5 DEF TurnSaved
        <5>2. v # visit
          BY <4>5, <2>2, <2>3, <3>2 DEF Matched, TurnSaved
        <5> QED BY <4>5, <5>1, <5>2, <1>1 DEF TurnSaved, Orphan
      <4>6. CASE Client
        <5>1. UNCHANGED <<past, pastLog, rows>>
          BY <4>6, <1>2, <1>5 DEF Client, SessionKnown, EnginePolled, SetUpFails, Send,
             ContinueStory, RegenerateStory, TokenArrives, Answered, Refused, Back, Left,
             TabCloses, serverVars
        <5> QED BY <5>1, <4>4
      <4>7. CASE Server
        <5>1. CreateSession => UNCHANGED <<past, pastLog, rows>>
          BY DEF CreateSession, clientVars
        <5>2. \A v \in Visits : \A status \in {"ready", "error"} :
                EngineInit(v, status) => UNCHANGED <<past, pastLog, rows>>
          BY DEF EngineInit, clientVars
        <5>3. \A v \in Visits : TurnFails(v) => UNCHANGED <<past, pastLog, rows>>
          BY DEF TurnFails
        <5> QED BY <4>2, <4>3, <4>4, <4>5, <4>7, <5>1, <5>2, <5>3 DEF Server
      <4> QED BY <4>6, <4>7 DEF Next
    <3> QED BY <2>3, <3>1, <3>2
  <2>4. CASE Send
    <3>1. Idle /\ Asked("turn") /\ "turn" \in Modes
      BY <2>4 DEF Send, Modes
    <3>2. doing' = "turn" /\ sends + 1 \in 1..MaxSends
      BY <3>1, AskedTurn
    <3> DEFINE x == sends + 1
    <3>3. messages' = messages \o <<Message("user", x, 0), Message("assistant", Partial, 0)>>
      BY <2>4 DEF Send
    <3>4. messages \in Seq(Bubbles) /\ x \in 1..MaxSends
      BY <3>2 DEF Typed
    <3> HIDE DEF x
    <3>5. Len(messages') = Len(messages) + 2 /\ Len(messages) \in Nat
      BY <3>3, <3>4, SendPending
    <3> QED BY <3>2, <3>5
  <2>5. CASE ContinueStory
    <3>1. doing' = "continue"
      BY <2>5 DEF ContinueStory, Asked
    <3> QED BY <3>1
  <2>6. CASE RegenerateStory
    <3>1. doing' = "regenerate" /\ messages' = messages /\ messages # <<>>
      BY <2>6 DEF RegenerateStory, Asked
    <3> QED BY <3>1
  <2>7. CASE TokenArrives
    <3>1. doing' = "turn" /\ doing = "turn" /\ Len(messages) >= 2 /\ Len(messages) \in Nat
      BY <2>7, <2>1, <2>2 DEF TokenArrives, Awaited, Typed
    <3>2. /\ messages' = Put(messages, at, IF at <= Len(messages)
                                             THEN [messages[at] EXCEPT !.text = Partial]
                                             ELSE Message("hole", Partial, 0))
          /\ messages \in Seq(Bubbles) /\ at \in Nat
      BY <2>7 DEF TokenArrives, Typed
    <3>3. Len(messages') >= Len(messages)
      BY <3>2, PutLonger
    <3>4. Len(messages') \in Nat
      BY DEF Typed
    <3> QED BY <3>1, <3>3, <3>4
  <2>8. CASE Answered
    <3>1. doing \in Modes /\ doing' = "none" /\ messages' = Show(answer)
      BY <2>8 DEF Answered, Over, Typed
    <3>2. Show(answer) # <<>>
      BY <2>1, <2>2, <3>1, ShowTyped DEF Awaited, Typed, Modes
    <3> QED BY <3>1, <3>2
  <2>9. CASE Refused
    <3>1. doing \in Modes /\ doing' = "none" /\ messages' = Failed
      BY <2>9 DEF Refused, Over, Typed
    <3>2. Failed # <<>>
      BY <2>1, <2>2, <3>1, FailedTyped DEF Awaited, Typed
    <3> QED BY <3>1, <3>2
  <2>10. CASE SessionKnown \/ EnginePolled \/ SetUpFails \/ Back
    <3>1. UNCHANGED <<messages, doing>>
      BY <2>10, <1>2 DEF SessionKnown, EnginePolled, SetUpFails, Back
    <3> QED BY <3>1, <2>3
  <2>11. CASE Server
    <3>1. UNCHANGED <<messages, doing>>
      BY <2>11 DEF Server, LastRead, CreateSession, EndSession, EngineInit, TurnSaved, TurnFails,
         clientVars
    <3> QED BY <3>1, <2>3
  <2> QED BY <1>2, <1>5, <2>4, <2>5, <2>6, <2>7, <2>8, <2>9, <2>10, <2>11
          DEF Next, Client, Left, TabCloses
<1> QED BY <1>4, <1>5

\* Nothing in flight after a step: the bubbles tell what is held.
LEMMA SeenStep ==
  ASSUME Typed, Typed', Placed, Matched, Logged, Awaited, Seen, Sent, Next
  PROVE  Seen'
<1> SUFFICES ASSUME Clean', past' = "settled", doing' = "none", Grounded'
             PROVE  Told(messages', Held') /\ Settled(messages')
  BY DEF Seen
<1>1. page' = "open" /\ excuse' \subseteq {"orphan"} /\ visit' \in Visits
  BY DEF Clean, Typed
<1>2. ~Unmount /\ ~CutOff /\ ~LastFails /\ ~TokenArrives
  BY <1>1 DEF Unmount, CutOff, LastFails, TokenArrives
<1>3. ~Send /\ ~ContinueStory /\ ~RegenerateStory
  BY DEF Send, ContinueStory, RegenerateStory, Asked
<1>4. CASE Open
  <2>1. /\ messages' = <<>> /\ visit' = visit + 1 /\ preview
        /\ UNCHANGED <<preview, ctx, rows>>
    BY <1>4 DEF Open, serverVars
  <2>2. visit' > visit
    BY <2>1 DEF Typed
  <2>3. ctx'[visit'].status = "none"
    BY <1>1, <2>1, <2>2 DEF Placed
  <2>4. Held' = Fresh
    BY <2>1, <2>3 DEF Held
  <2> QED BY <2>1, <2>4, NothingTold
<1>5. CASE ~Open
  <2>1. ~(doing # "none" /\ TurnSaved(visit))
    BY DEF TurnSaved
  <2>2. Clean /\ Grounded /\ Held' = Held
    BY <2>1, <1>5, GroundStep
  <2>3. page = "open" /\ Held \in Histories
    BY <2>2, HeldTyped DEF Clean
  <2>4. CASE LastArrives
    <3>1. messages = <<>> /\ doing = "none" /\ past = "read"
      BY <2>4, <1>1 DEF LastArrives
    <3>2. Agrees(pastLog, Held)
      BY <2>2, <3>1 DEF Awaited, Coming
    <3>3. messages' = IF pastLog = <<>> THEN messages ELSE Numbered(pastLog)
      BY <2>4 DEF LastArrives
    <3>4. CASE pastLog = <<>>
      BY <2>2, <3>1, <3>2, <3>3, <3>4, NothingTold DEF Agrees
    <3>5. CASE pastLog # <<>>
      BY <2>2, <2>3, <3>2, <3>3, <3>5, NumberedTold DEF Agrees
    <3> QED BY <3>4, <3>5
  <2>5. CASE Answered
    <3>1. /\ past = "settled" /\ doing # "none" /\ answer \notin {Nothing, Refusal}
          /\ messages' = Show(answer)
      BY <2>5 DEF Answered
    <3>2. PICK t \in Turns : /\ t.mode = doing /\ Waits(t)
                             /\ Held = Played(t) /\ answer.text = t.text
      BY <2>2, <3>1 DEF Sent
    <3>3. answer.role = "assistant"
      BY <2>2, <3>1 DEF Sent
    <3>4. Told(Show(answer), Played(t)) /\ Settled(Show(answer))
      BY <3>2, <3>3, ShowTold DEF Waits, Typed
    <3> QED BY <2>2, <3>1, <3>2, <3>4
  <2>6. CASE Refused
    <3>1. past = "settled" /\ doing \in Modes /\ answer = Refusal /\ messages' = Failed
      BY <2>6 DEF Refused, Typed
    <3>2. Pending(doing, at, messages, Held)
      BY <2>2, <3>1 DEF Sent, Modes
    <3>3. Told(Failed, Held) /\ Settled(Failed)
      BY <2>3, <3>1, <3>2, FailedTold DEF Typed
    <3> QED BY <2>2, <3>1, <3>3
  <2>7. CASE UNCHANGED <<messages, doing, past>>
    BY <2>2, <2>7 DEF Seen
  <2>8. SessionKnown \/ EnginePolled \/ SetUpFails \/ Back => UNCHANGED <<messages, doing, past>>
    BY <1>2 DEF SessionKnown, EnginePolled, SetUpFails, Back
  <2>9. Server => UNCHANGED <<messages, doing, past>>
    BY DEF Server, LastRead, CreateSession, EndSession, EngineInit, TurnSaved, TurnFails, clientVars
  <2> QED BY <1>2, <1>3, <1>5, <2>4, <2>5, <2>6, <2>7, <2>8, <2>9
          DEF Next, Client, Left, TabCloses
<1> QED BY <1>4, <1>5

\* A turn that is asked for.
LEMMA SentAsked ==
  ASSUME Typed, Typed', Placed, Matched, Logged, Seen, Send \/ ContinueStory \/ RegenerateStory,
         Clean', past' = "settled", Clean /\ (Grounded' => Grounded /\ Held' = Held)
  PROVE  /\ answer' = Nothing => /\ Waits(running[visit])'
                                 /\ Grounded' => Held' = running'[visit'].display
         /\ answer' = Refusal /\ Grounded' => Pending(doing', at', messages', Held')
         /\ answer' \in {Nothing, Refusal}
<1>1. PICK mode \in Modes :
        /\ Idle /\ Asked(mode) /\ past = "settled" /\ UNCHANGED <<visit, ctx, page>>
        /\ mode = "turn" =>
             /\ messages' = messages \o <<Message("user", sends + 1, 0),
                                          Message("assistant", Partial, 0)>>
             /\ at' = Len(messages) + 2
        /\ mode # "turn" => messages' = messages
        /\ mode = "regenerate" => messages # <<>> /\ messages[Len(messages)].role = "assistant"
  <2>1. "turn" \in Modes /\ "continue" \in Modes /\ "regenerate" \in Modes
    BY DEF Modes
  <2>2. CASE Send
    BY <2>1, <2>2 DEF Send, AssistantIdx
  <2>3. CASE ContinueStory
    BY <2>1, <2>3 DEF ContinueStory
  <2>4. CASE RegenerateStory
    BY <2>1, <2>4 DEF RegenerateStory, Last
  <2> QED BY <2>2, <2>3, <2>4
<1>2. /\ doing' = mode /\ sends + 1 \in 1..MaxSends /\ visit \in Visits
      /\ \/ /\ answer' = Nothing /\ ctx[visit].status = "ready"
            /\ running'[visit].text = sends + 1
            /\ running'[visit].display = ctx[visit].display
         \/ answer' = Refusal
  BY <1>1, AskedTurn
<1>3. Grounded => Told(messages, Held) /\ Settled(messages)
  BY <1>1 DEF Seen, Idle
<1>4. ASSUME NEW d, Told(messages, d), Settled(messages)
      PROVE  Pending(doing', at', messages', d)
  <2>1. CASE mode = "turn"
    <3> DEFINE x == sends + 1
    <3>1. messages' = messages \o <<Message("user", x, 0), Message("assistant", Partial, 0)>>
      BY <1>1, <2>1
    <3>2. x \in 1..MaxSends /\ messages \in Seq(Bubbles)
      BY <1>2 DEF Typed
    <3> HIDE DEF x
    <3>3. Pending("turn", Len(messages) + 2, messages', d)
      BY <3>1, <3>2, <1>4, SendPending
    <3> QED BY <3>3, <1>1, <1>2, <2>1
  <2>2. CASE mode # "turn"
    BY <1>1, <1>2, <1>4, <2>2 DEF Pending, Modes
  <2> QED BY <2>1, <2>2
<1>5. Says(doing', at', messages', sends + 1)
  <2>1. CASE mode = "turn"
    <3> DEFINE x == sends + 1
    <3>1. messages' = messages \o <<Message("user", x, 0), Message("assistant", Partial, 0)>>
      BY <1>1, <2>1
    <3>2. x \in 1..MaxSends /\ messages \in Seq(Bubbles)
      BY <1>2 DEF Typed
    <3> HIDE DEF x
    <3>3. Says("turn", Len(messages) + 2, messages', x)
      BY <3>1, <3>2, SendPending
    <3> QED BY <3>3, <1>1, <1>2, <2>1 DEF x
  <2>2. CASE mode # "turn"
    BY <1>2, <2>2 DEF Says
  <2> QED BY <2>1, <2>2
<1>6. ASSUME answer' = Nothing
      PROVE  Waits(running[visit])' /\ (Grounded' => Held' = running'[visit'].display)
  <2>1. /\ ctx[visit].status = "ready" /\ running'[visit].text = sends + 1
        /\ running'[visit].display = ctx[visit].display /\ visit' = visit
    BY <1>1, <1>2, <1>6, RefusalTyped
  <2>2. Held = ctx[visit].display /\ Grounded
    BY <2>1 DEF Held, Grounded
  <2>3. Pending(doing', at', messages', ctx[visit].display)
    BY <1>3, <1>4, <2>2
  <2> QED BY <1>5, <2>1, <2>2, <2>3 DEF Waits
<1>7. answer' = Refusal /\ Grounded' => Pending(doing', at', messages', Held')
  BY <1>3, <1>4
<1> QED BY <1>2, <1>6, <1>7

\* The bubble of a turn in flight shows what has come so far: nothing new.
LEMMA TokenPending ==
  ASSUME Typed, NEW d, Pending(doing, at, messages, d), TokenArrives
  PROVE  FALSE
<1>1. /\ doing = "turn" /\ messages' # messages
      /\ messages' = Put(messages, at, IF at <= Len(messages)
                                         THEN [messages[at] EXCEPT !.text = Partial]
                                         ELSE Message("hole", Partial, 0))
  BY DEF TokenArrives
<1>2. at >= 2 /\ Len(messages) = at /\ messages[at].text = Partial /\ messages \in Seq(Bubbles)
      /\ at \in Nat
  BY <1>1 DEF Pending, Typed
<1>3. messages[at] \in Bubbles /\ at \in 1..Len(messages) /\ at <= Len(messages)
  BY <1>2
<1>4. [messages[at] EXCEPT !.text = Partial] = messages[at]
  BY <1>2, <1>3 DEF Bubbles
<1> DEFINE b == messages[at]
<1>5. messages' = Put(messages, at, b)
  BY <1>1, <1>3, <1>4
<1>6. b \in Bubbles
  BY <1>3
<1> HIDE DEF b
<1>7. /\ Put(messages, at, b) \in Seq(Bubbles) /\ Len(Put(messages, at, b)) = Len(messages)
      /\ Put(messages, at, b)[at] = b
      /\ \A k \in 1..Len(messages) : k # at => Put(messages, at, b)[k] = messages[k]
  BY <1>2, <1>3, <1>6, PutTyped
<1>8. \A k \in 1..Len(messages) : messages[k] = Put(messages, at, b)[k]
  BY <1>7 DEF b
<1>9. messages = Put(messages, at, b)
  BY <1>2, <1>7, <1>8, SeqEqual
<1> QED BY <1>1, <1>5, <1>9

\* A turn in flight after a step: the bubbles before its own tell what was held.
LEMMA SentStep ==
  ASSUME Typed, Typed', Placed, Matched, Logged, Seen, Sent, Next
  PROVE  Sent'
<1> DEFINE Waiting == answer = Nothing => /\ Waits(running[visit])
                                          /\ Grounded => Held = running[visit].display
           Refusing == answer = Refusal /\ Grounded => Pending(doing, at, messages, Held)
           Answering == answer \notin {Nothing, Refusal} =>
                          /\ answer.role = "assistant"
                          /\ Grounded => \E t \in Turns : /\ t.mode = doing /\ Waits(t)
                                                          /\ Held = Played(t)
                                                          /\ answer.text = t.text
<1> SUFFICES ASSUME Clean', past' = "settled", doing' # "none"
             PROVE  Waiting' /\ Refusing' /\ Answering'
  BY DEF Sent
<1>1. page' = "open" /\ excuse' \subseteq {"orphan"} /\ visit' \in Visits
  BY DEF Clean, Typed
<1>2. ~Unmount /\ ~CutOff /\ ~LastFails /\ ~Open /\ ~Answered /\ ~Refused
  BY <1>1 DEF Unmount, CutOff, LastFails, Open, Answered, Refused, Over
<1>3. ~LastArrives
  BY <1>1 DEF LastArrives
<1>4. ASSUME NEW v \in Visits, TurnSaved(v), v = visit, doing # "none"
      PROVE  Waiting' /\ Refusing' /\ Answering'
  <2>1. ~Orphan(v) /\ running[v] \in Turns
    <3>1. page = "open"
      BY <1>1, <1>4, TurnEnds
    <3> QED BY <3>1, <1>4, TurnEnds DEF Orphan
  <2>2. PICK t \in Turns : t = running[v]
    BY <2>1
  <2> DEFINE d == Played(t)
  <2>3. /\ answer' = Bubble(d) /\ UNCHANGED <<page, visit, messages, past, doing, at, excuse>>
        /\ ctx' = [ctx EXCEPT ![v] = [status |-> "ready", display |-> d]] /\ t.mode # "none"
    BY <1>4, <2>1, <2>2 DEF TurnSaved
  <2>4. Clean /\ past = "settled"
    BY <1>1, <2>3 DEF Clean
  <2>5. answer = Nothing /\ t.mode = doing
    BY <1>4, <2>2, <2>3, <2>4 DEF Matched
  <2>6. Waits(t)
    BY <1>4, <2>2, <2>4, <2>5 DEF Sent
  <2>7. d \in Histories /\ Last(d).text = t.text
    BY PlayedHistory
  <2>8. answer'.role = "assistant" /\ answer'.text = t.text
    BY <2>3, <2>7, BubbleOf
  <2>9. answer' # Nothing /\ answer' # Refusal
    BY <2>8, RefusalTyped
  <2>10. ctx'[visit'].status = "ready" /\ ctx'[visit'].display = d
    BY <1>4, <2>3 DEF Typed
  <2>11. Held' = Played(t)
    BY <2>10 DEF Held
  <2>12. Pending(doing', at', messages', t.display) /\ Says(doing', at', messages', t.text)
    BY <2>3, <2>6 DEF Waits
  <2>13. Waits(t)'
    BY <2>12 DEF Waits
  <2> HIDE DEF d
  <2> QED BY <2>3, <2>5, <2>8, <2>9, <2>11, <2>13
<1>5. CASE doing # "none" /\ TurnSaved(visit)
  <2>1. visit \in Visits
    BY <1>1, <1>5 DEF TurnSaved
  <2> QED BY <2>1, <1>4, <1>5
<1>6. CASE ~(doing # "none" /\ TurnSaved(visit))
  <2>1. Clean /\ (Grounded' => Grounded /\ Held' = Held)
    BY <1>2, <1>6, GroundStep
  <2>2. CASE Send \/ ContinueStory \/ RegenerateStory
    <3>1. /\ answer' = Nothing => /\ Waits(running[visit])'
                                  /\ Grounded' => Held' = running'[visit'].display
          /\ answer' = Refusal /\ Grounded' => Pending(doing', at', messages', Held')
          /\ answer' \in {Nothing, Refusal}
      BY <2>1, <2>2, SentAsked
    <3> QED BY <3>1
  <2>3. CASE TokenArrives
    <3>1. /\ past = "settled" /\ doing # "none" /\ answer # Refusal
          /\ UNCHANGED <<page, visit, doing, answer, running>>
      BY <2>3 DEF TokenArrives, serverVars
    <3>2. answer # Nothing
      BY <2>1, <2>3, <3>1, TokenPending DEF Sent, Waits
    <3>3. ~Grounded
      BY <2>1, <2>3, <3>1, <3>2, TokenPending DEF Sent, Waits
    <3>4. answer.role = "assistant"
      BY <2>1, <3>1, <3>2 DEF Sent
    <3> QED BY <2>1, <3>1, <3>2, <3>3, <3>4
  <2>4. ASSUME UNCHANGED <<visit, messages, past, doing, at, answer>>,
               running'[visit] = running[visit]
        PROVE  Waiting' /\ Refusing' /\ Answering'
    <3>1. Waiting /\ Refusing /\ Answering
      BY <2>1, <2>4 DEF Sent
    <3>2. \A t : Waits(t)' <=> Waits(t)
      BY <2>4 DEF Waits
    <3>3. Waits(running[visit])' <=> Waits(running[visit])
      BY <2>4 DEF Waits
    <3>4. Waiting'
      BY <2>1, <2>4, <3>1, <3>3
    <3>5. Refusing'
      BY <2>1, <2>4, <3>1
    <3>6. Answering'
      BY <2>1, <2>4, <3>1, <3>2
    <3> QED BY <3>4, <3>5, <3>6
  <2>5. SessionKnown \/ EnginePolled \/ SetUpFails \/ Back
          => UNCHANGED <<visit, messages, past, doing, at, answer, running>>
    BY <1>2 DEF SessionKnown, EnginePolled, SetUpFails, Back, serverVars
  <2>6. CreateSession \/ EndSession
          => UNCHANGED <<visit, messages, past, doing, at, answer, running>>
    BY DEF CreateSession, EndSession, clientVars
  <2>7. \A v \in Visits : \A status \in {"ready", "error"} :
          EngineInit(v, status) => UNCHANGED <<visit, messages, past, doing, at, answer, running>>
    BY DEF EngineInit, clientVars
  <2>8. ~LastRead
    BY DEF LastRead
  <2>9. ASSUME NEW v \in Visits, TurnSaved(v) \/ TurnFails(v)
        PROVE  Waiting' /\ Refusing' /\ Answering'
    <3>1. /\ UNCHANGED <<page, visit, messages, past, doing, at>>
          /\ \A w \in Visits : w # v => running'[w] = running[w]
      BY <2>9, TurnEnds
    <3>2. CASE v # visit
      <4>1. Orphan(v) /\ answer' = answer
        BY <2>9, <3>2, TurnEnds
      <4>2. running'[visit] = running[visit]
        BY <1>1, <3>1, <3>2
      <4> QED BY <3>1, <4>1, <4>2, <2>4
    <3>3. CASE v = visit
      <4>1. TurnFails(v) /\ ~Orphan(v)
        BY <1>1, <1>6, <2>9, <3>1, <3>3 DEF Orphan
      <4>2. answer' = Refusal /\ running[v].mode # "none"
        BY <4>1 DEF TurnFails
      <4>3. answer = Nothing
        BY <2>1, <3>3, <4>2 DEF Matched
      <4>4. Waits(running[visit]) /\ (Grounded => Held = running[visit].display)
        BY <2>1, <3>1, <4>3 DEF Sent
      <4>5. Grounded => Pending(doing, at, messages, Held)
        BY <4>4 DEF Waits
      <4>6. Refusing'
        BY <2>1, <3>1, <4>5
      <4> QED BY <4>2, <4>6, RefusalTyped
    <3> QED BY <3>2, <3>3
  <2>10. CASE Client
    <3>1. SessionKnown \/ EnginePolled \/ SetUpFails \/ Back
            => Waiting' /\ Refusing' /\ Answering'
      BY <2>4, <2>5
    <3> HIDE DEF Waiting, Refusing, Answering
    <3> QED BY <1>2, <1>3, <2>2, <2>3, <2>10, <3>1 DEF Client, Left, TabCloses
  <2>11. CASE Server
    <3>1. CreateSession \/ EndSession => Waiting' /\ Refusing' /\ Answering'
      BY <2>4, <2>6
    <3>2. \A v \in Visits : \A status \in {"ready", "error"} :
            EngineInit(v, status) => Waiting' /\ Refusing' /\ Answering'
      BY <2>4, <2>7
    <3> HIDE DEF Waiting, Refusing, Answering
    <3> QED BY <2>8, <2>9, <2>11, <3>1, <3>2 DEF Server
  <2> QED BY <2>10, <2>11 DEF Next
<1> QED BY <1>5, <1>6

\* The last row follows the session.
LEMMA LoggedStep ==
  ASSUME Typed, Typed', Placed, Matched, Logged, Next
  PROVE  Logged'
<1> DEFINE A == ctx[visit].status # "none" => LastEngine = ctx[visit].display
           B == \A i \in DOMAIN rows : rows[i].visit = visit => i = Len(rows)
           C == doing # "none" /\ answer = Nothing => LastEngine = running[visit].display
<1> SUFFICES ASSUME page' = "open", excuse' = {}, ~preview'
             PROVE  A' /\ B' /\ C'
  BY DEF Logged
<1>1. visit' \in Visits
  BY DEF Typed
<1>2. ~Unmount /\ ~CutOff /\ ~LastFails
  BY DEF Unmount, CutOff, LastFails
<1>3. CASE Open
  <2>1. /\ doing' = "none" /\ visit' = visit + 1 /\ UNCHANGED <<ctx, rows>>
    BY <1>3 DEF Open, serverVars
  <2>2. visit' > visit
    BY <2>1 DEF Typed
  <2>3. ctx'[visit'].status = "none"
    BY <1>1, <2>1, <2>2 DEF Placed
  <2>4. \A n \in Visits : n <= visit => n # visit'
    BY <2>1 DEF Typed, Visits
  <2>5. \A row \in Rows : row.visit \in Visits
    BY DEF Rows
  <2>6. \A i \in DOMAIN rows : rows[i] \in Rows
    <3>1. rows \in Seq(Rows)
      BY DEF Typed
    <3> QED BY <3>1
  <2>7. \A i \in DOMAIN rows' : rows'[i].visit # visit'
    BY <2>1, <2>4, <2>5, <2>6 DEF Placed
  <2> QED BY <2>1, <2>3, <2>7
<1>4. CASE UNCHANGED <<preview, page, visit, doing, answer, ctx, running, rows>> /\ excuse = {}
  BY <1>4 DEF Logged, LastEngine
<1>5. LastArrives \/ TokenArrives \/ SessionKnown \/ EnginePolled \/ SetUpFails \/ Back
        => UNCHANGED <<preview, page, visit, doing, answer, ctx, running, rows>> /\ excuse = {}
  BY <1>2 DEF LastArrives, TokenArrives, SessionKnown, EnginePolled, SetUpFails, Back, serverVars
<1>6. LastRead
        => UNCHANGED <<preview, page, visit, doing, answer, ctx, running, rows>> /\ excuse = {}
  BY DEF LastRead, serverVars
<1>7. CASE Answered \/ Refused
  <2>1. UNCHANGED <<preview, page, visit, ctx, rows, excuse>> /\ doing' = "none"
    BY <1>7 DEF Answered, Refused, Over, serverVars
  <2> QED BY <2>1 DEF Logged, LastEngine
<1>8. CASE Send \/ ContinueStory \/ RegenerateStory
  <2>1. PICK mode \in Modes : Idle /\ Asked(mode)
    BY <1>8 DEF Send, ContinueStory, RegenerateStory, Modes
  <2>2. UNCHANGED <<preview, page, visit, ctx, rows, excuse>>
    BY <1>8 DEF Send, ContinueStory, RegenerateStory
  <2>3. A /\ B
    BY <2>2 DEF Logged
  <2>4. answer' = Nothing => ctx[visit].status = "ready"
                             /\ running'[visit].display = ctx[visit].display
    BY <2>1, AskedTurn, RefusalTyped
  <2> QED BY <2>2, <2>3, <2>4 DEF LastEngine
<1>9. CASE CreateSession
  <2>1. /\ engine = "asked" /\ page = "open"
        /\ ctx' = [ctx EXCEPT ![visit] =
             [status |-> "initializing", display |-> IF preview THEN Fresh ELSE LastEngine]]
        /\ UNCHANGED <<preview, page, visit, doing, rows, excuse>>
    BY <1>9 DEF CreateSession, clientVars
  <2>2. ctx'[visit].display = LastEngine /\ doing = "none"
    BY <1>1, <2>1 DEF Typed, Placed
  <2> QED BY <2>1, <2>2 DEF Logged, LastEngine
<1>10. CASE EndSession
  <2>1. /\ page = "open" /\ ctx' = [ctx EXCEPT ![visit] = NoSession]
        /\ UNCHANGED <<preview, page, visit, doing, answer, running, engine, excuse>>
    BY <1>10 DEF EndSession
  <2>2. ctx'[visit].status = "none" /\ ctx[visit] \in Sessions
    BY <1>1, <2>1 DEF Typed, NoSession
  <2>3. A /\ B /\ C
    BY <2>1 DEF Logged
  <2>4. B'
    <3>1. ASSUME NEW row \in Rows, row.visit = visit, rows' = Upserted(row)
          PROVE  B'
      <4>1. \A i \in DOMAIN rows' : rows'[i].visit = row.visit => i = Len(rows')
        BY <2>1, <2>3, <3>1, WrittenRow
      <4> QED BY <2>1, <3>1, <4>1
    <3>2. CASE ctx[visit].status = "none"
      BY <1>10, <2>1, <2>3, <3>2 DEF EndSession
    <3>3. CASE ctx[visit].status = "ready"
      <4> DEFINE row == Row(visit, ctx[visit].display, FALSE)
      <4>1. ctx[visit].display \in Histories
        BY <2>2, <3>3 DEF Sessions, NoSession
      <4>2. row \in Rows /\ row.visit = visit
        BY <1>1, <2>1, <4>1, RowTyped
      <4>3. rows' = Upserted(row)
        BY <1>10, <3>3 DEF EndSession
      <4> HIDE DEF row
      <4> QED BY <3>1, <4>2, <4>3
    <3>4. CASE ctx[visit].status \notin {"none", "ready"}
      <4> DEFINE row == Row(visit, <<>>, TRUE)
      <4>1. row \in Rows /\ row.visit = visit
        BY <1>1, <2>1, RowTyped
      <4>2. rows' = Upserted(row)
        BY <1>10, <3>4 DEF EndSession
      <4> HIDE DEF row
      <4> QED BY <3>1, <4>1, <4>2
    <3> QED BY <3>2, <3>3, <3>4
  <2>5. C'
    <3>1. SUFFICES ASSUME doing # "none", answer = Nothing
                   PROVE  LastEngine' = running'[visit'].display
      BY <2>1
    <3>2. engine = "ready"
      BY <2>1, <3>1 DEF Placed
    <3>3. LastEngine' = Held
      BY <1>10, <2>1, <3>2, EndedRow
    <3>4. Held = LastEngine
      BY <2>1, <2>3 DEF Held
    <3> QED BY <2>1, <2>3, <3>1, <3>3, <3>4
  <2> QED BY <2>1, <2>2, <2>4, <2>5
<1>11. ASSUME NEW v \in Visits, NEW status \in {"ready", "error"}, EngineInit(v, status)
       PROVE  A' /\ B' /\ C'
  <2>1. /\ ctx[v].status = "initializing" /\ ctx' = [ctx EXCEPT ![v].status = status]
        /\ UNCHANGED <<preview, page, visit, doing, answer, running, rows, excuse>>
    BY <1>11 DEF EngineInit, clientVars
  <2>2. /\ ctx'[v].display = ctx[v].display
        /\ \A w \in Visits : w # v => ctx'[w] = ctx[w]
    BY <2>1, SessionTyped DEF Typed
  <2> QED BY <1>1, <2>1, <2>2 DEF Logged, LastEngine
<1>12. ASSUME NEW v \in Visits, TurnSaved(v)
       PROVE  A' /\ B' /\ C'
  <2>1. ~Orphan(v)
    BY <1>12 DEF TurnSaved
  <2>2. /\ v = visit /\ page = "open" /\ excuse' = excuse /\ answer' # Nothing
        /\ running[v] \in Turns /\ UNCHANGED <<preview, visit>>
    BY <1>12, <2>1, TurnEnds
  <2> DEFINE d == Played(running[v])
             row == Row(v, d, FALSE)
  <2>3. /\ ctx' = [ctx EXCEPT ![v] = [status |-> "ready", display |-> d]]
        /\ rows' = Upserted(row)
    BY <1>12 DEF TurnSaved, Checkpointed
  <2>4. d \in Histories
    BY <2>2, PlayedHistory
  <2>5. row \in Rows /\ row.visit = v /\ row.display = d /\ ~row.void
    BY <2>4, RowTyped
  <2>6. ctx'[visit'].display = d
    BY <2>2, <2>3 DEF Typed
  <2> HIDE DEF d, row
  <2>7. \A i \in DOMAIN rows : rows[i].visit = row.visit => i = Len(rows)
    BY <2>2, <2>5 DEF Logged
  <2>8. LastEngine' = row.display
        /\ \A i \in DOMAIN rows' : rows'[i].visit = row.visit => i = Len(rows')
    BY <2>2, <2>3, <2>5, <2>7, WrittenRow
  <2> QED BY <2>2, <2>5, <2>6, <2>8
<1>13. ASSUME NEW v \in Visits, TurnFails(v)
       PROVE  A' /\ B' /\ C'
  <2>1. UNCHANGED <<preview, page, visit, doing, ctx, rows, excuse>>
    BY <1>13 DEF TurnFails
  <2>2. A /\ B /\ C
    BY <2>1 DEF Logged
  <2>3. CASE v # visit
    <3>1. answer' = answer /\ running'[visit] = running[visit]
      BY <1>1, <1>13, <2>1, <2>3, TurnEnds
    <3> QED BY <2>1, <2>2, <3>1 DEF LastEngine
  <2>4. CASE v = visit
    <3>1. doing = "none" \/ answer' # Nothing
      BY <1>13, <2>1, <2>4, TurnEnds DEF Orphan
    <3> QED BY <2>1, <2>2, <3>1 DEF LastEngine
  <2> QED BY <2>3, <2>4
<1> HIDE DEF A, B, C
<1>14. CASE Client
  BY <1>2, <1>3, <1>4, <1>5, <1>7, <1>8, <1>14 DEF Client, Left, TabCloses
<1>15. CASE Server
  BY <1>4, <1>6, <1>9, <1>10, <1>11, <1>12, <1>13, <1>15 DEF Server
<1> QED BY <1>14, <1>15 DEF Next

\* What is seen of a session that is at rest.
LEMMA RestShown ==
  ASSUME Typed, Seen, Clean, AtRest, Grounded
  PROVE  Shown = Story(Held)
<1>1. Told(messages, Held)
  BY DEF Seen, AtRest
<1>2. Held \in Histories /\ messages \in Seq(Bubbles)
  BY HeldTyped DEF Clean, Typed
<1> QED BY <1>1, <1>2, ShownIsTold

\* The page was left: the story was as it will be resumed, or is not known.
LEMMA LeftUnmount ==
  ASSUME Typed, Seen, Logged, LeftOff, page = "open", Unmount
  PROVE  LeftOff'
<1>1. page' = "away" /\ UNCHANGED <<preview, rows>>
  BY DEF Unmount, serverVars
<1> SUFFICES ASSUME seen' # Unknown, ~preview
             PROVE  Story(LastEngine) = seen'
  BY <1>1 DEF LeftOff, LastEngine
<1>2. CASE engine = "ready"
  <2>1. AtRest /\ excuse = {} /\ seen' = Shown
    BY <1>2 DEF Unmount
  <2>2. Clean /\ Grounded
    BY <1>2, <2>1 DEF Clean, Grounded
  <2>3. Held = LastEngine
    BY <2>1 DEF Held, Logged
  <2> QED BY <2>1, <2>2, <2>3, RestShown
<1>3. CASE engine # "ready"
  BY <1>3 DEF Unmount, LeftOff
<1> QED BY <1>2, <1>3

\* The story as it was left stays in the last row until it is resumed.
LEMMA LeftOffStep ==
  ASSUME Typed, Typed', Placed, Seen, Logged, LeftOff, Next
  PROVE  LeftOff'
<1>1. page = "open" => visit \in Visits
  BY DEF Typed
<1>2. CASE Open
  <2>1. /\ page = "away" /\ visit' = visit + 1 /\ UNCHANGED <<preview, ctx, rows, seen>>
        /\ page' = "open"
    BY <1>2 DEF Open, serverVars
  <2>2. visit' > visit /\ visit' \in Visits
    BY <2>1 DEF Typed
  <2>3. ctx'[visit'].status = "none"
    BY <2>1, <2>2 DEF Placed
  <2> QED BY <2>1, <2>3 DEF LeftOff, LastEngine
<1>3. CASE /\ UNCHANGED <<preview, page, visit, ctx, rows, seen>>
           /\ page = "open" /\ engine' # "ready" /\ leaving' # "ended"
                => engine # "ready" /\ leaving # "ended"
  <2>1. LastEngine' = LastEngine /\ UNCHANGED <<preview, page, visit, ctx, seen>>
    BY <1>3 DEF LastEngine
  <2>2. page \in {"away", "open"}
    BY DEF Typed
  <2> QED BY <1>3, <2>1, <2>2 DEF LeftOff
<1>4. LastArrives \/ LastFails \/ SessionKnown \/ EnginePolled \/ SetUpFails \/ LastRead
        => /\ UNCHANGED <<preview, page, visit, ctx, rows, seen>>
           /\ page = "open" /\ engine' # "ready" /\ leaving' # "ended"
                => engine # "ready" /\ leaving # "ended"
  BY DEF LastArrives, LastFails, SessionKnown, EnginePolled, SetUpFails, LastRead, serverVars
<1>5. Send \/ ContinueStory \/ RegenerateStory \/ TokenArrives \/ Answered \/ Refused \/ CutOff
        => /\ UNCHANGED <<preview, page, visit, ctx, rows, seen>>
           /\ page = "open" /\ engine' # "ready" /\ leaving' # "ended"
                => engine # "ready" /\ leaving # "ended"
  BY DEF Send, ContinueStory, RegenerateStory, TokenArrives, Answered, Refused, CutOff, serverVars
<1>6. CASE Back
  <2>1. CASE Unmount
    BY <1>6, <2>1, LeftUnmount DEF Back
  <2>2. CASE ~Unmount
    BY <1>3, <1>6, <2>2 DEF Back, serverVars
  <2> QED BY <2>1, <2>2
<1>7. CASE Left \/ TabCloses
  BY <1>7, LeftUnmount DEF Left, TabCloses
<1>8. CASE CreateSession
  <2>1. /\ engine = "asked" /\ page = "open" /\ leaving = "no"
        /\ ctx' = [ctx EXCEPT ![visit] =
             [status |-> "initializing", display |-> IF preview THEN Fresh ELSE LastEngine]]
        /\ UNCHANGED <<preview, page, visit, engine, leaving, rows, seen>>
    BY <1>8 DEF CreateSession, clientVars, Placed
  <2>2. ~preview => ctx'[visit].display = LastEngine
    BY <1>1, <2>1 DEF Typed
  <2> QED BY <2>1, <2>2 DEF LeftOff, LastEngine
<1>9. CASE EndSession
  <2>1. /\ page = "open" /\ leaving' = "ended" /\ ctx' = [ctx EXCEPT ![visit] = NoSession]
        /\ UNCHANGED <<page, visit>>
    BY <1>9 DEF EndSession
  <2>2. ctx'[visit].status = "none"
    BY <1>1, <2>1 DEF Typed, NoSession
  <2> QED BY <2>1, <2>2 DEF LeftOff
<1>10. ASSUME NEW v \in Visits, NEW status \in {"ready", "error"}, EngineInit(v, status)
       PROVE  LeftOff'
  <2>1. /\ ctx[v].status = "initializing" /\ ctx' = [ctx EXCEPT ![v].status = status]
        /\ UNCHANGED <<preview, page, visit, engine, leaving, rows, seen>>
    BY <1>10 DEF EngineInit, clientVars
  <2>2. /\ ctx'[v].display = ctx[v].display /\ ctx'[v].status = status
        /\ \A w \in Visits : w # v => ctx'[w] = ctx[w]
    BY <2>1, SessionTyped DEF Typed
  <2> QED BY <1>1, <2>1, <2>2 DEF LeftOff, LastEngine
<1>11. ASSUME NEW v \in Visits, TurnSaved(v)
       PROVE  LeftOff'
  <2>1. CASE Orphan(v)
    BY <1>11, <2>1 DEF TurnSaved, LeftOff
  <2>2. CASE ~Orphan(v)
    <3>1. v = visit /\ page = "open" /\ doing # "none" /\ UNCHANGED <<page, visit, engine>>
      BY <1>11, <2>2, TurnEnds
    <3>2. engine = "ready"
      BY <3>1 DEF Placed
    <3>3. ctx'[visit].status = "ready"
      BY <1>11, <3>1 DEF TurnSaved, Typed
    <3> QED BY <3>1, <3>2, <3>3 DEF LeftOff
  <2> QED BY <2>1, <2>2
<1>12. ASSUME NEW v \in Visits, TurnFails(v)
       PROVE  LeftOff'
  BY <1>3, <1>12 DEF TurnFails
<1>13. CASE Client
  BY <1>2, <1>3, <1>4, <1>5, <1>6, <1>7, <1>13 DEF Client
<1>14. CASE Server
  BY <1>3, <1>4, <1>8, <1>9, <1>10, <1>11, <1>12, <1>14 DEF Server
<1> QED BY <1>13, <1>14 DEF Next

-----------------------------------------------------------------------------
(* Theorems.                                                               *)

\* Every step preserves the invariant.
LEMMA InvStep ==
  ASSUME Inv, [Next]_vars
  PROVE  Inv'
<1>1. CASE Next
  <2>1. Typed'
    BY <1>1, TypedClient, TypedServer DEF Next, Inv
  <2>2. Placed'
    BY <1>1, PlacedClient, PlacedServer DEF Next, Inv
  <2>3. Matched'
    BY <1>1, <2>1, MatchedStep DEF Inv
  <2>4. Awaited'
    BY <1>1, <2>1, AwaitedStep DEF Inv
  <2>5. Seen'
    BY <1>1, <2>1, SeenStep DEF Inv
  <2>6. Sent'
    BY <1>1, <2>1, SentStep DEF Inv
  <2>7. Logged'
    BY <1>1, <2>1, LoggedStep DEF Inv
  <2>8. LeftOff'
    BY <1>1, <2>1, LeftOffStep DEF Inv
  <2> QED BY <2>1, <2>2, <2>3, <2>4, <2>5, <2>6, <2>7, <2>8 DEF Inv
<1>2. CASE UNCHANGED vars
  <2> USE <1>2 DEF Inv, vars, clientVars, serverVars
  <2>1. Typed' /\ Placed' /\ Matched'
    BY DEF Typed, Placed, Matched, Clean
  <2>2. Awaited' /\ Seen'
    BY DEF Awaited, Seen, Clean, Grounded, Coming, Held, LastEngine, LastDisplay
  <2>3. Sent'
    BY DEF Sent, Waits, Clean, Grounded, Held, LastEngine
  <2>4. Logged' /\ LeftOff'
    BY DEF Logged, LeftOff, LastEngine
  <2> QED BY <2>1, <2>2, <2>3, <2>4
<1> QED BY <1>1, <1>2

\* The invariant holds of every state that the view and the backend reach.
THEOREM Invariance == Spec => []Inv
<1>1. Init => Inv
  BY InvInit
<1>2. Inv /\ [Next]_vars => Inv'
  BY InvStep
<1> QED BY <1>1, <1>2, PTL DEF Spec

\* Every state of the view and of its backend is well typed.
THEOREM Types == Spec => []TypeOK
<1>1. Inv => TypeOK
  <2> SUFFICES ASSUME Inv PROVE TypeOK
    OBVIOUS
  <2>1. ASSUME NEW v \in Visits
        PROVE  /\ ctx[v].status \in {"none", "initializing", "ready", "error"}
               /\ running[v].mode \in Modes \union {"none"}
    <3>1. ctx[v] \in Sessions /\ running[v] \in Turns \union {NoTurn}
      BY DEF Inv, Typed
    <3> QED BY <3>1 DEF Sessions, Turns, NoTurn, NoSession
  <2> QED BY <2>1 DEF TypeOK, Inv, Typed
<1> QED BY <1>1, Invariance, PTL

\* At rest the player sees the story that the backend holds, for any number of
\* visits and turns (App.jsx, PlayView).
THEOREM PlayerSeesStory == Spec => []SeenIsPlayed
<1>1. Inv => SeenIsPlayed
  <2> SUFFICES ASSUME Inv, page = "open", AtRest, excuse \subseteq {"orphan"},
                      ctx[visit].status = "ready"
               PROVE  Shown = Story(ctx[visit].display)
    BY DEF SeenIsPlayed
  <2>1. Clean /\ Grounded /\ Held = ctx[visit].display
    BY DEF Clean, Grounded, Held
  <2> QED BY <2>1, RestShown DEF Inv
<1> QED BY <1>1, Invariance, PTL

\* The next visit's engine resumes the story as the player left it, however the
\* last visits ended (main.py, create_session and _upsert_session_log).
THEOREM StoryIsResumed == Spec => []StoryResumes
<1>1. Inv => StoryResumes
  BY DEF Inv, LeftOff, StoryResumes
<1> QED BY <1>1, Invariance, PTL
=============================================================================
