---------------------------- MODULE BudgetProofs ----------------------------
(***************************************************************************)
(* The reservations of one window fit into the budget, the counter is what *)
(* callers hold or are about to give back, and a window that holds tokens  *)
(* ends: for any number of callers and any estimates, as long as the key   *)
(* does not expire under a caller's probe.                                 *)
(*                                                                         *)
(* That they fit is not inductive: a caller is let in on the counter, not  *)
(* on what the others hold.  The counter must never be less than what is   *)
(* held, though a caller that died may make it more.                       *)
(***************************************************************************)
EXTENDS TokenBudget, FiniteSetTheorems, TLAPS

\* Those the counter counts: they hold tokens, or are about to give them back.
Counted == granted \union Between

\* Nothing that is held is forgotten, though what the dead held counts too.
CounterCovers == Tokens(Counted) <= total

\* Who holds tokens: nobody that polls or gives back, and of those that start
\* the window the ones that fit.
HoldersFit ==
  \A c \in Caller :
    /\ pc[c] \in {"idle", "wait", "release", "refused"} => c \notin granted
    /\ pc[c] = "expire" => (c \in granted <=> ask[c] <= Limit)

\* No window, no reservation.
AbsentIsEmpty == key = "absent" => total = 0 /\ Counted = {}

\* A window that holds tokens has a TTL, or somebody is about to set it.
TTLComes ==
  NoneDied /\ total > 0 => key = "ttl" \/ \E c \in Caller : pc[c] = "expire"

IInv ==
  /\ TypeOK /\ CounterCovers /\ HoldersFit /\ AbsentIsEmpty /\ TTLComes
  /\ WithinBudget /\ CounterExact

-----------------------------------------------------------------------------
(* What one caller reserves is as many tokens as it asks for.               *)
LEMMA OneCaller ==
  ASSUME NEW c, NEW n \in Nat
  PROVE  IsFiniteSet({c} \X (1..n)) /\ Cardinality({c} \X (1..n)) = n
<1>1. IsFiniteSet({c}) /\ Cardinality({c}) = 1 BY FS_Singleton
<1>2. IsFiniteSet(1..n) /\ Cardinality(1..n) = n BY FS_Interval
<1>3. /\ IsFiniteSet({c} \X (1..n))
      /\ Cardinality({c} \X (1..n)) = Cardinality({c}) * Cardinality(1..n)
  BY <1>1, <1>2, FS_Product
<1>4. Cardinality(1..n) = n BY <1>2
<1>5. Cardinality({c} \X (1..n)) = 1 * n BY <1>1, <1>3, <1>4
<1> QED BY <1>3, <1>5

(* What a finite set of callers reserves is finite.                         *)
LEMMA ReservedFinite ==
  ASSUME IsFiniteSet(Caller), ask \in [Caller -> Nat], NEW S \in SUBSET Caller
  PROVE  IsFiniteSet(Reserved(S))
<1> DEFINE parts == {{c} \X (1..ask[c]) : c \in S}
           part == [c \in S |-> {c} \X (1..ask[c])]
<1>1. IsFiniteSet(S) BY FS_Subset
<1>2. part \in Surjection(S, parts) BY DEF Surjection
<1>3. IsFiniteSet(parts)
  <2> HIDE DEF part, parts
  <2> QED BY <1>1, <1>2, FS_Surjection
<1>4. ASSUME NEW T \in parts PROVE IsFiniteSet(T)
  <2>1. PICK c \in S : T = {c} \X (1..ask[c]) OBVIOUS
  <2>2. ask[c] \in Nat OBVIOUS
  <2> QED BY <2>1, <2>2, OneCaller
<1>5. IsFiniteSet(UNION parts)
  <2> HIDE DEF parts
  <2> QED BY <1>3, <1>4, FS_UNION
<1> QED BY <1>5 DEF Reserved

(* What a caller brings and takes away.                                     *)
LEMMA Sums ==
  ASSUME IsFiniteSet(Caller), ask \in [Caller -> Nat], NEW S \in SUBSET Caller
  PROVE  /\ Tokens(S) \in Nat
         /\ \A T \in SUBSET S : Tokens(T) <= Tokens(S)
         /\ \A c \in Caller \ S : Tokens(S \union {c}) = Tokens(S) + ask[c]
         /\ \A c \in S : Tokens(S \ {c}) = Tokens(S) - ask[c]
<1>1. IsFiniteSet(Reserved(S)) BY ReservedFinite
<1>2. Tokens(S) \in Nat BY <1>1, FS_CardinalityType DEF Tokens
<1>3. ASSUME NEW T \in SUBSET S PROVE Tokens(T) <= Tokens(S)
  <2>1. Reserved(T) \in SUBSET Reserved(S) BY DEF Reserved
  <2> QED BY <1>1, <2>1, FS_Subset DEF Tokens
<1>4. ASSUME NEW T \in SUBSET Caller, NEW c \in Caller \ T
      PROVE  Tokens(T \union {c}) = Tokens(T) + ask[c]
  <2> DEFINE new == {c} \X (1..ask[c])
  <2>1. Reserved(T \union {c}) = Reserved(T) \union new BY DEF Reserved
  <2>2. Reserved(T) \intersect new = {} BY DEF Reserved
  <2>3. ask[c] \in Nat OBVIOUS
  <2>4. IsFiniteSet(new) /\ Cardinality(new) = ask[c] BY <2>3, OneCaller
  <2>5. IsFiniteSet(Reserved(T)) BY ReservedFinite
  <2>6. Cardinality(Reserved(T)) \in Nat BY <2>5, FS_CardinalityType
  <2>7. Cardinality({}) = 0 BY FS_EmptySet
  <2> HIDE DEF new
  <2>8. Cardinality(Reserved(T) \union new)
          = Cardinality(Reserved(T)) + Cardinality(new) - Cardinality(Reserved(T) \intersect new)
    BY <2>4, <2>5, FS_Union
  <2>9. Tokens(T \union {c}) = Cardinality(Reserved(T) \union new) BY <2>1 DEF Tokens
  <2>10. Cardinality(Reserved(T) \intersect new) = 0 BY <2>2, <2>7
  <2>11. Tokens(T) = Cardinality(Reserved(T)) BY DEF Tokens
  <2> QED BY <2>3, <2>4, <2>6, <2>8, <2>9, <2>10, <2>11
<1>5. ASSUME NEW c \in S PROVE Tokens(S \ {c}) = Tokens(S) - ask[c]
  <2> DEFINE T == S \ {c}
  <2>1. T \in SUBSET Caller /\ c \in Caller \ T /\ T \union {c} = S OBVIOUS
  <2> HIDE DEF T
  <2>2. Tokens(S) = Tokens(T) + ask[c] BY <1>4, <2>1
  <2>3. IsFiniteSet(Reserved(T)) BY <2>1, ReservedFinite
  <2>4. Tokens(T) \in Nat BY <2>3, FS_CardinalityType DEF Tokens
  <2>5. ask[c] \in Nat OBVIOUS
  <2>6. Tokens(T) = Tokens(S) - ask[c] BY <2>2, <2>4, <2>5
  <2> QED BY <2>6 DEF T
<1> QED BY <1>2, <1>3, <1>4, <1>5

(* Nobody holds nothing.                                                    *)
LEMMA NoTokens == Tokens({}) = 0
<1>1. Reserved({}) = {} BY DEF Reserved
<1> QED BY <1>1, FS_EmptySet DEF Tokens

(* Asking for tokens is asking for a number of them.                        *)
LEMMA AskType == TypeOK => ask \in [Caller -> Nat] /\ \A c \in Caller : ask[c] > 0
<1> SUFFICES ASSUME TypeOK PROVE ask \in [Caller -> Nat] /\ \A c \in Caller : ask[c] > 0
  OBVIOUS
<1>1. \A n \in Estimates : n \in Nat /\ n > 0 BY EstimatesAssumption
<1> QED BY <1>1 DEF TypeOK

-----------------------------------------------------------------------------
(* At first there is no window.                                             *)
LEMMA InitHolds == Init => IInv
<1> SUFFICES ASSUME Init PROVE IInv OBVIOUS
<1>1. TypeOK BY DEF Init, TypeOK, PC
<1>2. granted = {} /\ Between = {} /\ Counted = {} BY DEF Init, Between, Counted
<1>3. granted \union Between = {} BY <1>2
<1> QED
  BY <1>1, <1>2, <1>3, NoTokens, LimitAssumption
  DEF IInv, CounterCovers, HoldersFit, AbsentIsEmpty, TTLComes, WithinBudget, CounterExact,
      Init

(* Every step is well typed.                                                *)
LEMMA TypeStep == TypeOK /\ [Next]_vars => TypeOK'
<1> SUFFICES ASSUME TypeOK, [Next]_vars PROVE TypeOK' OBVIOUS
<1> USE DEF TypeOK, PC
<1>1. CASE Expire BY <1>1 DEF Expire
<1>2. ASSUME NEW c \in Caller, Raise(c) PROVE TypeOK'
  <2>1. ask[c] \in Int BY AskType
  <2> QED BY <1>2, <2>1 DEF Raise, Decided
<1>3. ASSUME NEW c \in Caller, SetTTL(c) PROVE TypeOK' BY <1>3 DEF SetTTL, Decided
<1>4. ASSUME NEW c \in Caller, Lower(c) PROVE TypeOK'
  <2>1. ask[c] \in Int BY AskType
  <2> QED BY <1>4, <2>1 DEF Lower
<1>5. ASSUME NEW c \in Caller, Die(c) PROVE TypeOK' BY <1>5 DEF Die
<1>6. CASE UNCHANGED vars BY <1>6 DEF vars
<1> QED BY <1>1, <1>2, <1>3, <1>4, <1>5, <1>6 DEF Next, Reserve

(* A caller that raises the counter is counted, and let in if it fits.      *)
LEMMA RaiseStep ==
  ASSUME IsFiniteSet(Caller), IInv, TypeOK', NEW c \in Caller, Raise(c)
  PROVE  IInv'
<1> USE DEF IInv
<1>1. ask \in [Caller -> Nat] /\ ask[c] > 0 /\ ask[c] \in Nat BY AskType
<1>2. total' = total + ask[c] /\ ask' = ask /\ total \in Int BY DEF Raise, TypeOK
<1>3. c \in Caller \ Counted /\ Counted \in SUBSET Caller
  BY DEF Raise, HoldersFit, Counted, Between, TypeOK
<1>4. Counted' = Counted \union {c}
  BY DEF Raise, Decided, Counted, Between, TypeOK
<1>5. Tokens(Counted)' = Tokens(Counted) + ask[c] /\ Tokens(Counted) \in Nat
  <2>1. Tokens(Counted \union {c}) = Tokens(Counted) + ask[c] /\ Tokens(Counted) \in Nat
    BY <1>1, <1>3, Sums
  <2> QED BY <1>2, <1>4, <2>1 DEF Tokens, Reserved
<1>6. CounterCovers' BY <1>1, <1>2, <1>5 DEF CounterCovers
<1>7. CounterExact'
  <2> SUFFICES ASSUME NoneDied' PROVE total' = Tokens(Counted)'
    BY DEF CounterExact, Counted
  <2>1. NoneDied BY DEF NoneDied, Raise, TypeOK
  <2> QED BY <1>2, <1>5, <2>1 DEF CounterExact, Counted
<1>8. HoldersFit'
  <2>1. Tokens(Counted) <= total BY DEF CounterCovers
  <2>2. total + ask[c] = ask[c] => total = 0 BY <1>1, <1>2
  <2> QED BY <1>1, <1>2, <1>3, LimitAssumption DEF HoldersFit, Raise, Decided, TypeOK, Counted
<1>9. AbsentIsEmpty' BY DEF AbsentIsEmpty, Raise
<1>10. TTLComes'
  <2> SUFFICES ASSUME NoneDied' PROVE key' = "ttl" \/ \E d \in Caller : pc'[d] = "expire"
    BY DEF TTLComes
  <2>1. NoneDied BY DEF NoneDied, Raise, TypeOK
  <2>2. CASE total = 0 BY <1>1, <2>2 DEF Raise, TypeOK
  <2>3. CASE total # 0
    <3>1. total > 0 BY <1>2, <1>5, <2>3 DEF CounterCovers
    <3>2. key = "ttl" \/ \E d \in Caller : pc[d] = "expire" BY <2>1, <3>1 DEF TTLComes
    <3> QED BY <3>2 DEF Raise, TypeOK
  <2> QED BY <2>2, <2>3
<1>11. WithinBudget'
  <2>1. CASE Decided(c, total + ask[c]) = "granted"
    <3>1. total + ask[c] <= Limit BY <2>1 DEF Decided
    <3>2. granted' \in SUBSET (Counted \union {c}) BY DEF Raise, Counted
    <3>3. Tokens(granted') <= Tokens(Counted \union {c}) /\ Tokens(granted') \in Nat
      BY <1>1, <1>3, <3>2, Sums
    <3>4. Tokens(Counted \union {c}) = Tokens(Counted)' BY <1>2, <1>4 DEF Tokens, Reserved
    <3>5. Tokens(granted)' = Tokens(granted') BY <1>2 DEF Tokens, Reserved
    <3> QED
      BY <1>1, <1>2, <1>5, <3>1, <3>3, <3>4, <3>5, LimitAssumption
      DEF WithinBudget, CounterCovers
  <2>2. CASE Decided(c, total + ask[c]) # "granted"
    <3>1. granted' = granted BY <2>2 DEF Raise
    <3> QED BY <1>2, <3>1 DEF WithinBudget, Tokens, Reserved
  <2> QED BY <2>1, <2>2
<1> QED BY <1>6, <1>7, <1>8, <1>9, <1>10, <1>11

(* The caller that started the window sets its TTL, and stays counted.      *)
LEMMA SetTTLStep ==
  ASSUME IInv, TypeOK', NEW c \in Caller, SetTTL(c)
  PROVE  IInv'
<1> USE DEF IInv
<1>1. UNCHANGED <<total, ask, granted>> /\ pc[c] = "expire" BY DEF SetTTL
<1>2. Counted' = Counted
  BY <1>1 DEF SetTTL, Decided, Counted, Between, HoldersFit, TypeOK
<1>3. Tokens(Counted)' = Tokens(Counted) /\ Tokens(granted)' = Tokens(granted)
  BY <1>1, <1>2 DEF Tokens, Reserved
<1>4. key # "absent" /\ key' = "ttl"
  BY <1>1 DEF AbsentIsEmpty, SetTTL, Counted, Between
<1>5. NoneDied' => NoneDied BY DEF NoneDied, SetTTL, TypeOK
<1>6. HoldersFit' BY <1>1 DEF HoldersFit, SetTTL, Decided, TypeOK
<1> QED
  BY <1>1, <1>2, <1>3, <1>4, <1>5, <1>6
  DEF CounterCovers, AbsentIsEmpty, TTLComes, WithinBudget, CounterExact, Counted

(* A caller that does not fit takes back what it added.                     *)
LEMMA LowerStep ==
  ASSUME IsFiniteSet(Caller), IInv, TypeOK', NEW c \in Caller, Lower(c)
  PROVE  IInv'
<1> USE DEF IInv
<1>1. ask \in [Caller -> Nat] /\ ask[c] > 0 /\ ask[c] \in Nat BY AskType
<1>2. /\ total' = total - ask[c] /\ ask' = ask /\ granted' = granted /\ total \in Int
      /\ pc[c] = "release" /\ pc'[c] \in {"wait", "refused"}
      /\ \A d \in Caller \ {c} : pc'[d] = pc[d]
  BY DEF Lower, TypeOK
<1>3. c \in Counted /\ Counted \in SUBSET Caller /\ Counted' = Counted \ {c}
  BY <1>2 DEF HoldersFit, Counted, Between, TypeOK
<1>4. Tokens(Counted)' = Tokens(Counted) - ask[c] /\ Tokens(Counted) \in Nat
  <2>1. Tokens(Counted \ {c}) = Tokens(Counted) - ask[c] /\ Tokens(Counted) \in Nat
    BY <1>1, <1>3, Sums
  <2> QED BY <1>2, <1>3, <2>1 DEF Tokens, Reserved
<1>5. Tokens(granted)' = Tokens(granted) BY <1>2 DEF Tokens, Reserved
<1>6. NoneDied' => NoneDied BY <1>2 DEF NoneDied
<1>7. key # "absent" /\ key' = key BY <1>3 DEF AbsentIsEmpty, Lower
<1>8. HoldersFit' BY <1>2 DEF HoldersFit
<1>9. TTLComes'
  <2> SUFFICES ASSUME NoneDied', total' > 0
               PROVE  key' = "ttl" \/ \E d \in Caller : pc'[d] = "expire"
    BY DEF TTLComes
  <2>1. key = "ttl" \/ \E d \in Caller : pc[d] = "expire" BY <1>1, <1>2, <1>6 DEF TTLComes
  <2> QED BY <1>2, <1>7, <2>1
<1> QED
  BY <1>1, <1>2, <1>4, <1>5, <1>6, <1>7, <1>8, <1>9
  DEF CounterCovers, AbsentIsEmpty, WithinBudget, CounterExact, Counted

(* A caller that dies between two round trips leaves its tokens in the      *)
(* counter.                                                                 *)
LEMMA DieStep ==
  ASSUME IsFiniteSet(Caller), IInv, TypeOK', NEW c \in Caller, Die(c)
  PROVE  IInv'
<1> USE DEF IInv
<1>1. UNCHANGED <<total, key, ask, granted>> /\ c \in Between /\ pc'[c] = "dead"
      /\ pc' = [pc EXCEPT ![c] = "dead"]
  BY DEF Die, Between, TypeOK
<1>2. Counted' \in SUBSET Counted /\ Counted \in SUBSET Caller
  BY <1>1 DEF Die, Counted, Between, TypeOK
<1>3. ask \in [Caller -> Nat] BY AskType
<1>4. Tokens(Counted') <= Tokens(Counted) /\ Tokens(Counted') \in Nat /\ Tokens(Counted) \in Nat
  BY <1>2, <1>3, Sums
<1>5. Tokens(Counted)' = Tokens(Counted') /\ Tokens(granted)' = Tokens(granted)
  BY <1>1 DEF Tokens, Reserved
<1>6. ~NoneDied' BY <1>1 DEF NoneDied
<1>7. HoldersFit' BY <1>1 DEF HoldersFit, Die, TypeOK
<1>8. AbsentIsEmpty' BY <1>1, <1>2 DEF AbsentIsEmpty
<1>9. CounterCovers' BY <1>1, <1>4, <1>5 DEF CounterCovers, TypeOK
<1> QED BY <1>5, <1>6, <1>7, <1>8, <1>9, <1>1 DEF TTLComes, WithinBudget, CounterExact

(* A window ends when nobody is between two round trips.                    *)
LEMMA ExpireStep ==
  ASSUME IInv, TypeOK', "probe" \notin Faults, Expire
  PROVE  IInv'
<1> USE DEF IInv
<1>1. Between = {} /\ total' = 0 /\ granted' = {} /\ pc' = pc /\ ask' = ask BY DEF Expire
<1>2. Counted' = {} /\ granted' \union Between' = {} BY <1>1 DEF Counted, Between
<1>3. Tokens(Counted)' = 0 /\ Tokens(granted)' = 0
  BY <1>1, <1>2, NoTokens DEF Tokens, Reserved
<1>4. HoldersFit' BY <1>1 DEF HoldersFit, Between
<1> QED
  BY <1>1, <1>2, <1>3, <1>4, LimitAssumption
  DEF CounterCovers, AbsentIsEmpty, TTLComes, WithinBudget, CounterExact, Counted

-----------------------------------------------------------------------------
(* Every step preserves the invariant.                                      *)
LEMMA NextStep ==
  ASSUME IsFiniteSet(Caller), "probe" \notin Faults, IInv, [Next]_vars
  PROVE  IInv'
<1>1. TypeOK' BY TypeStep DEF IInv
<1>2. CASE Expire BY <1>1, <1>2, ExpireStep
<1>3. ASSUME NEW c \in Caller, Raise(c) PROVE IInv' BY <1>1, <1>3, RaiseStep
<1>4. ASSUME NEW c \in Caller, SetTTL(c) PROVE IInv' BY <1>1, <1>4, SetTTLStep
<1>5. ASSUME NEW c \in Caller, Lower(c) PROVE IInv' BY <1>1, <1>5, LowerStep
<1>6. ASSUME NEW c \in Caller, Die(c) PROVE IInv' BY <1>1, <1>6, DieStep
<1>7. CASE UNCHANGED vars
  BY <1>1, <1>7
  DEF vars, IInv, CounterCovers, HoldersFit, AbsentIsEmpty, TTLComes, WithinBudget,
      CounterExact, Counted, Between, Tokens, Reserved, NoneDied
<1> QED BY <1>2, <1>3, <1>4, <1>5, <1>6, <1>7 DEF Next, Reserve

(* It holds in every state.                                                 *)
LEMMA Invariance ==
  ASSUME IsFiniteSet(Caller), "probe" \notin Faults
  PROVE  Spec => []IInv
<1>1. Init => IInv BY InitHolds
<1>2. IInv /\ [Next]_vars => IInv' BY NextStep
<1> QED BY <1>1, <1>2, PTL DEF Spec

(* Every state is well typed, whatever expires and whoever dies, for any    *)
(* callers: the type invariant needs none of the assumptions the others do. *)
THEOREM Types == Spec => []TypeOK
<1>1. Init => TypeOK BY DEF Init, TypeOK, PC
<1> QED BY <1>1, TypeStep, PTL DEF Spec

(* Callers never "jointly overshoot the budget", however many there are and *)
(* whoever dies between two round trips (reserve_token_budget).             *)
THEOREM Budget ==
  ASSUME IsFiniteSet(Caller), "probe" \notin Faults
  PROVE  Spec => []WithinBudget
<1>1. IInv => WithinBudget BY DEF IInv
<1> QED BY <1>1, Invariance, PTL

(* A caller that polls or is refused leaves no trace in the counter, until  *)
(* one dies (reserve_token_budget).                                         *)
THEOREM Counter ==
  ASSUME IsFiniteSet(Caller), "probe" \notin Faults
  PROVE  Spec => []CounterExact
<1>1. IInv => CounterExact BY DEF IInv
<1> QED BY <1>1, Invariance, PTL

(* A window that holds tokens has a TTL once nobody is between two round    *)
(* trips, until a caller dies (reserve_token_budget).                       *)
THEOREM Window ==
  ASSUME IsFiniteSet(Caller), "probe" \notin Faults
  PROVE  Spec => []WindowEnds
<1>1. IInv => WindowEnds BY DEF IInv, TTLComes, WindowEnds, Between
<1> QED BY <1>1, Invariance, PTL
=============================================================================
