---------------------------- MODULE TokenBudget -----------------------------
(***************************************************************************)
(* The platform-wide token budget of the language model: reserve_token_    *)
(* budget in backend/rate_limiter.py, as _reserve_turn_budget in           *)
(* backend/ai_service.py calls it.  A Redis counter, groq_tpm_window, is   *)
(* raised by the caller's estimate and, when that is too much, lowered     *)
(* again; the caller that finds its own estimate in the counter starts the *)
(* window's TTL.  The key may expire between any two round trips, and      *)
(* DECRBY on an absent key creates a negative one without a TTL.           *)
(***************************************************************************)
EXTENDS Integers, FiniteSets

CONSTANTS Caller,
          Estimates,  \* what a caller may ask for
          Limit,      \* TPM_LIMIT
          Faults

\* probe  the key expires between a caller's INCRBY and its EXPIRE or DECRBY
\* gap    a caller dies, or its Redis connection fails, between INCRBY and the
\*        EXPIRE or DECRBY that follows it
ASSUME LimitAssumption == Limit \in Nat \ {0}
ASSUME EstimatesAssumption == Estimates \subseteq Nat \ {0}
ASSUME FaultsAssumption == Faults \subseteq {"probe", "gap"}

VARIABLES total, \* the counter; 0 also when the key is absent
          key,   \* "absent", "ttl" or "forever"
          pc, ask, \* of each caller: state and estimate
          granted \* callers whose reservation belongs to the current window

vars == <<total, key, pc, ask, granted>>

PC == {"idle", "wait", "expire", "release", "granted", "refused", "dead"}
\* Callers between INCRBY and the round trip that follows it.
Between == {c \in Caller : pc[c] \in {"expire", "release"}}

Init ==
  /\ total = 0 /\ key = "absent" /\ granted = {}
  /\ pc = [c \in Caller |-> "idle"]
  /\ ask \in [Caller -> Estimates]

\* Wrong on purpose: the comparison leaves the caller's own estimate out.
DecidedWithoutOwn(c, value) == IF value - ask[c] < Limit THEN "granted" ELSE "release"

\* What a caller does once it knows the counter's value.
Decided(c, value) == IF value <= Limit THEN "granted" ELSE "release"

\* INCRBY; the caller that created the key goes on to EXPIRE it.
Raise(c) ==
  /\ pc[c] \in {"idle", "wait"}
  /\ LET value == total + ask[c]
     IN /\ total' = value
        /\ pc' = [pc EXCEPT ![c] = IF value = ask[c] THEN "expire" ELSE Decided(c, value)]
        /\ granted' = IF Decided(c, value) = "granted" THEN granted \union {c} ELSE granted
  /\ key' = IF key = "absent" THEN "forever" ELSE key
  /\ UNCHANGED ask

\* Wrong on purpose: the window's TTL is never started.
NoTTL(c) ==
  /\ pc[c] = "expire"
  /\ pc' = [pc EXCEPT ![c] = Decided(c, ask[c])]
  /\ UNCHANGED <<total, key, ask, granted>>

\* EXPIRE 60; no effect when the key is gone.
SetTTL(c) ==
  /\ pc[c] = "expire"
  /\ key' = IF key = "absent" THEN key ELSE "ttl"
  /\ pc' = [pc EXCEPT ![c] = Decided(c, ask[c])]
  /\ UNCHANGED <<total, ask, granted>>

\* Wrong on purpose: a caller that is over budget keeps its reservation.
KeepRaised(c) ==
  /\ pc[c] = "release"
  /\ pc' \in {[pc EXCEPT ![c] = "wait"], [pc EXCEPT ![c] = "refused"]}
  /\ UNCHANGED <<total, key, ask, granted>>

\* DECRBY; then poll again, or give up when the deadline is over.
Lower(c) ==
  /\ pc[c] = "release"
  /\ total' = total - ask[c]
  /\ key' = IF key = "absent" THEN "forever" ELSE key
  /\ pc' \in {[pc EXCEPT ![c] = "wait"], [pc EXCEPT ![c] = "refused"]}
  /\ UNCHANGED <<ask, granted>>

\* What it added stays in the counter, and the TTL is not its matter any more.
Die(c) ==
  /\ "gap" \in Faults /\ c \in Between
  /\ pc' = [pc EXCEPT ![c] = "dead"]
  /\ UNCHANGED <<total, key, ask, granted>>

\* The window is over: the key goes, and with it what it counted.
Expire ==
  /\ key = "ttl"
  /\ "probe" \in Faults \/ Between = {}
  /\ total' = 0 /\ key' = "absent" /\ granted' = {}
  /\ UNCHANGED <<pc, ask>>

Reserve(c) == Raise(c) \/ SetTTL(c) \/ Lower(c)

Next == Expire \/ \E c \in Caller : Reserve(c) \/ Die(c)

Fairness == WF_vars(Expire) /\ \A c \in Caller : WF_vars(pc[c] # "idle" /\ Reserve(c))

Spec == Init /\ [][Next]_vars
FairSpec == Spec /\ Fairness

-----------------------------------------------------------------------------
\* The tokens that callers hold, one by one.
Reserved(S) == UNION {{c} \X (1..ask[c]) : c \in S}
Tokens(S) == Cardinality(Reserved(S))

TypeOK ==
  /\ total \in Int /\ key \in {"absent", "ttl", "forever"}
  /\ pc \in [Caller -> PC] /\ ask \in [Caller -> Estimates]
  /\ granted \subseteq Caller

(* Two callers never "jointly overshoot the budget" (rate_limiter.py): the  *)
(* reservations of one window fit into it.                                  *)
WithinBudget == Tokens(granted) <= Limit

NoneDied == \A c \in Caller : pc[c] # "dead"

(* The counter is what the window's callers hold or are about to give back, *)
(* no more and no less, until a caller dies and as long as the key does not *)
(* expire under a probe: a refused or polling caller leaves no trace.       *)
CounterExact == NoneDied => total = Tokens(granted \union Between)

(* A window that holds tokens ends: its key has a TTL, or a caller is about *)
(* to set it, until a caller dies before its EXPIRE.  Without a TTL no      *)
(* caller finds its own estimate in the counter again, and the budget stays *)
(* taken for ever ("the current minute's TPM budget", rate_limiter.py).     *)
WindowEnds == NoneDied /\ total > 0 /\ Between = {} => key = "ttl"

(* A caller is refused only when "queue is full right now"                  *)
(* (rate_limiter.py): somebody else holds or asks for tokens.               *)
RefusedMeansFull ==
  [][\A c \in Caller : pc[c] = "release" /\ pc'[c] = "refused"
        => granted # {} \/ Between # {c}]_vars
=============================================================================
