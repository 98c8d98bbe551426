----------------------------- MODULE PrefabGate -----------------------------
(***************************************************************************)
(* The concurrency gate of prefab jobs (backend/worker.py,                 *)
(* prefab_engine_job): a Redis counter, prefab:running_count, that every   *)
(* job increments when it starts and decrements when it ends, with a TTL   *)
(* that is set by the increment that finds the key absent.                 *)
(*                                                                         *)
(* INCR and EXPIRE are two round trips, and so are INCR and the DECR of a  *)
(* job that is one too many.  The key may expire between any two of them;  *)
(* DECR on an absent key creates it, at -1 and without a TTL.              *)
(***************************************************************************)
EXTENDS Integers, FiniteSets

CONSTANTS Job,       \* prefab jobs, each run at most once
          PrefabMax, \* PREFAB_MAX
          GateFaults

\* early   the key expires while a job it counts has not ended (the TTL runs
\*         from the first job's start, not from the last one's)
\* crash   the worker dies in a job, or Redis fails one of its calls
\* gap     the same, between INCR and EXPIRE
ASSUME PrefabMaxAssumption == PrefabMax \in Nat \ {0}
ASSUME GateFaultsAssumption == GateFaults \subseteq {"early", "crash", "gap"}

VARIABLES count,   \* the counter's value; 0 also when the key is absent
          key,     \* "absent", "ttl" (will expire) or "forever"
          stage,   \* of each job
          seen     \* the count each job got from INCR

gateVars == <<count, key, stage, seen>>

PC == {"idle", "expire", "check", "over", "running", "ending", "done",
       "skipped", "dead"}
\* The jobs that incremented the counter and have not decremented it.
Counted == {j \in Job : stage[j] \in {"expire", "check", "over", "running", "ending"}}
Running == {j \in Job : stage[j] = "running"}

GateInit ==
  /\ count = 0 /\ key = "absent"
  /\ stage = [j \in Job |-> "idle"] /\ seen = [j \in Job |-> 0]

\* INCR, and on 1 the EXPIRE to come.
Increment(j) ==
  /\ stage[j] = "idle"
  /\ count' = count + 1
  /\ key' = IF key = "absent" THEN "forever" ELSE key
  /\ seen' = [seen EXCEPT ![j] = count + 1]
  /\ stage' = [stage EXCEPT ![j] = IF count + 1 = 1 THEN "expire" ELSE "check"]

\* Wrong on purpose: the TTL is never set.
NoTTL(j) ==
  /\ stage[j] = "expire"
  /\ stage' = [stage EXCEPT ![j] = "check"]
  /\ UNCHANGED <<count, key, seen>>

\* EXPIRE 300; no effect when the key is gone.
SetTTL(j) ==
  /\ stage[j] = "expire"
  /\ key' = IF key = "absent" THEN key ELSE "ttl"
  /\ stage' = [stage EXCEPT ![j] = "check"]
  /\ UNCHANGED <<count, seen>>

\* Wrong on purpose: one job more than PREFAB_MAX is admitted.
AdmitOneMore(j) ==
  /\ stage[j] = "check"
  /\ stage' = [stage EXCEPT ![j] = IF seen[j] - 1 > PrefabMax THEN "over" ELSE "running"]
  /\ UNCHANGED <<count, key, seen>>

Admit(j) ==
  /\ stage[j] = "check"
  /\ stage' = [stage EXCEPT ![j] = IF seen[j] > PrefabMax THEN "over" ELSE "running"]
  /\ UNCHANGED <<count, key, seen>>

Decremented == /\ count' = count - 1
               /\ key' = IF key = "absent" THEN "forever" ELSE key

\* Wrong on purpose: a job that is turned away does not give its count back.
SkipKeepsCount(j) ==
  /\ stage[j] = "over"
  /\ stage' = [stage EXCEPT ![j] = "skipped"]
  /\ UNCHANGED <<count, key, seen>>

\* One too many: DECR, and the scenario's prefab has failed.
Skip(j) ==
  /\ stage[j] = "over"
  /\ Decremented
  /\ stage' = [stage EXCEPT ![j] = "skipped"]
  /\ UNCHANGED seen

\* engine_prefab returned or raised, and the scenario row was written.
Finish(j) ==
  /\ stage[j] = "running"
  /\ stage' = [stage EXCEPT ![j] = "ending"]
  /\ UNCHANGED <<count, key, seen>>

\* finally: DECR.
Leave(j) ==
  /\ stage[j] = "ending"
  /\ Decremented
  /\ stage' = [stage EXCEPT ![j] = "done"]
  /\ UNCHANGED seen

\* The worker dies: nothing it counted is given back.
Die(j) ==
  /\ \/ "crash" \in GateFaults /\ stage[j] \in {"check", "over", "running", "ending"}
     \/ "gap" \in GateFaults /\ stage[j] = "expire"
  /\ stage' = [stage EXCEPT ![j] = "dead"]
  /\ UNCHANGED <<count, key, seen>>

\* Redis drops the key when its TTL is over.
Expire ==
  /\ key = "ttl"
  /\ "early" \in GateFaults \/ Counted = {}
  /\ key' = "absent" /\ count' = 0
  /\ UNCHANGED <<stage, seen>>

JobStep(j) == Increment(j) \/ SetTTL(j) \/ Admit(j) \/ Skip(j) \/ Finish(j) \/ Leave(j)

GateNext == Expire \/ \E j \in Job : JobStep(j) \/ Die(j)

GateFairness == WF_gateVars(Expire) /\ \A j \in Job : WF_gateVars(JobStep(j))

GateSpec == GateInit /\ [][GateNext]_gateVars
GateFairSpec == GateSpec /\ GateFairness

-----------------------------------------------------------------------------
GateTypeOK ==
  /\ count \in Int /\ key \in {"absent", "ttl", "forever"}
  /\ stage \in [Job -> PC] /\ seen \in [Job -> Int]

(* No more than PREFAB_MAX jobs call the model at once (worker.py: "this    *)
(* counter additionally protects Groq from being hit by up to max_jobs      *)
(* prefab jobs at once"), as long as the key outlives the jobs it counts.   *)
GateHolds == Cardinality(Running) <= PrefabMax

(* Until a job dies, and as long as the key outlives the jobs it counts,    *)
(* the counter is exact: a job that is turned away leaves no trace, and the *)
(* telemetry's prefab_jobs_running does not drift (main.py, get_telemetry). *)
CounterExact == (\A j \in Job : stage[j] # "dead") => count = Cardinality(Counted)

(* A key that counts jobs which no longer run has a TTL, or a live job is   *)
(* about to set it: a crash is "self-healing within a few minutes"          *)
(* (worker.py, the comment on the TTL).                                     *)
LeakHasTTL == Counted = {} /\ count > 0 => key = "ttl"

(* After deaths, the gate opens again: once nothing runs, the leaked count  *)
(* is dropped.                                                              *)
LeakHeals == [](Counted = {} /\ count >= PrefabMax => <>(count < PrefabMax))
=============================================================================
