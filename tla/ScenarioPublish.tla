--------------------------- MODULE ScenarioPublish --------------------------
(***************************************************************************)
(* The life of a scenario (backend/main.py: update, publish, retry-prefab, *)
(* unpublish, delete) and the prefab jobs it queues (backend/worker.py,    *)
(* prefab_engine_job), down to the sessions that are started from it.      *)
(*                                                                         *)
(* A request loads the row, checks it, and commits the columns whose value *)
(* differs from what it loaded: SQLAlchemy leaves the others out of the    *)
(* UPDATE.  Two requests of the creator may interleave between the two.  A *)
(* prefab is known by the version of the text it was built from.           *)
(***************************************************************************)
EXTENDS Naturals

CONSTANTS Req,      \* requests of the creator, each sent once
          MaxText,  \* bound on the versions of the scenario's text
          Faults

\* cancel  arq cancels a job (job_timeout)
ASSUME MaxTextAssumption == MaxText \in Nat \ {0}
ASSUME FaultsAssumption == Faults \subseteq {"cancel"}

NoPrefab == 0  \* texts are numbered from 1
Op == {"update", "publish", "retry", "unpublish", "delete"}
Prefab == 0..MaxText

VARIABLES patient, \* the creator waits for each request and the job it queued
          row,    \* the scenarios row: text, published, status, prefab, exists
          pc,     \* of each request
          op,     \* of each request: what it does
          loaded, \* of each request: the row it loaded
          job,    \* of each request: the prefab job it queued
          jobText \* of each job: the text it was queued with

vars == <<patient, row, pc, op, loaded, job, jobText>>

Row == [text : 1..MaxText, published : BOOLEAN,
        status : {"pending", "ready", "failed"}, prefab : Prefab, exists : BOOLEAN]

NewRow == [text |-> 1, published |-> FALSE, status |-> "pending",
           prefab |-> NoPrefab, exists |-> TRUE]

Init ==
  /\ patient \in BOOLEAN
  /\ row = NewRow
  /\ pc = [r \in Req |-> "idle"] /\ op = [r \in Req |-> "update"]
  /\ loaded = [r \in Req |-> NewRow]
  /\ job = [r \in Req |-> "none"] /\ jobText = [r \in Req |-> 1]

InFlight == {r \in Req : job[r] = "queued"}
Busy == {r \in Req : pc[r] \in {"loaded", "queue"}}

-----------------------------------------------------------------------------
\* What each route demands of the row it loaded.
Allowed(o, s) == CASE o \in {"update", "publish", "delete"} -> ~s.published
                   [] o = "unpublish" -> s.published
                   [] o = "retry" -> s.published /\ s.status # "ready"

\* _get_owned_scenario and the check of the route.
Load(r, o) ==
  /\ pc[r] = "idle"
  /\ patient => Busy = {} /\ InFlight = {}
  /\ op' = [op EXCEPT ![r] = o]
  /\ loaded' = [loaded EXCEPT ![r] = row]
  /\ pc' = [pc EXCEPT ![r] = IF row.exists /\ Allowed(o, row) THEN "loaded" ELSE "refused"]
  /\ UNCHANGED <<patient, row, job, jobText>>

\* The columns a commit writes: those set to another value than was loaded.
Changed(r, target) ==
  [row EXCEPT
    !.published = IF target.published # loaded[r].published THEN target.published ELSE @,
    !.status    = IF target.status # loaded[r].status THEN target.status ELSE @,
    !.prefab    = IF target.prefab # loaded[r].prefab THEN target.prefab ELSE @]

\* update_scenario: the text changes, nothing else.
CommitUpdate(r) ==
  /\ pc[r] = "loaded" /\ op[r] = "update" /\ row.exists /\ row.text < MaxText
  /\ row' = [row EXCEPT !.text = @ + 1]
  /\ pc' = [pc EXCEPT ![r] = "done"]
  /\ UNCHANGED <<patient, op, loaded, job, jobText>>

\* publish_scenario and retry_prefab: published, with a prefab to come.
CommitPending(r) ==
  /\ pc[r] = "loaded" /\ op[r] \in {"publish", "retry"} /\ row.exists
  /\ row' = Changed(r, [loaded[r] EXCEPT !.published = TRUE, !.status = "pending"])
  /\ pc' = [pc EXCEPT ![r] = "queue"]
  /\ UNCHANGED <<patient, op, loaded, job, jobText>>

\* Wrong on purpose: unpublishing keeps the prefab.
UnpublishKeepsPrefab(r) ==
  /\ pc[r] = "loaded" /\ op[r] = "unpublish" /\ row.exists
  /\ row' = Changed(r, [loaded[r] EXCEPT !.published = FALSE, !.status = "pending"])
  /\ pc' = [pc EXCEPT ![r] = "done"]
  /\ UNCHANGED <<patient, op, loaded, job, jobText>>

\* unpublish_scenario drops the prefab.
CommitUnpublish(r) ==
  /\ pc[r] = "loaded" /\ op[r] = "unpublish" /\ row.exists
  /\ row' = Changed(r, [loaded[r] EXCEPT !.published = FALSE, !.status = "pending",
                                         !.prefab = NoPrefab])
  /\ pc' = [pc EXCEPT ![r] = "done"]
  /\ UNCHANGED <<patient, op, loaded, job, jobText>>

CommitDelete(r) ==
  /\ pc[r] = "loaded" /\ op[r] = "delete" /\ row.exists
  /\ row' = [row EXCEPT !.exists = FALSE]
  /\ pc' = [pc EXCEPT ![r] = "done"]
  /\ UNCHANGED <<patient, op, loaded, job, jobText>>

\* The row is gone since it was loaded: the commit fails.
CommitNothing(r) ==
  /\ pc[r] = "loaded" /\ ~row.exists
  /\ pc' = [pc EXCEPT ![r] = "refused"]
  /\ UNCHANGED <<patient, row, op, loaded, job, jobText>>

\* _enqueue_prefab_job, with the text of the refreshed row.
Enqueue(r) ==
  /\ pc[r] = "queue" /\ row.exists
  /\ job' = [job EXCEPT ![r] = "queued"]
  /\ jobText' = [jobText EXCEPT ![r] = row.text]
  /\ pc' = [pc EXCEPT ![r] = "done"]
  /\ UNCHANGED <<patient, row, op, loaded>>

\* Wrong on purpose: a failed enqueue is only logged.
EnqueueFailsSilently(r) ==
  /\ pc[r] = "queue"
  /\ pc' = [pc EXCEPT ![r] = "failed"]
  /\ UNCHANGED <<patient, row, op, loaded, job, jobText>>

\* The queue cannot be reached; the refresh before made the row current.
EnqueueFails(r) ==
  /\ pc[r] = "queue"
  /\ row' = IF row.exists THEN [row EXCEPT !.status = "failed"] ELSE row
  /\ pc' = [pc EXCEPT ![r] = "failed"]
  /\ UNCHANGED <<patient, op, loaded, job, jobText>>

-----------------------------------------------------------------------------
\* UPDATE scenarios ... WHERE id, whatever the row is by now.
JobReady(r) ==
  /\ job[r] = "queued"
  /\ row' = IF row.exists THEN [row EXCEPT !.prefab = jobText[r], !.status = "ready"] ELSE row
  /\ job' = [job EXCEPT ![r] = "over"]
  /\ UNCHANGED <<patient, pc, op, loaded, jobText>>

\* Wrong on purpose: a job that fails is only logged.
JobFailsSilently(r) ==
  /\ job[r] = "queued"
  /\ job' = [job EXCEPT ![r] = "over"]
  /\ UNCHANGED <<patient, row, pc, op, loaded, jobText>>

\* Too many concurrent jobs, no token budget, an empty result, an error.
JobFails(r) ==
  /\ job[r] = "queued"
  /\ row' = IF row.exists THEN [row EXCEPT !.status = "failed"] ELSE row
  /\ job' = [job EXCEPT ![r] = "over"]
  /\ UNCHANGED <<patient, pc, op, loaded, jobText>>

\* CancelledError is no Exception: only the finally clause runs.
JobCancelled(r) ==
  /\ "cancel" \in Faults
  /\ job[r] = "queued"
  /\ job' = [job EXCEPT ![r] = "cancelled"]
  /\ UNCHANGED <<patient, row, pc, op, loaded, jobText>>

-----------------------------------------------------------------------------
Request(r) ==
  \/ CommitUpdate(r) \/ CommitPending(r) \/ CommitUnpublish(r) \/ CommitDelete(r)
  \/ CommitNothing(r) \/ Enqueue(r) \/ EnqueueFails(r)

Next ==
  \E r \in Req : \/ \E o \in Op : Load(r, o)
                 \/ Request(r)
                 \/ JobReady(r) \/ JobFails(r) \/ JobCancelled(r)

\* Started requests and queued jobs run to their end.
Fairness == \A r \in Req : WF_vars(Request(r)) /\ WF_vars(JobReady(r) \/ JobFails(r))

Spec == Init /\ [][Next]_vars
FairSpec == Spec /\ Fairness

-----------------------------------------------------------------------------
TypeOK ==
  /\ patient \in BOOLEAN /\ row \in Row
  /\ pc \in [Req -> {"idle", "loaded", "queue", "done", "failed", "refused"}]
  /\ op \in [Req -> Op] /\ loaded \in [Req -> Row]
  /\ job \in [Req -> {"none", "queued", "over", "cancelled"}] /\ jobText \in [Req -> 1..MaxText]

(* "ready" is never shown without a prefab to start a session from          *)
(* (models.py, prefab_status), in any interleaving of requests and jobs.    *)
ReadyMeansPrefab == row.exists /\ row.status = "ready" => row.prefab # NoPrefab

Waiting == row.exists /\ row.published /\ row.status = "pending"
Cancelled == \E r \in Req : job[r] = "cancelled"

(* A published scenario that waits for its prefab has a job that will       *)
(* settle it, or a request about to queue one, unless a job was cancelled:  *)
(* it is not "stuck at 'pending' forever with no job ever queued"           *)
(* (main.py, _enqueue_prefab_job).                                          *)
PendingHasJob ==
  Waiting => InFlight # {} \/ Cancelled \/ \E r \in Req : pc[r] = "queue"

(* It does settle, with the same exception.                                 *)
PendingSettles == Waiting ~> (~Waiting \/ Cancelled)

(* When the creator waits for each request and for the job it queued, a     *)
(* prefab is one of the text that is published: no sequence of edits,       *)
(* publishing, retries and unpublishing plays an old text.                  *)
PrefabIsCurrent ==
  patient /\ row.exists /\ row.prefab # NoPrefab => row.published /\ row.prefab = row.text
=============================================================================
