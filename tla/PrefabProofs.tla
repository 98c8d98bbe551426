---------------------------- MODULE PrefabProofs ----------------------------
(***************************************************************************)
(* Prefabs: the scenario that waits for one, and the gate of the jobs that *)
(* build them.                                                             *)
(*                                                                         *)
(* A published scenario that waits for its prefab has a job or a request   *)
(* about to queue one, and a creator who waits for each request and job is *)
(* never served a prefab of another text: for any number of requests.      *)
(* Neither is inductive.  A commit writes only what differs from the row   *)
(* its request loaded, so that what it does depends on what the route      *)
(* demanded of that row; and with a patient creator, whatever is under way *)
(* is alone and has seen the row as it is.                                 *)
(*                                                                         *)
(* No more than PREFAB_MAX prefab jobs call the model at once, however     *)
(* many there are and wherever workers die, and until one dies the counter *)
(* is the number of jobs that hold it; as long as the key outlives the     *)
(* jobs it counts.  That few run is not inductive: a job is admitted on a  *)
(* number it got some time ago.  What is bounded is the set of those that  *)
(* run or hold a number that admits them: when a job gets such a number,   *)
(* it counts all of them.                                                  *)
(***************************************************************************)
EXTENDS ScenarioPublish, PrefabGate, FiniteSetTheorems, TLAPS

-----------------------------------------------------------------------------
(* The scenario.                                                           *)

\* What a request loaded is what its route demands.
LoadedAllowed == \A r \in Req : pc[r] = "loaded" => Allowed(op[r], loaded[r])

UnderWay == Busy \union InFlight

\* A job that is queued was queued by a request that is done.
QueuedIsDone == \A r \in Req : job[r] = "queued" => pc[r] = "done"

\* With a patient creator, one thing is under way at a time ...
OneAtATime == patient => \A r, s \in UnderWay : r = s

\* ... a request commits to the row it loaded ...
LoadedIsRow == patient => \A r \in Req : pc[r] = "loaded" => loaded[r] = row

\* ... and a job, or a request about to queue one, is of a published scenario,
\* the job of its text.
JobIsCurrent ==
  patient /\ row.exists =>
    \A r \in Req : /\ pc[r] = "queue" => row.published
                   /\ job[r] = "queued" => row.published /\ jobText[r] = row.text

Patience == QueuedIsDone /\ OneAtATime /\ LoadedIsRow /\ JobIsCurrent

IInv == TypeOK /\ LoadedAllowed /\ PendingHasJob /\ Patience /\ PrefabIsCurrent

-----------------------------------------------------------------------------
(* At first the scenario is a draft and nothing is under way.               *)
LEMMA InitHolds == Init => IInv
BY MaxTextAssumption
DEF Init, IInv, TypeOK, Row, Prefab, NoPrefab, NewRow, Op, LoadedAllowed, PendingHasJob,
    Waiting, Patience, QueuedIsDone, OneAtATime, UnderWay, Busy, InFlight, LoadedIsRow,
    JobIsCurrent, PrefabIsCurrent

(* A commit writes a row.                                                   *)
LEMMA ChangedRow ==
  ASSUME TypeOK, NEW r \in Req, NEW target \in Row
  PROVE  /\ Changed(r, target) \in Row
         /\ Changed(r, target).text = row.text
         /\ Changed(r, target).exists = row.exists
         /\ Changed(r, target).published \in {row.published, target.published}
         /\ target.published # loaded[r].published
              => Changed(r, target).published = target.published
         /\ target.status # loaded[r].status
              => Changed(r, target).status = target.status
         /\ target.prefab # loaded[r].prefab
              => Changed(r, target).prefab = target.prefab
         /\ loaded[r] = row => /\ Changed(r, target).published = target.published
                               /\ Changed(r, target).prefab = target.prefab
BY DEF Changed, TypeOK, Row

(* Every step is well typed.                                                *)
LEMMA TypeStep == TypeOK /\ [Next]_vars => TypeOK'
<1> SUFFICES ASSUME TypeOK, [Next]_vars PROVE TypeOK' OBVIOUS
<1>1. ASSUME NEW r \in Req, NEW o \in Op, Load(r, o) PROVE TypeOK'
  <2>1. op' \in [Req -> Op] BY <1>1 DEF Load, TypeOK
  <2>2. loaded' \in [Req -> Row] BY <1>1 DEF Load, TypeOK
  <2>3. pc' = [pc EXCEPT ![r] = "loaded"] \/ pc' = [pc EXCEPT ![r] = "refused"]
    BY <1>1 DEF Load
  <2>4. pc' \in [Req -> {"idle", "loaded", "queue", "done", "failed", "refused"}]
    BY <2>3 DEF TypeOK
  <2> QED BY <1>1, <2>1, <2>2, <2>4 DEF Load, TypeOK
<1>2. ASSUME NEW r \in Req, CommitUpdate(r) PROVE TypeOK'
  <2>1. row \in Row /\ row.text + 1 \in 1..MaxText
    BY <1>2, MaxTextAssumption DEF CommitUpdate, TypeOK, Row
  <2>2. row' \in Row BY <1>2, <2>1 DEF CommitUpdate, Row
  <2> QED BY <1>2, <2>2 DEF CommitUpdate, TypeOK
<1>3. ASSUME NEW r \in Req, CommitPending(r) PROVE TypeOK'
  <2>1. [loaded[r] EXCEPT !.published = TRUE, !.status = "pending"] \in Row
    BY DEF TypeOK, Row
  <2>2. row' \in Row BY <1>3, <2>1, ChangedRow DEF CommitPending
  <2> QED BY <1>3, <2>2 DEF CommitPending, TypeOK
<1>4. ASSUME NEW r \in Req, CommitUnpublish(r) PROVE TypeOK'
  <2>1. [loaded[r] EXCEPT !.published = FALSE, !.status = "pending", !.prefab = NoPrefab]
          \in Row
    <3>1. loaded[r] \in Row BY DEF TypeOK
    <3>2. NoPrefab \in Prefab BY MaxTextAssumption DEF Prefab, NoPrefab
    <3> QED BY <3>1, <3>2 DEF Row
  <2>2. row' \in Row BY <1>4, <2>1, ChangedRow DEF CommitUnpublish
  <2> QED BY <1>4, <2>2 DEF CommitUnpublish, TypeOK
<1>5. ASSUME NEW r \in Req, CommitDelete(r) PROVE TypeOK'
  BY <1>5 DEF CommitDelete, TypeOK, Row
<1>6. ASSUME NEW r \in Req, CommitNothing(r) PROVE TypeOK'
  BY <1>6 DEF CommitNothing, TypeOK
<1>7. ASSUME NEW r \in Req, Enqueue(r) PROVE TypeOK'
  <2>1. row.text \in 1..MaxText BY DEF TypeOK, Row
  <2> QED BY <1>7, <2>1 DEF Enqueue, TypeOK
<1>8. ASSUME NEW r \in Req, EnqueueFails(r) PROVE TypeOK'
  <2>1. row' \in Row BY <1>8 DEF EnqueueFails, TypeOK, Row
  <2> QED BY <1>8, <2>1 DEF EnqueueFails, TypeOK
<1>9. ASSUME NEW r \in Req, JobReady(r) PROVE TypeOK'
  <2>1. jobText[r] \in Prefab BY MaxTextAssumption DEF TypeOK, Prefab
  <2>2. row' \in Row BY <1>9, <2>1 DEF JobReady, TypeOK, Row
  <2> QED BY <1>9, <2>2 DEF JobReady, TypeOK
<1>10. ASSUME NEW r \in Req, JobFails(r) PROVE TypeOK'
  <2>1. row' \in Row BY <1>10 DEF JobFails, TypeOK, Row
  <2> QED BY <1>10, <2>1 DEF JobFails, TypeOK
<1>11. ASSUME NEW r \in Req, JobCancelled(r) PROVE TypeOK'
  BY <1>11 DEF JobCancelled, TypeOK
<1>12. CASE UNCHANGED vars BY <1>12 DEF vars, TypeOK
<1> QED
  BY <1>1, <1>2, <1>3, <1>4, <1>5, <1>6, <1>7, <1>8, <1>9, <1>10, <1>11, <1>12
  DEF Next, Request

(* A request that is loaded was let through by its route.                   *)
LEMMA LoadedStep == TypeOK /\ LoadedAllowed /\ [Next]_vars => LoadedAllowed'
<1> SUFFICES ASSUME TypeOK, LoadedAllowed, [Next]_vars PROVE LoadedAllowed' OBVIOUS
<1>1. ASSUME NEW r \in Req, NEW o \in Op, Load(r, o) PROVE LoadedAllowed'
  <2> SUFFICES ASSUME NEW s \in Req, pc'[s] = "loaded" PROVE Allowed(op'[s], loaded'[s])
    BY DEF LoadedAllowed
  <2>1. CASE s = r BY <1>1, <2>1 DEF Load, TypeOK
  <2>2. CASE s # r
    <3>1. pc[s] = "loaded" /\ op'[s] = op[s] /\ loaded'[s] = loaded[s]
      BY <1>1, <2>2 DEF Load, TypeOK
    <3> QED BY <3>1 DEF LoadedAllowed
  <2> QED BY <2>1, <2>2
<1>2. ASSUME UNCHANGED <<op, loaded>>, \A r \in Req : pc'[r] = "loaded" => pc[r] = "loaded"
      PROVE  LoadedAllowed'
  BY <1>2 DEF LoadedAllowed
<1>3. ASSUME NEW r \in Req, Request(r) PROVE LoadedAllowed'
  BY <1>2, <1>3
  DEF TypeOK, Request, CommitUpdate, CommitPending, CommitUnpublish, CommitDelete,
      CommitNothing, Enqueue, EnqueueFails
<1>4. ASSUME NEW r \in Req, JobReady(r) \/ JobFails(r) \/ JobCancelled(r)
      PROVE  LoadedAllowed'
  BY <1>2, <1>4 DEF JobReady, JobFails, JobCancelled
<1>5. CASE UNCHANGED vars BY <1>2, <1>5 DEF vars
<1> QED BY <1>1, <1>3, <1>4, <1>5 DEF Next
-----------------------------------------------------------------------------
(* Waiting for a prefab, there is a job, or a request about to queue one.   *)
LEMMA PendingStep ==
  TypeOK /\ LoadedAllowed /\ PendingHasJob /\ [Next]_vars => PendingHasJob'
<1> SUFFICES ASSUME TypeOK, LoadedAllowed, PendingHasJob, [Next]_vars, Waiting'
             PROVE  InFlight' # {} \/ Cancelled' \/ \E r \in Req : pc'[r] = "queue"
  BY DEF PendingHasJob
\* What neither settles a job nor queues one, and found it waiting.
<1>1. ASSUME Waiting, job' = job, \A r \in Req : pc[r] = "queue" => pc'[r] = "queue"
      PROVE  InFlight' # {} \/ Cancelled' \/ \E r \in Req : pc'[r] = "queue"
  BY <1>1 DEF PendingHasJob, InFlight, Cancelled
<1>2. ASSUME NEW r \in Req, NEW o \in Op, Load(r, o)
      PROVE  InFlight' # {} \/ Cancelled' \/ \E s \in Req : pc'[s] = "queue"
  BY <1>1, <1>2 DEF Load, Waiting, TypeOK
<1>3. ASSUME NEW r \in Req, CommitUpdate(r)
      PROVE  InFlight' # {} \/ Cancelled' \/ \E s \in Req : pc'[s] = "queue"
  <2>1. Waiting BY <1>3 DEF CommitUpdate, Waiting, TypeOK, Row
  <2> QED BY <1>1, <1>3, <2>1 DEF CommitUpdate, TypeOK
<1>4. ASSUME NEW r \in Req, CommitPending(r)
      PROVE  InFlight' # {} \/ Cancelled' \/ \E s \in Req : pc'[s] = "queue"
  <2>1. pc'[r] = "queue" BY <1>4 DEF CommitPending, TypeOK
  <2> QED BY <2>1
<1>5. ASSUME NEW r \in Req, CommitUnpublish(r)
      PROVE  InFlight' # {} \/ Cancelled' \/ \E s \in Req : pc'[s] = "queue"
  <2> DEFINE target == [loaded[r] EXCEPT !.published = FALSE, !.status = "pending",
                                         !.prefab = NoPrefab]
  <2>1. loaded[r] \in Row BY DEF TypeOK
  <2>2. loaded[r].published BY <1>5 DEF CommitUnpublish, LoadedAllowed, Allowed
  <2>3. target.published = FALSE BY <2>1 DEF Row
  <2>4. Changed(r, target).published = FALSE
    <3> HIDE DEF target
    <3> QED BY <2>2, <2>3 DEF Changed, TypeOK, Row
  <2> QED BY <1>5, <2>4 DEF CommitUnpublish, Waiting
<1>6. ASSUME NEW r \in Req, CommitDelete(r)
      PROVE  InFlight' # {} \/ Cancelled' \/ \E s \in Req : pc'[s] = "queue"
  BY <1>6 DEF CommitDelete, Waiting, TypeOK, Row
<1>7. ASSUME NEW r \in Req, CommitNothing(r)
      PROVE  InFlight' # {} \/ Cancelled' \/ \E s \in Req : pc'[s] = "queue"
  BY <1>7 DEF CommitNothing, Waiting
<1>8. ASSUME NEW r \in Req, Enqueue(r)
      PROVE  InFlight' # {} \/ Cancelled' \/ \E s \in Req : pc'[s] = "queue"
  BY <1>8 DEF Enqueue, InFlight, TypeOK
\* A request or a job that settles the row leaves none waiting.
<1>9. ASSUME NEW r \in Req, EnqueueFails(r) \/ JobReady(r) \/ JobFails(r) PROVE FALSE
  BY <1>9 DEF EnqueueFails, JobReady, JobFails, Waiting, TypeOK, Row
<1>10. ASSUME NEW r \in Req, JobCancelled(r) PROVE Cancelled'
  BY <1>10 DEF JobCancelled, Cancelled, TypeOK
<1>11. CASE UNCHANGED vars BY <1>1, <1>11 DEF vars, Waiting
<1> QED
  BY <1>2, <1>3, <1>4, <1>5, <1>6, <1>7, <1>8, <1>9, <1>10, <1>11 DEF Next, Request

-----------------------------------------------------------------------------
(* A queued job is of a request that is done, whatever the creator does.    *)
LEMMA QueuedStep == TypeOK /\ QueuedIsDone /\ [Next]_vars => QueuedIsDone'
<1> SUFFICES ASSUME TypeOK, QueuedIsDone, [Next]_vars PROVE QueuedIsDone' OBVIOUS
<1>1. ASSUME NEW r \in Req, NEW o \in Op, Load(r, o) PROVE QueuedIsDone'
  BY <1>1 DEF Load, QueuedIsDone, TypeOK
<1>2. ASSUME NEW r \in Req, Request(r) PROVE QueuedIsDone'
  BY <1>2
  DEF QueuedIsDone, TypeOK, Request, CommitUpdate, CommitPending, CommitUnpublish,
      CommitDelete, CommitNothing, Enqueue, EnqueueFails
<1>3. ASSUME NEW r \in Req, JobReady(r) \/ JobFails(r) \/ JobCancelled(r)
      PROVE  QueuedIsDone'
  BY <1>3 DEF QueuedIsDone, TypeOK, JobReady, JobFails, JobCancelled
<1>4. CASE UNCHANGED vars BY <1>4 DEF vars, QueuedIsDone
<1> QED BY <1>1, <1>2, <1>3, <1>4 DEF Next

(* A patient creator has one thing under way at a time.                     *)
LEMMA OneStep == TypeOK /\ OneAtATime /\ [Next]_vars => OneAtATime'
<1> SUFFICES ASSUME TypeOK, OneAtATime, [Next]_vars, patient'
             PROVE  \A r, s \in UnderWay' : r = s
  BY DEF OneAtATime
<1>1. patient
  BY DEF Next, Load, Request, CommitUpdate, CommitPending, CommitUnpublish, CommitDelete,
         CommitNothing, Enqueue, EnqueueFails, JobReady, JobFails, JobCancelled, vars
<1>2. ASSUME NEW r \in Req, NEW o \in Op, Load(r, o) PROVE UnderWay' \subseteq {r}
  BY <1>1, <1>2 DEF Load, UnderWay, Busy, InFlight, TypeOK
<1>3. ASSUME NEW r \in Req, Request(r) PROVE UnderWay' \subseteq UnderWay
  BY <1>3
  DEF UnderWay, Busy, InFlight, TypeOK, Request, CommitUpdate, CommitPending,
      CommitUnpublish, CommitDelete, CommitNothing, Enqueue, EnqueueFails
<1>4. ASSUME NEW r \in Req, JobReady(r) \/ JobFails(r) \/ JobCancelled(r)
      PROVE  UnderWay' \subseteq UnderWay
  BY <1>4 DEF UnderWay, Busy, InFlight, TypeOK, JobReady, JobFails, JobCancelled
<1>5. CASE UNCHANGED vars BY <1>1, <1>5 DEF vars, OneAtATime, UnderWay, Busy, InFlight
<1>6. ASSUME UnderWay' \subseteq UnderWay PROVE \A r, s \in UnderWay' : r = s
  BY <1>1, <1>6 DEF OneAtATime
<1> QED BY <1>2, <1>3, <1>4, <1>5, <1>6 DEF Next
(* patient is a constant of a behaviour.                                    *)
LEMMA PatientStep == [Next]_vars => patient' = patient
BY DEF Next, Load, Request, CommitUpdate, CommitPending, CommitUnpublish, CommitDelete,
       CommitNothing, Enqueue, EnqueueFails, JobReady, JobFails, JobCancelled, vars

(* What a request or a job of a patient creator does, it does alone.        *)
LEMMA Alone ==
  ASSUME TypeOK, Patience, patient, NEW r \in Req, NEW s \in Req, s # r,
         Request(r) \/ job[r] = "queued"
  PROVE  pc[s] \notin {"loaded", "queue"} /\ job[s] # "queued"
<1>1. pc[r] \in {"loaded", "queue"} \/ job[r] = "queued"
  BY DEF Request, CommitUpdate, CommitPending, CommitUnpublish, CommitDelete, CommitNothing,
         Enqueue, EnqueueFails
<1>2. r \in UnderWay BY <1>1 DEF UnderWay, Busy, InFlight
<1>3. s \notin UnderWay BY <1>2 DEF Patience, OneAtATime
<1> QED BY <1>3 DEF UnderWay, Busy, InFlight

(* A request of a patient creator commits to the row it loaded.             *)
LEMMA LoadedIsRowStep == TypeOK /\ Patience /\ [Next]_vars => LoadedIsRow'
<1> SUFFICES ASSUME TypeOK, Patience, [Next]_vars, patient, NEW s \in Req, pc'[s] = "loaded"
             PROVE  loaded'[s] = row'
  BY PatientStep DEF LoadedIsRow
<1>1. ASSUME NEW r \in Req, NEW o \in Op, Load(r, o) PROVE loaded'[s] = row'
  <2>1. s = r BY <1>1 DEF Load, Busy, TypeOK
  <2> QED BY <1>1, <2>1 DEF Load, TypeOK
<1>2. ASSUME NEW r \in Req, Request(r) PROVE FALSE
  <2>1. pc'[r] # "loaded" /\ (s # r => pc'[s] = pc[s])
    BY <1>2
    DEF TypeOK, Request, CommitUpdate, CommitPending, CommitUnpublish, CommitDelete,
        CommitNothing, Enqueue, EnqueueFails
  <2> QED BY <1>2, <2>1, Alone
<1>3. ASSUME NEW r \in Req, JobReady(r) \/ JobFails(r) \/ JobCancelled(r) PROVE FALSE
  <2>1. job[r] = "queued" /\ pc' = pc BY <1>3 DEF JobReady, JobFails, JobCancelled
  <2>2. s # r BY <2>1 DEF Patience, QueuedIsDone
  <2> QED BY <2>1, <2>2, Alone
<1>4. CASE UNCHANGED vars BY <1>4 DEF vars, Patience, LoadedIsRow
<1> QED BY <1>1, <1>2, <1>3, <1>4 DEF Next

(* What a request of a patient creator commits, it commits to the row.      *)
LEMMA PatientChanged ==
  ASSUME TypeOK, Patience, patient, NEW r \in Req, pc[r] = "loaded"
  PROVE  /\ loaded[r] = row
         /\ CommitPending(r) => /\ row'.published
                                /\ row'.prefab = row.prefab /\ row'.text = row.text
                                /\ row'.exists = row.exists
         /\ CommitUnpublish(r) => row'.prefab = NoPrefab
<1>1. loaded[r] = row /\ row \in Row BY DEF Patience, LoadedIsRow, TypeOK
<1>2. ASSUME CommitPending(r)
      PROVE  /\ row'.published
             /\ row'.prefab = row.prefab /\ row'.text = row.text /\ row'.exists = row.exists
  <2> DEFINE target == [loaded[r] EXCEPT !.published = TRUE, !.status = "pending"]
  <2>1. target \in Row /\ target.published = TRUE /\ target.prefab = row.prefab
    BY <1>1 DEF Row
  <2>2. row' = Changed(r, target) BY <1>2 DEF CommitPending
  <2> HIDE DEF target
  <2> QED BY <1>1, <2>1, <2>2, ChangedRow
<1>3. ASSUME CommitUnpublish(r) PROVE row'.prefab = NoPrefab
  <2> DEFINE target == [loaded[r] EXCEPT !.published = FALSE, !.status = "pending",
                                         !.prefab = NoPrefab]
  <2>1. NoPrefab \in Prefab BY MaxTextAssumption DEF Prefab, NoPrefab
  <2>2. target \in Row /\ target.prefab = NoPrefab BY <1>1, <2>1 DEF Row
  <2>3. row' = Changed(r, target) BY <1>3 DEF CommitUnpublish
  <2> HIDE DEF target
  <2> QED BY <1>1, <2>2, <2>3, ChangedRow
<1> QED BY <1>1, <1>2, <1>3

(* A job of a patient creator is of the text that is published.             *)
LEMMA JobIsCurrentStep == TypeOK /\ Patience /\ [Next]_vars => JobIsCurrent'
<1> SUFFICES ASSUME TypeOK, Patience, [Next]_vars, patient, row'.exists, NEW s \in Req
             PROVE  /\ pc'[s] = "queue" => row'.published
                    /\ job'[s] = "queued" => row'.published /\ jobText'[s] = row'.text
  BY PatientStep DEF JobIsCurrent
<1> DEFINE Goal == /\ pc'[s] = "queue" => row'.published
                   /\ job'[s] = "queued" => row'.published /\ jobText'[s] = row'.text
<1>1. ASSUME NEW r \in Req, NEW o \in Op, Load(r, o) PROVE Goal
  BY <1>1 DEF Load, Busy, InFlight, TypeOK
<1>2. ASSUME NEW r \in Req, Request(r) PROVE Goal
  <2>1. CASE s # r
    <3>1. pc'[s] = pc[s] /\ job'[s] = job[s]
      BY <1>2, <2>1
      DEF TypeOK, Request, CommitUpdate, CommitPending, CommitUnpublish, CommitDelete,
          CommitNothing, Enqueue, EnqueueFails
    <3> QED BY <1>2, <2>1, <3>1, Alone
  <2>2. CASE s = r
    <3>1. CASE CommitPending(r)
      <4>1. pc[r] = "loaded" /\ job' = job BY <3>1 DEF CommitPending
      <4>2. row'.published BY <3>1, <4>1, PatientChanged
      <4>3. job[r] # "queued" BY <4>1 DEF Patience, QueuedIsDone
      <4> QED BY <2>2, <4>1, <4>2, <4>3
    <3>2. CASE Enqueue(r)
      <4>1. row.published BY <3>2 DEF Enqueue, Patience, JobIsCurrent
      <4> QED BY <2>2, <3>2, <4>1 DEF Enqueue, TypeOK
    <3>3. CASE \/ CommitUpdate(r) \/ CommitUnpublish(r) \/ CommitDelete(r)
               \/ CommitNothing(r) \/ EnqueueFails(r)
      <4>1. pc[r] \in {"loaded", "queue"} /\ pc'[r] # "queue" /\ job' = job
        BY <3>3
        DEF TypeOK, CommitUpdate, CommitUnpublish, CommitDelete, CommitNothing, EnqueueFails
      <4>2. job[r] # "queued" BY <4>1 DEF Patience, QueuedIsDone
      <4> QED BY <2>2, <4>1, <4>2
    <3> QED BY <1>2, <3>1, <3>2, <3>3 DEF Request
  <2> QED BY <2>1, <2>2
<1>3. ASSUME NEW r \in Req, JobReady(r) \/ JobFails(r) \/ JobCancelled(r) PROVE Goal
  <2>1. job[r] = "queued" /\ pc' = pc BY <1>3 DEF JobReady, JobFails, JobCancelled
  <2>2. pc[r] = "done" BY <2>1 DEF Patience, QueuedIsDone
  <2>3. job'[r] # "queued" /\ (s # r => job'[s] = job[s])
    BY <1>3 DEF JobReady, JobFails, JobCancelled, TypeOK
  <2>4. s # r => pc[s] # "queue" /\ job[s] # "queued" BY <2>1, Alone
  <2> QED BY <2>1, <2>2, <2>3, <2>4
<1>4. CASE UNCHANGED vars BY <1>4 DEF vars, Patience, JobIsCurrent
<1> QED BY <1>1, <1>2, <1>3, <1>4 DEF Next

(* The prefab of a patient creator's scenario is of the text published.     *)
LEMMA PrefabStep ==
  TypeOK /\ LoadedAllowed /\ Patience /\ PrefabIsCurrent /\ [Next]_vars => PrefabIsCurrent'
<1> SUFFICES ASSUME TypeOK, LoadedAllowed, Patience, PrefabIsCurrent, [Next]_vars, patient,
                    row'.exists, row'.prefab # NoPrefab
             PROVE  row'.published /\ row'.prefab = row'.text
  BY PatientStep DEF PrefabIsCurrent
<1> DEFINE Goal == row'.published /\ row'.prefab = row'.text
<1>1. ASSUME row' = row PROVE Goal BY <1>1 DEF PrefabIsCurrent
<1>2. ASSUME NEW r \in Req, CommitUpdate(r) PROVE Goal
  <2>1. loaded[r] = row BY <1>2 DEF CommitUpdate, Patience, LoadedIsRow
  <2>2. ~row.published BY <1>2, <2>1 DEF CommitUpdate, LoadedAllowed, Allowed
  <2>3. row'.prefab = row.prefab BY <1>2 DEF CommitUpdate, TypeOK, Row
  <2> QED BY <1>2, <2>2, <2>3 DEF CommitUpdate, PrefabIsCurrent
<1>3. ASSUME NEW r \in Req, CommitPending(r) PROVE Goal
  <2>1. pc[r] = "loaded" BY <1>3 DEF CommitPending
  <2> QED BY <1>3, <2>1, PatientChanged DEF PrefabIsCurrent
<1>4. ASSUME NEW r \in Req, CommitUnpublish(r) PROVE FALSE
  <2>1. pc[r] = "loaded" BY <1>4 DEF CommitUnpublish
  <2> QED BY <1>4, <2>1, PatientChanged
<1>5. ASSUME NEW r \in Req, CommitDelete(r) PROVE FALSE
  BY <1>5 DEF CommitDelete, TypeOK, Row
<1>6. ASSUME NEW r \in Req, EnqueueFails(r) \/ JobFails(r) PROVE Goal
  BY <1>6 DEF EnqueueFails, JobFails, PrefabIsCurrent, TypeOK, Row
<1>7. ASSUME NEW r \in Req, JobReady(r) PROVE Goal
  <2>1. row' = [row EXCEPT !.prefab = jobText[r], !.status = "ready"] /\ row.exists
    BY <1>7 DEF JobReady
  <2>2. row.published /\ jobText[r] = row.text
    BY <1>7, <2>1 DEF JobReady, Patience, JobIsCurrent
  <2> QED BY <2>1, <2>2 DEF TypeOK, Row
<1>8. ASSUME NEW r \in Req,
             \/ CommitNothing(r) \/ Enqueue(r) \/ JobCancelled(r)
             \/ \E o \in Op : Load(r, o)
      PROVE  Goal
  BY <1>1, <1>8 DEF CommitNothing, Enqueue, JobCancelled, Load
<1>9. CASE UNCHANGED vars BY <1>1, <1>9 DEF vars
<1> QED
  BY <1>2, <1>3, <1>4, <1>5, <1>6, <1>7, <1>8, <1>9 DEF Next, Request

-----------------------------------------------------------------------------
LEMMA Invariance == Spec => []IInv
<1>1. Init => IInv BY InitHolds
<1>2. IInv /\ [Next]_vars => IInv'
  BY TypeStep, LoadedStep, PendingStep, QueuedStep, OneStep, LoadedIsRowStep,
     JobIsCurrentStep, PrefabStep
  DEF IInv, Patience
<1> QED BY <1>1, <1>2, PTL DEF Spec

(* Every state of the scenarios is well typed, for any requests and texts.  *)
THEOREM Types == Spec => []TypeOK
<1>1. IInv => TypeOK BY DEF IInv
<1> QED BY <1>1, Invariance, PTL

(* A published scenario whose prefab is pending has a job that will settle  *)
(* it, or a request about to queue one, unless arq cancelled a job          *)
(* (_enqueue_prefab_job, prefab_engine_job).                                *)
THEOREM Pending == Spec => []PendingHasJob
<1>1. IInv => PendingHasJob BY DEF IInv
<1> QED BY <1>1, Invariance, PTL

(* A creator who waits for each request and its job has no prefab but of    *)
(* the text that is published (publish_scenario, unpublish_scenario).       *)
THEOREM Current == Spec => []PrefabIsCurrent
<1>1. IInv => PrefabIsCurrent BY DEF IInv
<1> QED BY <1>1, Invariance, PTL

-----------------------------------------------------------------------------
(* The gate.                                                               *)

\* The jobs that run, ran, or will be admitted.
Holding ==
  {j \in Job : \/ stage[j] \in {"running", "ending"}
               \/ stage[j] \in {"expire", "check"} /\ seen[j] <= PrefabMax}

\* No job that counts is forgotten, though the dead may count too.
CountCovers == Cardinality(Counted) <= count

FewHold == Cardinality(Holding) <= PrefabMax

GateInv == GateTypeOK /\ CountCovers /\ FewHold /\ CounterExact

-----------------------------------------------------------------------------
(* What one step does to a set of jobs, it does to its size.                *)
LEMMA JobSizes ==
  ASSUME IsFiniteSet(Job), NEW S \in SUBSET Job
  PROVE  /\ IsFiniteSet(S) /\ Cardinality(S) \in Nat
         /\ \A T \in SUBSET S : Cardinality(T) <= Cardinality(S)
         /\ \A j \in Job \ S : Cardinality(S \union {j}) = Cardinality(S) + 1
         /\ \A j \in S : Cardinality(S \ {j}) = Cardinality(S) - 1
<1>1. IsFiniteSet(S) BY FS_Subset
<1>2. Cardinality(S) \in Nat BY <1>1, FS_CardinalityType
<1>3. \A T \in SUBSET S : Cardinality(T) <= Cardinality(S) BY <1>1, FS_Subset
<1>4. \A j \in Job \ S : Cardinality(S \union {j}) = Cardinality(S) + 1
  BY <1>1, FS_AddElement
<1>5. \A j \in S : Cardinality(S \ {j}) = Cardinality(S) - 1
  BY <1>1, FS_RemoveElement
<1> QED BY <1>1, <1>2, <1>3, <1>4, <1>5

(* At first nobody counts and nobody holds.                                 *)
LEMMA GateInvHolds == GateInit => GateInv
<1> SUFFICES ASSUME GateInit PROVE GateInv OBVIOUS
<1>1. GateTypeOK BY DEF GateInit, GateTypeOK, PC
<1>2. Counted = {} /\ Holding = {} BY DEF GateInit, Counted, Holding
<1>3. Cardinality({}) = 0 BY FS_EmptySet
<1> QED
  BY <1>1, <1>2, <1>3, PrefabMaxAssumption
  DEF GateInv, CountCovers, FewHold, CounterExact, GateInit

(* Every step is well typed.                                                *)
LEMMA GateTypes == GateTypeOK /\ [GateNext]_gateVars => GateTypeOK'
<1> SUFFICES ASSUME GateTypeOK, [GateNext]_gateVars PROVE GateTypeOK' OBVIOUS
<1> USE DEF GateTypeOK, PC
<1>1. CASE Expire BY <1>1 DEF Expire
<1>2. ASSUME NEW j \in Job, Increment(j) PROVE GateTypeOK' BY <1>2 DEF Increment
<1>3. ASSUME NEW j \in Job, SetTTL(j) PROVE GateTypeOK' BY <1>3 DEF SetTTL
<1>4. ASSUME NEW j \in Job, Admit(j) PROVE GateTypeOK' BY <1>4 DEF Admit
<1>5. ASSUME NEW j \in Job, Skip(j) PROVE GateTypeOK' BY <1>5 DEF Skip, Decremented
<1>6. ASSUME NEW j \in Job, Finish(j) PROVE GateTypeOK' BY <1>6 DEF Finish
<1>7. ASSUME NEW j \in Job, Leave(j) PROVE GateTypeOK' BY <1>7 DEF Leave, Decremented
<1>8. ASSUME NEW j \in Job, Die(j) PROVE GateTypeOK' BY <1>8 DEF Die
<1>9. CASE UNCHANGED gateVars BY <1>9 DEF gateVars
<1> QED
  BY <1>1, <1>2, <1>3, <1>4, <1>5, <1>6, <1>7, <1>8, <1>9 DEF GateNext, JobStep

\* A step that counts nobody new and gives no number: some may go.
Leaves ==
  /\ Counted' \subseteq Counted /\ Holding' \subseteq Holding
  /\ Cardinality(Counted') <= count'
  /\ (\A j \in Job : stage'[j] # "dead") => count' = Cardinality(Counted')

(* Such a step preserves the invariant.                                     *)
LEMMA LeavesStep ==
  ASSUME IsFiniteSet(Job), GateInv, GateTypeOK', Leaves
  PROVE  GateInv'
<1>1. Holding \in SUBSET Job /\ Holding' \in SUBSET Job BY DEF Holding
<1>2. Cardinality(Holding') <= Cardinality(Holding) BY <1>1, JobSizes DEF Leaves
<1>3. Cardinality(Holding) \in Nat /\ Cardinality(Holding') \in Nat BY <1>1, JobSizes
<1>4. FewHold' BY <1>2, <1>3, PrefabMaxAssumption DEF GateInv, FewHold
<1> QED BY <1>4 DEF Leaves, GateInv, CountCovers, CounterExact

(* A job that starts counts itself, and may get a number that admits it.    *)
LEMMA IncrementStep ==
  ASSUME IsFiniteSet(Job), GateInv, GateTypeOK', NEW j \in Job, Increment(j)
  PROVE  GateInv'
<1>1. /\ stage[j] = "idle" /\ count' = count + 1 /\ count \in Int
      /\ stage'[j] \in {"expire", "check"} /\ seen'[j] = count + 1
      /\ \A i \in Job \ {j} : stage'[i] = stage[i] /\ seen'[i] = seen[i]
  BY DEF Increment, GateInv, GateTypeOK
<1>2. j \in Job \ Counted /\ Counted' = Counted \union {j} /\ Counted \in SUBSET Job
  BY <1>1 DEF Counted
<1>3. /\ Cardinality(Counted') = Cardinality(Counted) + 1
      /\ Cardinality(Counted) \in Nat
  BY <1>2, JobSizes
<1>4. CountCovers' BY <1>1, <1>3 DEF GateInv, CountCovers
<1>5. CounterExact'
  <2> SUFFICES ASSUME \A i \in Job : stage'[i] # "dead" PROVE count' = Cardinality(Counted')
    BY DEF CounterExact
  <2>1. \A i \in Job : stage[i] # "dead" BY <1>1
  <2> QED BY <1>1, <1>3, <2>1 DEF GateInv, CounterExact
<1>6. FewHold'
  <2>1. CASE count + 1 <= PrefabMax
    <3>1. Holding' \in SUBSET Counted' /\ Counted' \in SUBSET Job
      BY DEF Holding, Counted
    <3>2. Cardinality(Holding') <= Cardinality(Counted') BY <3>1, JobSizes
    <3>3. Cardinality(Holding') \in Nat BY <3>1, JobSizes
    <3>4. Cardinality(Counted') <= count + 1 BY <1>1, <1>3 DEF GateInv, CountCovers
    <3> QED BY <1>1, <1>3, <2>1, <3>2, <3>3, <3>4, PrefabMaxAssumption DEF FewHold
  <2>2. CASE ~(count + 1 <= PrefabMax)
    <3>1. Holding' = Holding BY <1>1, <2>2 DEF Holding
    <3> QED BY <3>1 DEF GateInv, FewHold
  <2> QED BY <2>1, <2>2
<1> QED BY <1>4, <1>5, <1>6 DEF GateInv

(* DECR takes the job's count away with the job.                            *)
LEMMA DecrementLeaves ==
  ASSUME IsFiniteSet(Job), GateInv, NEW j \in Job, Skip(j) \/ Leave(j)
  PROVE  Leaves
<1>1. /\ stage[j] \in {"over", "ending"} /\ count' = count - 1 /\ count \in Int
      /\ stage'[j] \in {"skipped", "done"} /\ seen' = seen
      /\ \A i \in Job \ {j} : stage'[i] = stage[i]
  BY DEF Skip, Leave, Decremented, GateInv, GateTypeOK
<1>2. j \in Counted /\ Counted' = Counted \ {j} /\ Counted \in SUBSET Job
  BY <1>1 DEF Counted
<1>3. /\ Cardinality(Counted') = Cardinality(Counted) - 1
      /\ Cardinality(Counted) \in Nat
  BY <1>2, JobSizes
<1>4. Holding' \subseteq Holding BY <1>1 DEF Holding
<1>5. Cardinality(Counted') <= count' BY <1>1, <1>3 DEF GateInv, CountCovers
<1>6. ASSUME \A i \in Job : stage'[i] # "dead" PROVE count' = Cardinality(Counted')
  <2>1. \A i \in Job : stage[i] # "dead" BY <1>1, <1>6
  <2> QED BY <1>1, <1>3, <2>1 DEF GateInv, CounterExact
<1> QED BY <1>2, <1>4, <1>5, <1>6 DEF Leaves

(* Between INCR and DECR, a job moves on and keeps its count.               *)
LEMMA MoveLeaves ==
  ASSUME GateInv, NEW j \in Job, SetTTL(j) \/ Admit(j) \/ Finish(j)
  PROVE  Leaves
<1>1. /\ count' = count /\ seen' = seen
      /\ \A i \in Job \ {j} : stage'[i] = stage[i]
      /\ stage[j] # "dead" /\ stage'[j] # "dead"
      /\ \/ stage[j] = "expire" /\ stage'[j] = "check"
         \/ stage[j] = "check" /\ stage'[j] = "over"
         \/ stage[j] = "check" /\ stage'[j] = "running" /\ ~(seen[j] > PrefabMax)
         \/ stage[j] = "running" /\ stage'[j] = "ending"
      /\ seen[j] \in Int
  BY DEF SetTTL, Admit, Finish, GateInv, GateTypeOK
<1>2. Counted' = Counted BY <1>1 DEF Counted
<1>3. Holding' \subseteq Holding BY <1>1, PrefabMaxAssumption DEF Holding
<1>4. ASSUME \A i \in Job : stage'[i] # "dead" PROVE count' = Cardinality(Counted')
  <2>1. \A i \in Job : stage[i] # "dead" BY <1>1, <1>4
  <2> QED BY <1>1, <1>2, <2>1 DEF GateInv, CounterExact
<1> QED BY <1>1, <1>2, <1>3, <1>4 DEF Leaves, GateInv, CountCovers

(* A job that dies leaves its count behind.                                 *)
LEMMA DieLeaves ==
  ASSUME IsFiniteSet(Job), GateInv, NEW j \in Job, Die(j)
  PROVE  Leaves
<1>1. /\ count' = count /\ seen' = seen /\ stage'[j] = "dead" /\ count \in Int
      /\ \A i \in Job \ {j} : stage'[i] = stage[i]
  BY DEF Die, GateInv, GateTypeOK
<1>2. Counted' \in SUBSET Counted /\ Counted \in SUBSET Job BY <1>1 DEF Counted
<1>3. Holding' \subseteq Holding BY <1>1 DEF Holding
<1>4. /\ Cardinality(Counted') <= Cardinality(Counted) /\ Cardinality(Counted) \in Nat
  BY <1>2, JobSizes
<1>5. Cardinality(Counted') \in Nat
  <2>1. Counted' \in SUBSET Job BY DEF Counted
  <2> QED BY <2>1, JobSizes
<1>6. Cardinality(Counted') <= count' BY <1>1, <1>4, <1>5 DEF GateInv, CountCovers
<1> QED BY <1>1, <1>2, <1>3, <1>6 DEF Leaves

(* The key expires when nobody counts.                                      *)
LEMMA ExpireLeaves ==
  ASSUME "early" \notin GateFaults, Expire
  PROVE  Leaves
<1>1. Counted = {} /\ count' = 0 /\ stage' = stage /\ seen' = seen BY DEF Expire
<1>2. Counted' = {} /\ Holding' = Holding BY <1>1 DEF Counted, Holding
<1>3. Cardinality({}) = 0 BY FS_EmptySet
<1> QED BY <1>1, <1>2, <1>3 DEF Leaves

(* Every step preserves the invariant.                                      *)
LEMMA GateStep ==
  ASSUME IsFiniteSet(Job), "early" \notin GateFaults, GateInv, [GateNext]_gateVars
  PROVE  GateInv'
<1>1. GateTypeOK' BY GateTypes DEF GateInv
<1>2. CASE Expire BY <1>1, <1>2, ExpireLeaves, LeavesStep
<1>3. ASSUME NEW j \in Job, Increment(j) PROVE GateInv' BY <1>1, <1>3, IncrementStep
<1>4. ASSUME NEW j \in Job, SetTTL(j) \/ Admit(j) \/ Finish(j) PROVE GateInv'
  BY <1>1, <1>4, MoveLeaves, LeavesStep
<1>5. ASSUME NEW j \in Job, Skip(j) \/ Leave(j) PROVE GateInv'
  BY <1>1, <1>5, DecrementLeaves, LeavesStep
<1>6. ASSUME NEW j \in Job, Die(j) PROVE GateInv' BY <1>1, <1>6, DieLeaves, LeavesStep
<1>7. CASE UNCHANGED gateVars
  BY <1>7
  DEF gateVars, GateInv, GateTypeOK, CountCovers, FewHold, CounterExact, Counted, Holding
<1> QED BY <1>2, <1>3, <1>4, <1>5, <1>6, <1>7 DEF GateNext, JobStep

(* In every state, as long as the key outlives the jobs it counts.          *)
LEMMA GateInvariance ==
  ASSUME IsFiniteSet(Job), "early" \notin GateFaults
  PROVE  GateSpec => []GateInv
<1>1. GateInit => GateInv BY GateInvHolds
<1>2. GateInv /\ [GateNext]_gateVars => GateInv' BY GateStep
<1> QED BY <1>1, <1>2, PTL DEF GateSpec

(* Every state of the gate is well typed, whatever expires and whoever      *)
(* dies, for any jobs; a decrement that finds the key gone makes it anew,   *)
(* below zero and without a TTL (prefab_engine_job).                        *)
THEOREM GateTypesHold == GateSpec => []GateTypeOK
<1>1. GateInit => GateTypeOK BY DEF GateInit, GateTypeOK, PC
<1> QED BY <1>1, GateTypes, PTL DEF GateSpec

(* However many prefab jobs start, in whatever order, and wherever workers  *)
(* die, no more than PREFAB_MAX of them call the model at once.             *)
THEOREM Gate ==
  ASSUME IsFiniteSet(Job), "early" \notin GateFaults
  PROVE  GateSpec => []GateHolds
<1>1. GateInv => GateHolds
  <2> SUFFICES ASSUME GateInv PROVE GateHolds OBVIOUS
  <2>1. Running \in SUBSET Holding /\ Holding \in SUBSET Job /\ Running \in SUBSET Job
    BY DEF Running, Holding
  <2>2. Cardinality(Running) <= Cardinality(Holding) BY <2>1, JobSizes
  <2>3. Cardinality(Running) \in Nat /\ Cardinality(Holding) \in Nat BY <2>1, JobSizes
  <2> QED BY <2>2, <2>3, PrefabMaxAssumption DEF GateInv, FewHold, GateHolds
<1> QED BY <1>1, GateInvariance, PTL

(* Until a job dies, the counter is the number of jobs that hold it,        *)
(* whoever was turned away.                                                 *)
THEOREM Counter ==
  ASSUME IsFiniteSet(Job), "early" \notin GateFaults
  PROVE  GateSpec => []CounterExact
<1>1. GateInv => CounterExact BY DEF GateInv
<1> QED BY <1>1, GateInvariance, PTL

\* A key that holds a count exists, and the job that made it will set its TTL.
KeyTimed ==
  /\ key = "absent" => count = 0
  /\ key = "forever" => \E j \in Job : stage[j] = "expire"

(* That is so as long as no worker dies between INCR and EXPIRE: a key is   *)
(* made by the increment that sets its TTL, never by a decrement, as who    *)
(* decrements is counted.                                                   *)
LEMMA KeyTimedStep ==
  ASSUME IsFiniteSet(Job), "early" \notin GateFaults, "gap" \notin GateFaults,
         GateInv, KeyTimed, [GateNext]_gateVars
  PROVE  KeyTimed'
<1> USE DEF KeyTimed, PC
<1>1. GateTypeOK BY DEF GateInv
<1>2. ASSUME NEW j \in Counted PROVE key # "absent"
  <2>1. Counted \in SUBSET Job BY DEF Counted
  <2>2. Cardinality(Counted \ {j}) = Cardinality(Counted) - 1 BY <2>1, JobSizes
  <2>3. Counted \ {j} \in SUBSET Job BY <2>1
  <2>4. Cardinality(Counted \ {j}) \in Nat /\ Cardinality(Counted) \in Nat
    BY <2>1, <2>3, JobSizes
  <2>5. Cardinality(Counted) > 0 BY <2>2, <2>4
  <2>6. count \in Int /\ Cardinality(Counted) <= count
    BY <1>1 DEF GateTypeOK, GateInv, CountCovers
  <2> QED BY <2>4, <2>5, <2>6
<1>3. CASE Expire BY <1>3 DEF Expire
<1>4. ASSUME NEW j \in Job, Increment(j) PROVE KeyTimed'
  BY <1>1, <1>4 DEF Increment, GateTypeOK
<1>5. ASSUME NEW j \in Job, SetTTL(j) PROVE KeyTimed'
  <2>1. j \in Counted BY <1>5 DEF SetTTL, Counted
  <2> QED BY <1>2, <1>5, <2>1 DEF SetTTL
<1>6. ASSUME NEW j \in Job, Skip(j) \/ Leave(j) PROVE KeyTimed'
  <2>1. j \in Counted BY <1>6 DEF Skip, Leave, Counted
  <2>2. key # "absent" BY <1>2, <2>1
  <2>3. /\ key' = key /\ stage[j] # "expire"
        /\ \A i \in Job \ {j} : stage'[i] = stage[i]
    BY <1>1, <1>6, <2>2 DEF Skip, Leave, Decremented, GateTypeOK
  <2> QED BY <2>2, <2>3
<1>7. ASSUME NEW j \in Job, Admit(j) \/ Finish(j) \/ Die(j) PROVE KeyTimed'
  <2>1. /\ key' = key /\ count' = count /\ stage[j] # "expire"
        /\ \A i \in Job \ {j} : stage'[i] = stage[i]
    BY <1>1, <1>7 DEF Admit, Finish, Die, GateTypeOK
  <2> QED BY <2>1
<1>8. CASE UNCHANGED gateVars BY <1>8 DEF gateVars
<1> QED BY <1>3, <1>4, <1>5, <1>6, <1>7, <1>8 DEF GateNext, JobStep

(* A key that counts jobs which no longer run has a TTL, or a live job is   *)
(* about to set it, so that what the dead leave is dropped (prefab_engine_job). *)
THEOREM Leak ==
  ASSUME IsFiniteSet(Job), "early" \notin GateFaults, "gap" \notin GateFaults
  PROVE  GateSpec => []LeakHasTTL
<1>1. GateInit => GateInv /\ KeyTimed BY GateInvHolds DEF GateInit, KeyTimed
<1>2. (GateInv /\ KeyTimed) /\ [GateNext]_gateVars => (GateInv /\ KeyTimed)'
  BY GateStep, KeyTimedStep
<1>3. GateInv /\ KeyTimed => LeakHasTTL
  <2> SUFFICES ASSUME GateInv, KeyTimed, Counted = {}, count > 0
               PROVE  key = "ttl"
    BY DEF LeakHasTTL
  <2>1. key # "forever" BY DEF KeyTimed, Counted
  <2> QED BY <2>1 DEF KeyTimed, GateInv, GateTypeOK
<1> QED BY <1>1, <1>2, <1>3, PTL DEF GateSpec
=============================================================================
