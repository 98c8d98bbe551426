---------------------------- MODULE SessionTurns ----------------------------
(***************************************************************************)
(* One play session, as backend/main.py and backend/worker.py run it.      *)
(*                                                                         *)
(* The session lives in Redis under session:{id} (ctx below); a turn is    *)
(* guarded by lock:session:{id}; after each turn the conversation is       *)
(* checkpointed to the Postgres table session_logs (log).  Turn requests,  *)
(* the request that ends the session, the worker's init job and scenario   *)
(* deletion run concurrently: every step below is what one of them does    *)
(* between two awaits.                                                     *)
(*                                                                         *)
(* A conversation is the sequence of the contents of its turns, and the    *)
(* content a request produces is the request itself.  The lock's value is  *)
(* "1" in the code; here it names the request that set it, which no guard  *)
(* of the code may look at: they only compare it with Free.                *)
(***************************************************************************)
EXTENDS Naturals, Sequences

CONSTANTS Req,        \* turn requests, each sent at most once
          Old,        \* content of the session being resumed
          Free,       \* lock:session:{id} does not exist
          Modes,      \* the routes the requests use
          Faults      \* what the environment may do besides running the code

AllModes == {"turn", "continue", "regenerate", "stream"}

\* lease   the lock key disappears (120 s TTL) under a running turn
\* crash   a turn's request stops between two awaits, its finally not run
\* dbfail  a Postgres commit fails
\* evict   the session key disappears (12 h TTL, allkeys-lru)
\* timeout arq cancels the init job (job_timeout), which except Exception
\*         does not catch
\* rerun   arq runs the init job a second time (worker killed before the
\*         job's result was recorded)
FaultKinds == {"lease", "crash", "dbfail", "evict", "timeout", "rerun"}

ASSUME FreshNames == Old \notin Req /\ Free \notin Req
ASSUME ModesAssumption == Modes \subseteq AllModes
ASSUME FaultsAssumption == Faults \subseteq FaultKinds

Content == Req \union {Old}
Conversation == Seq(Content)
Status == {"none", "initializing", "ready", "error"}

\* States of a turn request.  "unlock", "abort" and "torn" are the finally
\* clause reached with a result, with an exception, and with the exception of a
\* commit after Redis was written; "done", "failed" and "half" are what follows.
PC == {"idle", "acquire", "engine", "checkpoint", "count", "unlock", "abort",
       "torn", "done", "failed", "half", "gone"}
InTurn == {"engine", "checkpoint", "count", "unlock", "abort", "torn"}

VARIABLES
  ctx,      \* session:{id} -- [status, conv]; status "none": no such key
  tracked,  \* the session is in scenario_sessions:{scenario_id}
  lock,     \* lock:session:{id}
  log,      \* the session_logs row -- [state, conv]; ended: ended_at is set;
            \* void: ended without an engine state
  plays,    \* Scenario.plays_count
  scenario, \* the Scenario row: "there", "gone", or "purged" (being deleted: its
            \* sessions are gone, the row is not yet)
  preview,  \* a draft preview: never logged or counted
  base,     \* the conversation the session resumes
  init,     \* the session's creation and init job
  got,      \* the session as the init job read it
  pc, mode, snap,    \* of each request: state, route, conversation read
  ending, endctx     \* of DELETE /sessions/{id}: state, session read

sessionVars == <<tracked, scenario, preview, base>>
turnVars == <<pc, mode, snap>>
endVars == <<ending, endctx>>
initVars == <<init, got>>
vars == <<ctx, lock, log, plays, sessionVars, turnVars, endVars, initVars>>

NoSession == [status |-> "none", conv |-> <<>>]
NoLog == [state |-> "none", conv |-> <<>>]
Ready(c) == [status |-> "ready", conv |-> c]

Init ==
  /\ ctx = NoSession /\ lock = Free /\ log = NoLog /\ plays = 0
  /\ tracked = FALSE /\ scenario = "there"
  /\ preview \in BOOLEAN /\ base \in {<<>>, <<Old>>}
  /\ preview => base = <<>>
  /\ init = "none" /\ got = NoSession
  /\ pc = [r \in Req |-> "idle"]
  /\ mode = [r \in Req |-> "turn"]
  /\ snap = [r \in Req |-> <<>>]
  /\ ending = "idle" /\ endctx = NoSession

-----------------------------------------------------------------------------
(* create_session and init_engine_job.                                     *)

\* The placeholder and the set of the scenario's sessions; the scenario and the
\* log to resume were read before, and may have gone since.
PlaceSession ==
  /\ init = "none"
  /\ ctx' = [status |-> "initializing", conv |-> <<>>]
  /\ tracked' = ~preview
  /\ init' = "placed"
  /\ UNCHANGED <<lock, log, plays, scenario, preview, base, got,
                 turnVars, endVars>>

\* The job is queued and the client is told the session's id.
EnqueueInit ==
  /\ init = "placed"
  /\ init' = "queued"
  /\ UNCHANGED <<ctx, lock, log, plays, sessionVars, got, turnVars, endVars>>

\* The queue cannot be reached: 503, and the client never learns the id.
EnqueueInitFails ==
  /\ init = "placed"
  /\ ctx' = [status |-> "error", conv |-> <<>>]
  /\ init' = "refused"
  /\ UNCHANGED <<lock, log, plays, sessionVars, got, turnVars, endVars>>

\* The engine state is there, or could not be built (the scenario is gone, it
\* has no prefab, the model failed): the job reads the session ...
InitJobReads(outcome) ==
  /\ init \in {"queued", "requeued"}
  /\ (outcome = "ready" /\ base = <<>>) => scenario # "gone"
  /\ got' = [status |-> outcome, conv |-> IF outcome = "ready" THEN base ELSE ctx.conv]
  /\ init' = CASE ctx.status = "none"  -> "over"
              [] init = "queued"       -> "read"
              [] init = "requeued"     -> "reread"
  /\ UNCHANGED <<ctx, lock, log, plays, sessionVars, turnVars, endVars>>

\* Wrong on purpose: a failed job only logs its error.
InitJobWritesOnlySuccess ==
  /\ init \in {"read", "reread"}
  /\ ctx' = IF got.status = "ready" THEN got ELSE ctx
  /\ init' = IF init = "read" THEN "written" ELSE "over"
  /\ UNCHANGED <<lock, log, plays, sessionVars, got, turnVars, endVars>>

\* ... and writes it back.
InitJobWrites ==
  /\ init \in {"read", "reread"}
  /\ ctx' = got
  /\ init' = IF init = "read" THEN "written" ELSE "over"
  /\ UNCHANGED <<lock, log, plays, sessionVars, got, turnVars, endVars>>

InitJobCancelled ==
  /\ "timeout" \in Faults
  /\ init \in {"queued", "read", "requeued", "reread"}
  /\ init' = "cancelled"
  /\ UNCHANGED <<ctx, lock, log, plays, sessionVars, got, turnVars, endVars>>

\* The worker died before arq recorded the job's result (bounded: once).
InitJobReruns ==
  /\ "rerun" \in Faults
  /\ init \in {"read", "written"}
  /\ init' = "requeued"
  /\ UNCHANGED <<ctx, lock, log, plays, sessionVars, got, turnVars, endVars>>

KnownToClient == init \notin {"none", "placed", "refused"}

-----------------------------------------------------------------------------
(* The turn routes: _execute_turn and play_turn_stream.                    *)

\* GET session:{id} and the checks on it; the lock is not held yet.
ReadSession(r) ==
  /\ pc[r] = "idle" /\ KnownToClient
  /\ \E m \in Modes : mode' = [mode EXCEPT ![r] = m]
  /\ IF ctx.status = "ready"
       THEN /\ snap' = [snap EXCEPT ![r] = ctx.conv]
            /\ pc' = [pc EXCEPT ![r] = "acquire"]
       ELSE /\ pc' = [pc EXCEPT ![r] = "failed"]
            /\ UNCHANGED snap
  /\ UNCHANGED <<ctx, lock, log, plays, sessionVars, endVars, initVars>>

\* Wrong on purpose: SET without NX.
AcquireWithoutNX(r) ==
  /\ pc[r] = "acquire"
  /\ lock' = r /\ pc' = [pc EXCEPT ![r] = "engine"]
  /\ UNCHANGED <<ctx, log, plays, sessionVars, mode, snap, endVars, initVars>>

\* SET lock NX EX 120; 409 when it exists.
Acquire(r) ==
  /\ pc[r] = "acquire"
  /\ IF lock = Free
       THEN lock' = r /\ pc' = [pc EXCEPT ![r] = "engine"]
       ELSE pc' = [pc EXCEPT ![r] = "failed"] /\ UNCHANGED lock
  /\ UNCHANGED <<ctx, log, plays, sessionVars, mode, snap, endVars, initVars>>

\* Wrong on purpose: a regeneration that pops the last turn and appends nothing.
ResultPopsOnly(r) == IF mode[r] = "regenerate"
                       THEN SubSeq(snap[r], 1, Len(snap[r]) - 1)
                       ELSE Append(snap[r], r)

\* What the engine makes of the conversation the request read.
Result(r) == IF mode[r] = "regenerate"
               THEN [snap[r] EXCEPT ![Len(snap[r])] = r]
               ELSE Append(snap[r], r)

\* The engine answers and SETEX writes the session back.
StoreTurn(r) ==
  /\ pc[r] = "engine"
  /\ mode[r] = "regenerate" => Len(snap[r]) > 0
  /\ ctx' = Ready(Result(r))
  /\ pc' = [pc EXCEPT ![r] = "checkpoint"]
  /\ UNCHANGED <<lock, log, plays, sessionVars, mode, snap, endVars, initVars>>

\* Unknown model, nothing to regenerate, no token budget, any other error.
EngineFails(r) ==
  /\ pc[r] = "engine"
  /\ pc' = [pc EXCEPT ![r] = "abort"]
  /\ UNCHANGED <<ctx, lock, log, plays, sessionVars, mode, snap, endVars, initVars>>

\* Wrong on purpose: an upsert that inserts and never updates.
InsertedOnce(c) ==
  IF log.state = "none" THEN [state |-> "open", conv |-> c] ELSE log

\* Wrong on purpose: a row that is there gets the turn added to its history.
UpsertAppends(c) ==
  [state |-> IF log.state \in {"none", "open"} THEN "open" ELSE "ended",
   conv |-> IF log.state # "none" /\ Len(c) > Len(log.conv)
              THEN Append(log.conv, c[Len(c)]) ELSE c]

\* _upsert_session_log: history, turn count and engine state replaced; an
\* ended_at that is set stays.  The row is looked up and committed in one step
\* (two first inserts that race leave one failed commit).
Upserted(c) ==
  [state |-> IF log.state \in {"none", "open"} THEN "open" ELSE "ended", conv |-> c]

\* A new row refers to the scenario (foreign key); an old one lost the reference
\* when the scenario was deleted.
Loggable == log.state # "none" \/ scenario # "gone"

\* Wrong on purpose: the conversation before the turn is checkpointed.
CheckpointBefore(r) ==
  /\ pc[r] = "checkpoint" /\ (preview \/ Loggable)
  /\ log' = IF preview THEN log ELSE Upserted(snap[r])
  /\ pc' = [pc EXCEPT ![r] = "count"]
  /\ UNCHANGED <<ctx, lock, plays, sessionVars, mode, snap, endVars, initVars>>

Checkpoint(r) ==
  /\ pc[r] = "checkpoint" /\ (preview \/ Loggable)
  /\ log' = IF preview THEN log ELSE Upserted(Result(r))
  /\ pc' = [pc EXCEPT ![r] = "count"]
  /\ UNCHANGED <<ctx, lock, plays, sessionVars, mode, snap, endVars, initVars>>

\* Wrong on purpose: the turn number is read before the engine advances it.
CountTurnBefore(r) ==
  /\ pc[r] = "count"
  /\ plays' = IF Len(snap[r]) = 1 /\ ~preview /\ mode[r] # "regenerate" /\ scenario # "gone"
                THEN plays + 1 ELSE plays
  /\ pc' = [pc EXCEPT ![r] = "unlock"]
  /\ UNCHANGED <<ctx, lock, log, sessionVars, mode, snap, endVars, initVars>>

\* Wrong on purpose: regenerating a first turn takes its play back.
CountTakesBack(r) ==
  /\ pc[r] = "count"
  /\ plays' = IF Len(Result(r)) = 1 /\ ~preview /\ scenario # "gone"
                THEN IF mode[r] # "regenerate" THEN plays + 1 ELSE plays - 1
                ELSE plays
  /\ pc' = [pc EXCEPT ![r] = "unlock"]
  /\ UNCHANGED <<ctx, lock, log, sessionVars, mode, snap, endVars, initVars>>

\* plays_count of a first turn.  (A regeneration deletes the rating of its turn
\* instead, and the media job is queued after this; a failure to queue it is
\* only logged.)
CountPlay(r) ==
  /\ pc[r] = "count"
  /\ plays' = IF Len(Result(r)) = 1 /\ ~preview /\ mode[r] # "regenerate" /\ scenario # "gone"
                THEN plays + 1 ELSE plays
  /\ pc' = [pc EXCEPT ![r] = "unlock"]
  /\ UNCHANGED <<ctx, lock, log, sessionVars, mode, snap, endVars, initVars>>

\* The commit of the log, or of the play or the deleted rating, fails.
CommitFails(r) ==
  /\ \/ pc[r] = "checkpoint" /\ ~preview /\ ("dbfail" \in Faults \/ ~Loggable)
     \/ /\ pc[r] = "count" /\ "dbfail" \in Faults
        /\ mode[r] = "regenerate" \/ (Len(Result(r)) = 1 /\ ~preview)
  /\ pc' = [pc EXCEPT ![r] = "torn"]
  /\ UNCHANGED <<ctx, lock, log, plays, sessionVars, mode, snap, endVars, initVars>>

\* finally: DEL lock, whoever set it.
Release(r) ==
  /\ pc[r] \in {"unlock", "abort", "torn"}
  /\ lock' = Free
  /\ pc' = [pc EXCEPT ![r] = CASE @ = "unlock" -> "done"
                               [] @ = "abort"  -> "failed"
                               [] @ = "torn"   -> "half"]
  /\ UNCHANGED <<ctx, log, plays, sessionVars, mode, snap, endVars, initVars>>

\* The API process dies, or a disconnect cancels the stream and the DEL of its
\* finally with it.
Crash(r) ==
  /\ "crash" \in Faults
  /\ pc[r] \in InTurn
  /\ pc' = [pc EXCEPT ![r] = "gone"]
  /\ UNCHANGED <<ctx, lock, log, plays, sessionVars, mode, snap, endVars, initVars>>

\* Wrong on purpose: SET without EX, the key stays for ever.
LockNeverExpires ==
  /\ lock # Free /\ lock' = Free
  /\ lock \notin Req
  /\ UNCHANGED <<ctx, log, plays, sessionVars, turnVars, endVars, initVars>>

\* 120 seconds are over.  Whether a live turn can last that long is the fault
\* "lease"; a lock nobody will release always expires.
LockExpires ==
  /\ lock # Free
  /\ "lease" \in Faults \/ pc[lock] \notin InTurn
  /\ lock' = Free
  /\ UNCHANGED <<ctx, log, plays, sessionVars, turnVars, endVars, initVars>>

-----------------------------------------------------------------------------
(* end_session.                                                            *)

EndReads ==
  /\ ending = "idle" /\ KnownToClient
  /\ endctx' = ctx
  /\ ending' = IF ctx.status = "none" THEN "ended" ELSE "wait"
  /\ UNCHANGED <<ctx, lock, log, plays, sessionVars, turnVars, initVars>>

\* The bounded wait is over: the lock was seen free ("free"), or ten polls
\* found it held ("busy").
EndStopsWaiting ==
  /\ ending = "wait"
  /\ ending' = IF lock = Free THEN "free" ELSE "busy"
  /\ UNCHANGED <<ctx, lock, log, plays, sessionVars, turnVars, endctx, initVars>>

\* Wrong on purpose: no re-read after the wait.
EndKeepsFirstRead ==
  /\ ending \in {"free", "busy"}
  /\ ending' = "upsert"
  /\ UNCHANGED <<ctx, lock, log, plays, sessionVars, turnVars, endctx, initVars>>

EndRereads ==
  /\ ending \in {"free", "busy"}
  /\ endctx' = IF ctx.status = "none" THEN endctx ELSE ctx
  /\ ending' = "upsert"
  /\ UNCHANGED <<ctx, lock, log, plays, sessionVars, turnVars, initVars>>

\* The row of a session whose engine was never built cannot be resumed.
EndCheckpoints ==
  /\ ending = "upsert" /\ (preview \/ Loggable)
  /\ log' = IF preview THEN log
             ELSE [state |-> IF endctx.status # "ready" /\ endctx.conv = <<>>
                               THEN "void" ELSE "ended",
                   conv |-> endctx.conv]
  /\ ending' = "delete"
  /\ UNCHANGED <<ctx, lock, plays, sessionVars, turnVars, endctx, initVars>>

EndCommitFails ==
  /\ ending = "upsert" /\ ~preview
  /\ "dbfail" \in Faults \/ ~Loggable
  /\ ending' = "failed"
  /\ UNCHANGED <<ctx, lock, log, plays, sessionVars, turnVars, endctx, initVars>>

EndDeletes ==
  /\ ending = "delete"
  /\ ctx' = NoSession
  /\ tracked' = IF preview THEN tracked ELSE FALSE
  /\ ending' = "ended"
  /\ UNCHANGED <<lock, log, plays, scenario, preview, base, turnVars, endctx, initVars>>

-----------------------------------------------------------------------------
(* delete_scenario and key expiry.                                         *)

\* The scenario was unpublished before; its tracked sessions go first ...
PurgeSessions ==
  /\ scenario # "gone"
  /\ scenario' = "purged"
  /\ ctx' = IF tracked THEN NoSession ELSE ctx
  /\ tracked' = FALSE
  /\ UNCHANGED <<lock, log, plays, preview, base, turnVars, endVars, initVars>>

\* ... and the row follows, unless the commit fails.
DeleteRow ==
  /\ scenario = "purged"
  /\ scenario' = "gone"
  /\ UNCHANGED <<ctx, lock, log, plays, tracked, preview, base,
                 turnVars, endVars, initVars>>

DeleteScenario == PurgeSessions \/ DeleteRow

SessionKeyLost ==
  /\ "evict" \in Faults
  /\ ctx # NoSession
  /\ ctx' = NoSession
  /\ UNCHANGED <<lock, log, plays, sessionVars, turnVars, endVars, initVars>>

-----------------------------------------------------------------------------
Turn(r) ==
  \/ ReadSession(r) \/ Acquire(r) \/ StoreTurn(r) \/ EngineFails(r)
  \/ Checkpoint(r) \/ CountPlay(r) \/ CommitFails(r) \/ Release(r)

End == EndReads \/ EndStopsWaiting \/ EndRereads \/ EndCheckpoints
         \/ EndCommitFails \/ EndDeletes

InitJob == \E outcome \in {"ready", "error"} : InitJobReads(outcome)

Create == PlaceSession \/ EnqueueInit \/ EnqueueInitFails

Next ==
  \/ Create \/ InitJob \/ InitJobWrites \/ InitJobCancelled \/ InitJobReruns
  \/ \E r \in Req : Turn(r) \/ Crash(r)
  \/ LockExpires
  \/ End
  \/ DeleteScenario \/ SessionKeyLost

Spec == Init /\ [][Next]_vars

\* A started request keeps running until it answers (the event loop), arq runs
\* a queued job, and Redis expires keys.  Nobody has to send a request.
Fairness ==
  /\ WF_vars(InitJob \/ InitJobWrites)
  /\ WF_vars(LockExpires)
  /\ \A r \in Req : WF_vars(pc[r] # "idle" /\ Turn(r))
  /\ WF_vars(ending # "idle" /\ End)

FairSpec == Spec /\ Fairness

-----------------------------------------------------------------------------
(* The lock does its job: two turns of one session never run together, as   *)
(* long as no turn outlasts its 120-second lock (main.py, _execute_turn and *)
(* play_turn_stream; without "lease").                                      *)
AtMostOneTurn ==
  \A r, s \in Req : pc[r] \in InTurn /\ pc[s] \in InTurn => r = s

\* No turn died, or failed, between two of its writes.
NoneLost == \A r \in Req : pc[r] \notin {"gone", "torn", "half"}

Quiet == /\ NoneLost
         /\ \A r \in Req : pc[r] \notin InTurn
         /\ ending \in {"idle", "ended"}

(* When nothing is running, what a resume would read from Postgres is what  *)
(* the session holds in Redis (_upsert_session_log: "the resumable state    *)
(* lives in session_logs as of the last completed turn"), when no turn was  *)
(* lost half-way (without "lease" and "rerun").                             *)
LogMatchesSession ==
  Quiet /\ ctx.status = "ready" /\ ~preview
    => ctx.conv = IF log.state \in {"none", "void"} THEN base ELSE log.conv

(* A first turn that stays is counted as a play of the scenario: there is   *)
(* no order of requests in which a played session counts for nothing        *)
(* (main.py, the plays_count update of both turn routes).                   *)
PlayedMeansCounted ==
  Quiet /\ ctx.status = "ready" /\ ~preview /\ scenario # "gone" /\ base = <<>> /\ ctx.conv # <<>>
    => plays >= 1

(* A turn is answered with 200 only when the log row, unless the session    *)
(* was ended meanwhile, holds the conversation with that turn.              *)
AnsweredMeansLogged ==
  [][\A r \in Req : pc[r] = "unlock" /\ pc'[r] = "done" /\ ~preview /\ log.state = "open"
        => log.conv = Result(r)]_vars

(* Redis and Postgres are written one after the other, and a turn may die   *)
(* or fail to commit in between.  The next turn that is answered makes up   *)
(* for it: if the session's last turn is one that was answered, the row     *)
(* holds its whole conversation, with the turns that were lost before it    *)
(* (_upsert_session_log replaces the history; without "lease" and "rerun"). *)
(* Excepted is an end request between its commit and its DEL.               *)
LastAnswerIsLogged ==
  \A r \in Req :
    /\ pc[r] = "done" /\ ~preview /\ ending # "delete"
    /\ ctx.status = "ready" /\ ctx.conv # <<>> /\ ctx.conv[Len(ctx.conv)] = r
    => log.conv = ctx.conv

(* A lock left behind by a crashed turn does not block the session for      *)
(* ever: the key has a TTL.                                                 *)
LockIsFreed == (lock # Free) ~> (lock = Free)

(* A queued session does not stay "initializing": it becomes ready or       *)
(* error, or is gone, unless arq cancels its job (init_engine_job).         *)
InitSettles == (init = "queued" /\ ctx.status = "initializing")
                 ~> (ctx.status # "initializing" \/ init = "cancelled")
=============================================================================
