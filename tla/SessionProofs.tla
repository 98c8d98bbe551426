---------------------------- MODULE SessionProofs ---------------------------
(***************************************************************************)
(* Theorems about SessionTurns, for any set of requests and any faults but *)
(* those a theorem excludes.                                               *)
(*                                                                         *)
(* About the conversation: Provenance tells where the conversations that   *)
(* requests and jobs carry around come from, and HoldsLock who holds the   *)
(* lock.                                                                   *)
(*                                                                         *)
(* About the checkpoints: StoreFollows and LogFollows tell where the       *)
(* session and its row may differ, AnswerFollows what a request that will  *)
(* answer 200 has seen to, TopFollows what stays of that after other turns *)
(* were lost, and CountFollows where the first turn is until it is counted.*)
(***************************************************************************)
EXTENDS SessionHistory, SequenceTheorems, TLAPS

HNext == Next /\ HistoryStep

(* Redoing the last turn of a conversation gives a conversation, also when  *)
(* there is no last turn.                                                   *)
LEMMA RedoIsConversation ==
  ASSUME NEW s \in Conversation, NEW x \in Content
  PROVE  [s EXCEPT ![Len(s)] = x] \in Conversation
<1>1. CASE Len(s) = 0
  <2>1. s = << >> BY <1>1, EmptySeq, LenProperties DEF Conversation
  <2>2. [s EXCEPT ![Len(s)] = x] = << >> BY <2>1, <1>1
  <2> QED BY <2>2, EmptySeq DEF Conversation
<1>2. CASE Len(s) # 0
  <2>1. Len(s) \in 1 .. Len(s) BY <1>2, LenProperties DEF Conversation
  <2> QED BY <2>1, ExceptSeq DEF Conversation
<1> QED BY <1>1, <1>2

(* What a turn makes of a conversation is a conversation.                   *)
LEMMA ResultIsConversation ==
  ASSUME ProgramTypes, NEW r \in Req
  PROVE  Result(r) \in Conversation
<1>1. snap[r] \in Conversation BY DEF ProgramTypes
<1>2. r \in Content BY DEF Content
<1>3. [snap[r] EXCEPT ![Len(snap[r])] = r] \in Conversation
  BY <1>1, <1>2, RedoIsConversation
<1>4. Append(snap[r], r) \in Conversation
  BY <1>1, <1>2, AppendProperties DEF Conversation
<1> QED BY <1>3, <1>4 DEF Result

(* The initial state is well typed.                                         *)
LEMMA TypeInit == HInit => TypeOK
<1> SUFFICES ASSUME HInit PROVE TypeOK OBVIOUS
<1>1. << >> \in Conversation BY EmptySeq DEF Conversation
<1>2. <<Old>> \in Conversation BY DEF Conversation, Content
<1> QED BY <1>1, <1>2, FreshNames
        DEF HInit, Init, TypeOK, ProgramTypes, NoSession, NoLog, Status, PC, AllModes, Content

(* Every step of the program keeps the types of its variables.              *)
LEMMA ProgramTypeStep ==
  ASSUME ProgramTypes, Next
  PROVE  ProgramTypes'
<1> USE DEF ProgramTypes, Status, PC, InTurn, NoSession, NoLog
<1>e. << >> \in Conversation BY EmptySeq DEF Conversation
<1>1. CASE PlaceSession
  BY <1>e, <1>1 DEF PlaceSession, turnVars, endVars, initVars, sessionVars
<1>2. CASE EnqueueInit
  BY <1>e, <1>2 DEF EnqueueInit, turnVars, endVars, initVars, sessionVars
<1>3. CASE EnqueueInitFails
  BY <1>e, <1>3 DEF EnqueueInitFails, turnVars, endVars, initVars, sessionVars
<1>4. ASSUME NEW outcome \in {"ready", "error"}, InitJobReads(outcome) PROVE ProgramTypes'
  BY <1>e, <1>4 DEF InitJobReads, turnVars, endVars, initVars, sessionVars
<1>5. CASE InitJobWrites
  BY <1>e, <1>5 DEF InitJobWrites, turnVars, endVars, initVars, sessionVars
<1>6. CASE InitJobCancelled
  BY <1>e, <1>6 DEF InitJobCancelled, turnVars, endVars, initVars, sessionVars
<1>7. CASE InitJobReruns
  BY <1>e, <1>7 DEF InitJobReruns, turnVars, endVars, initVars, sessionVars
<1>8. ASSUME NEW r \in Req, ReadSession(r) PROVE ProgramTypes'
  BY <1>e, <1>8, ResultIsConversation, ModesAssumption DEF ReadSession, turnVars, endVars, initVars, sessionVars, Upserted, Ready
<1>9. ASSUME NEW r \in Req, Acquire(r) PROVE ProgramTypes'
  BY <1>e, <1>9, ResultIsConversation, ModesAssumption DEF Acquire, turnVars, endVars, initVars, sessionVars, Upserted, Ready
<1>10. ASSUME NEW r \in Req, StoreTurn(r) PROVE ProgramTypes'
  BY <1>e, <1>10, ResultIsConversation, ModesAssumption DEF StoreTurn, turnVars, endVars, initVars, sessionVars, Upserted, Ready
<1>11. ASSUME NEW r \in Req, EngineFails(r) PROVE ProgramTypes'
  BY <1>e, <1>11, ResultIsConversation, ModesAssumption DEF EngineFails, turnVars, endVars, initVars, sessionVars, Upserted, Ready
<1>12. ASSUME NEW r \in Req, Checkpoint(r) PROVE ProgramTypes'
  BY <1>e, <1>12, ResultIsConversation, ModesAssumption DEF Checkpoint, turnVars, endVars, initVars, sessionVars, Upserted, Ready
<1>13. ASSUME NEW r \in Req, CountPlay(r) PROVE ProgramTypes'
  <2>1. plays' \in Nat BY <1>13 DEF CountPlay
  <2>2. pc' \in [Req -> PC] BY <1>13 DEF CountPlay
  <2> QED BY <2>1, <2>2, <1>13
          DEF CountPlay, sessionVars, endVars, initVars
<1>14. ASSUME NEW r \in Req, CommitFails(r) PROVE ProgramTypes'
  BY <1>e, <1>14, ResultIsConversation, ModesAssumption DEF CommitFails, turnVars, endVars, initVars, sessionVars, Upserted, Ready
<1>15. ASSUME NEW r \in Req, Release(r) PROVE ProgramTypes'
  BY <1>e, <1>15, ResultIsConversation, ModesAssumption DEF Release, turnVars, endVars, initVars, sessionVars, Upserted, Ready
<1>16. ASSUME NEW r \in Req, Crash(r) PROVE ProgramTypes'
  BY <1>e, <1>16, ResultIsConversation, ModesAssumption DEF Crash, turnVars, endVars, initVars, sessionVars, Upserted, Ready
<1>17. CASE LockExpires
  BY <1>e, <1>17 DEF LockExpires, turnVars, endVars, initVars, sessionVars
<1>18. CASE EndReads
  BY <1>e, <1>18 DEF EndReads, turnVars, endVars, initVars, sessionVars
<1>19. CASE EndStopsWaiting
  BY <1>e, <1>19 DEF EndStopsWaiting, turnVars, endVars, initVars, sessionVars
<1>20. CASE EndRereads
  BY <1>e, <1>20 DEF EndRereads, turnVars, endVars, initVars, sessionVars
<1>21. CASE EndCheckpoints
  BY <1>e, <1>21 DEF EndCheckpoints, turnVars, endVars, initVars, sessionVars
<1>22. CASE EndCommitFails
  BY <1>e, <1>22 DEF EndCommitFails, turnVars, endVars, initVars, sessionVars
<1>23. CASE EndDeletes
  <2>1. tracked' \in BOOLEAN
    <3>1. CASE preview BY <3>1, <1>23 DEF EndDeletes
    <3>2. CASE ~preview BY <3>2, <1>23 DEF EndDeletes
    <3> QED BY <3>1, <3>2
  <2>2. ctx' \in [status : Status, conv : Conversation] BY <1>23, <1>e DEF EndDeletes
  <2>3. UNCHANGED <<lock, log, plays, scenario, preview, base, turnVars, endctx, initVars>>
        /\ ending' = "ended"
    BY <1>23 DEF EndDeletes
  <2> QED BY <2>1, <2>2, <2>3 DEF turnVars, initVars
<1>24. CASE PurgeSessions
  <2>1. tracked' \in BOOLEAN /\ scenario' = "purged" BY <1>24 DEF PurgeSessions
  <2>2. ctx' \in [status : Status, conv : Conversation]
    <3>1. CASE tracked BY <3>1, <1>24, <1>e DEF PurgeSessions
    <3>2. CASE ~tracked BY <3>2, <1>24 DEF PurgeSessions
    <3> QED BY <3>1, <3>2
  <2> QED BY <2>1, <2>2, <1>24 DEF PurgeSessions, turnVars, endVars, initVars
<1>26. CASE DeleteRow
  BY <1>26 DEF DeleteRow, turnVars, endVars, initVars
<1>25. CASE SessionKeyLost
  BY <1>e, <1>25 DEF SessionKeyLost, turnVars, endVars, initVars, sessionVars
<1> QED
  BY <1>1, <1>2, <1>3, <1>4, <1>5, <1>6, <1>7, <1>8, <1>9, <1>10, <1>11, <1>12, <1>13, <1>14, <1>15, <1>16, <1>17, <1>18, <1>19, <1>20, <1>21, <1>22, <1>23, <1>24, <1>25, <1>26
     DEF Next, Create, InitJob, Turn, End, DeleteScenario

(* So does every step of the program and the ghost variables with it.       *)
LEMMA TypeStep == TypeOK /\ [HNext]_hvars => TypeOK'
<1> SUFFICES ASSUME TypeOK, [HNext]_hvars PROVE TypeOK' OBVIOUS
<1>1. CASE HNext
  <2>1. ProgramTypes' BY <1>1, ProgramTypeStep DEF HNext, TypeOK
  <2>2. ctx'.conv \in Conversation BY <2>1 DEF ProgramTypes
  <2>3. versions' \subseteq Conversation /\ fresh' \subseteq Req
    BY <1>1, <2>2 DEF HNext, HistoryStep, TypeOK
  <2>4. calm' \in BOOLEAN BY <1>1 DEF HNext, HistoryStep
  <2>5. leased' \in BOOLEAN BY <1>1 DEF HNext, HistoryStep
  <2> QED BY <2>1, <2>3, <2>4, <2>5 DEF TypeOK
<1>2. CASE UNCHANGED hvars
  BY <1>2 DEF hvars, vars, TypeOK, ProgramTypes, sessionVars, turnVars, endVars,
              initVars
<1> QED BY <1>1, <1>2

(* Types, for every set of requests and every fault.                        *)
THEOREM Types == HSpec => []TypeOK
<1>1. HSpec => HInit /\ [][HNext]_hvars BY DEF HSpec, HNext
<1> QED BY <1>1, TypeInit, TypeStep, PTL

-----------------------------------------------------------------------------
(* Until a turn outlasts its lock, a running turn is the one that set it.   *)
HoldsLock == ~leased => \A r \in Req : pc[r] \in InTurn => lock = r

(* While no lock is outlasted, every step keeps the running turn the        *)
(* lock's owner: only its own release or its own death frees the lock.      *)
LEMMA HoldsLockStep ==
  ASSUME TypeOK, HoldsLock, [HNext]_hvars
  PROVE  HoldsLock'
<1> USE DEF HoldsLock, InTurn, TypeOK, ProgramTypes
<1> SUFFICES ASSUME HNext, ~leased' PROVE HoldsLock'
  BY DEF hvars, vars, turnVars
<1>h. ~leased /\ ~(LockExpires /\ pc[lock] \in InTurn) BY DEF HNext, HistoryStep
<1>1. ASSUME NEW r \in Req, Acquire(r) PROVE HoldsLock'
  BY <1>h, <1>1, FreshNames DEF Acquire, PC
<1>2. ASSUME NEW r \in Req, Release(r) PROVE HoldsLock'
  BY <1>h, <1>2 DEF Release
<1>3. CASE LockExpires
  BY <1>h, <1>3 DEF LockExpires, turnVars
<1>4. ASSUME NEW r \in Req,
             \/ ReadSession(r) \/ StoreTurn(r) \/ EngineFails(r) \/ Checkpoint(r)
             \/ CountPlay(r) \/ CommitFails(r) \/ Crash(r)
      PROVE  HoldsLock'
  BY <1>h, <1>4 DEF ReadSession, StoreTurn, EngineFails, Checkpoint, CountPlay, CommitFails, Crash
<1>5. CASE UNCHANGED <<lock, pc>> BY <1>h, <1>5
<1>6. CASE Create \/ InitJob \/ InitJobWrites \/ InitJobCancelled \/ InitJobReruns
  <2>1. UNCHANGED <<lock, pc>>
    BY <1>6 DEF Create, PlaceSession, EnqueueInit, EnqueueInitFails, InitJob, InitJobReads,
                InitJobWrites, InitJobCancelled, InitJobReruns, turnVars
  <2> QED BY <2>1, <1>5
<1>7. CASE End \/ DeleteScenario \/ SessionKeyLost
  <2>1. UNCHANGED <<lock, pc>>
    BY <1>7 DEF End, EndReads, EndStopsWaiting, EndRereads, EndCheckpoints, EndCommitFails,
                EndDeletes, DeleteScenario, PurgeSessions, DeleteRow, SessionKeyLost, turnVars
  <2> QED BY <2>1, <1>5
<1> QED BY <1>1, <1>2, <1>3, <1>4, <1>6, <1>7 DEF HNext, Next, Turn

(* Two turns of a session never run together until a turn outlasts its      *)
(* lock: SET NX admits one, and the DEL of every finally clause is its own  *)
(* holder's.                                                                *)
THEOREM MutualExclusion == HSpec => [](~leased => AtMostOneTurn)
<1>1. HInit => HoldsLock BY DEF HInit, Init, HoldsLock, InTurn
<1>2. TypeOK /\ HoldsLock /\ [HNext]_hvars => HoldsLock' BY HoldsLockStep
<1>3. HoldsLock => (~leased => AtMostOneTurn) BY DEF HoldsLock, AtMostOneTurn
<1>4. HSpec => HInit /\ [][HNext]_hvars BY DEF HSpec, HNext
<1> QED BY <1>1, <1>2, <1>3, <1>4, Types, PTL

-----------------------------------------------------------------------------
(* Where conversations come from.  Before the init job wrote the session,   *)
(* nothing is playable and no request got past its first check; afterwards  *)
(* the session holds a known version, and so does every running request.    *)
Unplayed == {"none", "placed", "refused", "queued", "read"}

NothingPlayed ==
  /\ ctx.status # "ready" /\ versions = {} /\ fresh = {}
  /\ \A r \in Req : pc[r] \in {"idle", "failed"}

Provenance ==
  /\ base \in {<<>>, <<Old>>}
  /\ init \notin {"requeued", "reread"}
  /\ init = "read" => got \in {Ready(base), [status |-> "error", conv |-> got.conv]}
  /\ init \in Unplayed => NothingPlayed
  /\ ctx.status = "ready" => ctx.conv \in versions
  /\ \A r \in Req : pc[r] \in {"acquire"} \union InTurn => snap[r] \in versions
  /\ \A r \in fresh : pc[r] \in InTurn

(* Nothing is playable in the initial state.                                *)
LEMMA ProvenanceInit == HInit => Provenance
  BY DEF HInit, Init, Provenance, Unplayed, NothingPlayed, NoSession, InTurn

(* Without a rerun of the init job, every step keeps the provenance.        *)
LEMMA ProvenanceStep ==
  ASSUME "rerun" \notin Faults, TypeOK, Provenance, [HNext]_hvars
  PROVE  Provenance'
<1> USE DEF Provenance, Unplayed, NothingPlayed, InTurn, TypeOK, ProgramTypes, HistoryStep
<1> DEFINE Same == UNCHANGED <<init, got, base, ctx, pc, snap>>
<1>1. CASE HistoryStep /\ (PlaceSession \/ EnqueueInit \/ EnqueueInitFails)
  BY <1>1 DEF PlaceSession, EnqueueInit, EnqueueInitFails, turnVars, sessionVars
<1>2. ASSUME HistoryStep, NEW outcome \in {"ready", "error"}, InitJobReads(outcome)
      PROVE  Provenance'
  BY <1>2 DEF InitJobReads, turnVars, sessionVars, Ready
<1>3. CASE HistoryStep /\ InitJobWrites
  BY <1>3 DEF InitJobWrites, turnVars, sessionVars, Ready
<1>4. CASE HistoryStep /\ (InitJobCancelled \/ InitJobReruns)
  BY <1>4 DEF InitJobCancelled, InitJobReruns, turnVars, sessionVars
<1>5. ASSUME HistoryStep, NEW r \in Req, ReadSession(r) PROVE Provenance'
  BY <1>5 DEF ReadSession, KnownToClient, sessionVars, initVars
<1>6. ASSUME HistoryStep, NEW r \in Req, StoreTurn(r) PROVE Provenance'
  BY <1>6 DEF StoreTurn, Ready, sessionVars, initVars
<1>7. ASSUME HistoryStep, NEW r \in Req,
             \/ Acquire(r) \/ EngineFails(r) \/ Checkpoint(r) \/ CountPlay(r)
             \/ CommitFails(r) \/ Release(r) \/ Crash(r)
      PROVE  Provenance'
  BY <1>7 DEF Acquire, EngineFails, Checkpoint, CountPlay, CommitFails, Release, Crash,
              sessionVars, initVars
<1>8. CASE HistoryStep /\ Same BY <1>8
<1>9. CASE HistoryStep /\ (LockExpires)
  BY <1>9, <1>8 DEF LockExpires, sessionVars, turnVars, initVars
<1>10. CASE HistoryStep /\ (EndReads \/ EndStopsWaiting \/ EndRereads \/ EndCheckpoints \/ EndCommitFails)
  BY <1>10, <1>8 DEF EndReads, EndStopsWaiting, EndRereads, EndCheckpoints, EndCommitFails,
                     sessionVars, turnVars, initVars
<1>11. CASE HistoryStep /\ (EndDeletes \/ DeleteScenario \/ SessionKeyLost)
  <2>1. ctx' \in {ctx, NoSession} /\ UNCHANGED <<init, got, base, pc, snap>>
    BY <1>11 DEF EndDeletes, DeleteScenario, PurgeSessions, DeleteRow, SessionKeyLost, sessionVars, turnVars, initVars
  <2> QED BY <2>1, <1>11, <1>8 DEF NoSession
<1>12. CASE UNCHANGED hvars
  BY <1>12 DEF hvars, vars, sessionVars, turnVars, initVars
<1> QED BY <1>1, <1>2, <1>3, <1>4, <1>5, <1>6, <1>7, <1>9, <1>10, <1>11, <1>12
        DEF HNext, Next, Create, InitJob, Turn, End

-----------------------------------------------------------------------------
(* A turn that is fresh and still running the engine continues the          *)
(* session's conversation.                                                  *)
LEMMA FreshStep ==
  ASSUME "rerun" \notin Faults, TypeOK, HoldsLock, Provenance,
         FreshTurnIsCurrent, [HNext]_hvars
  PROVE  FreshTurnIsCurrent'
<1> SUFFICES ASSUME HNext, ~leased',
                    NEW s \in fresh', pc'[s] = "engine", ctx'.status = "ready"
             PROVE  ctx'.conv = snap'[s]
  BY DEF FreshTurnIsCurrent, hvars, vars, turnVars
<1> USE DEF TypeOK, ProgramTypes, InTurn
<1>1. s \in Req /\ HistoryStep /\ ~leased BY DEF HNext, HistoryStep
<1>2. ASSUME NEW r \in Req, Acquire(r) PROVE ctx'.conv = snap'[s]
  <2>1. CASE s = r
    <3>1. r \notin fresh BY <1>2 DEF Acquire, Provenance
    <3> QED BY <2>1, <3>1, <1>1, <1>2 DEF Acquire, HistoryStep, Ready
  <2>2. CASE s # r
    BY <2>2, <1>1, <1>2 DEF Acquire, HistoryStep, FreshTurnIsCurrent
  <2> QED BY <2>1, <2>2
<1>3. ASSUME NEW r \in Req, StoreTurn(r) PROVE FALSE
  \* both r and s would hold the lock
  <2>1. pc[r] = "engine" /\ pc'[r] = "checkpoint" BY <1>3 DEF StoreTurn
  <2>2. r # s /\ pc[s] = "engine" BY <2>1, <1>1, <1>3 DEF StoreTurn
  <2> QED BY <2>1, <2>2, <1>1 DEF HoldsLock
<1>4. CASE InitJobWrites
  \* nothing is fresh before the session was initialised
  <2>1. init = "read" BY <1>4 DEF InitJobWrites, Provenance
  <2>2. pc[s] \in {"idle", "failed"} BY <2>1, <1>1 DEF Provenance, NothingPlayed, Unplayed
  <2> QED BY <2>2, <1>4, <1>1 DEF InitJobWrites, turnVars
<1>5. CASE ctx' \in {ctx, NoSession} /\ pc'[s] = "engine" /\ pc[s] = "engine" /\ snap' = snap
  BY <1>5, <1>1 DEF NoSession, HistoryStep, FreshTurnIsCurrent
<1>6. CASE \E r \in Req : \/ ReadSession(r) \/ EngineFails(r) \/ Checkpoint(r)
                          \/ CountPlay(r) \/ CommitFails(r) \/ Release(r) \/ Crash(r)
  <2>1. ctx' = ctx /\ pc[s] = "engine" /\ snap'[s] = snap[s]
    BY <1>6, <1>1 DEF ReadSession, EngineFails, Checkpoint, CountPlay, CommitFails,
                      Release, Crash
  <2> QED BY <2>1, <1>1 DEF HistoryStep, FreshTurnIsCurrent
<1>7. CASE Create \/ InitJob \/ InitJobCancelled \/ InitJobReruns
  <2>1. \/ ctx' = ctx
        \/ ctx'.status \in {"initializing", "error"}
    BY <1>7 DEF Create, PlaceSession, EnqueueInit, EnqueueInitFails, InitJob, InitJobReads,
                InitJobCancelled, InitJobReruns
  <2>2. UNCHANGED turnVars
    BY <1>7 DEF Create, PlaceSession, EnqueueInit, EnqueueInitFails, InitJob, InitJobReads,
                InitJobCancelled, InitJobReruns
  <2> QED BY <2>1, <2>2, <1>1 DEF turnVars, HistoryStep, FreshTurnIsCurrent
<1>8. CASE LockExpires \/ End \/ DeleteScenario \/ SessionKeyLost
  <2>1. ctx' \in {ctx, NoSession} /\ UNCHANGED turnVars
    BY <1>8 DEF LockExpires, End, EndReads, EndStopsWaiting, EndRereads, EndCheckpoints,
                EndCommitFails, EndDeletes, DeleteScenario, PurgeSessions, DeleteRow, SessionKeyLost
  <2> QED BY <2>1, <1>5 DEF turnVars
<1> QED BY <1>2, <1>3, <1>4, <1>6, <1>7, <1>8 DEF HNext, Next, Turn

(* A turn whose snapshot was current when it took the lock overwrites       *)
(* nothing, until a turn outlasts its lock, with an init job that runs once.*)
THEOREM FreshTurnsLoseNothing ==
  ASSUME "rerun" \notin Faults
  PROVE  HSpec => []FreshTurnIsCurrent
<1>1. HInit => HoldsLock /\ Provenance /\ FreshTurnIsCurrent
  BY ProvenanceInit DEF HInit, Init, HoldsLock, InTurn, FreshTurnIsCurrent
<1>2. TypeOK /\ HoldsLock /\ [HNext]_hvars => HoldsLock' BY HoldsLockStep
<1>3. TypeOK /\ Provenance /\ [HNext]_hvars => Provenance' BY ProvenanceStep
<1>4. TypeOK /\ HoldsLock /\ Provenance /\ FreshTurnIsCurrent /\ [HNext]_hvars
        => FreshTurnIsCurrent'
  BY FreshStep
<1>5. HSpec => HInit /\ [][HNext]_hvars BY DEF HSpec, HNext
<1> QED BY <1>1, <1>2, <1>3, <1>4, <1>5, Types, PTL

-----------------------------------------------------------------------------
(* Every step of the program is a step of ForkingLog or changes neither the *)
(* current conversation nor the set of versions.                            *)
LEMMA ForkingStep ==
  ASSUME "rerun" \notin Faults, TypeOK, Provenance, [HNext]_hvars
  PROVE  [Abstract!Next]_(Abstract!vars)
<1> USE DEF TypeOK, ProgramTypes, InTurn
<1>s. ASSUME UNCHANGED <<ctx, versions>> PROVE [Abstract!Next]_(Abstract!vars)
  BY <1>s DEF Abstract!vars
<1>k. ASSUME HistoryStep, ctx' = ctx PROVE versions' = versions
  BY <1>k DEF HistoryStep, Provenance
<1>v. ASSUME HistoryStep, ctx'.status # "ready" PROVE [Abstract!Next]_(Abstract!vars)
  <2>1. versions' = versions BY <1>v DEF HistoryStep
  <2> QED BY <2>1, <1>v DEF Abstract!Next, Abstract!Vanish
<1>1. ASSUME HistoryStep, NEW r \in Req, StoreTurn(r) PROVE Abstract!Next
  <2>1. ctx' = Ready(Result(r)) /\ snap[r] \in versions /\ r \in Content
    BY <1>1 DEF StoreTurn, Provenance, Content
  <2>2. Abstract!Become(Result(r))
    BY <2>1, <1>1 DEF Abstract!Become, HistoryStep, Ready
  <2>3. CASE mode[r] = "regenerate"
    <3>1. Len(snap[r]) > 0 BY <2>3, <1>1 DEF StoreTurn
    <3> QED BY <2>1, <2>2, <2>3, <3>1 DEF Result, Abstract!Redo, Abstract!Next
  <2>4. CASE mode[r] # "regenerate"
    BY <2>1, <2>2, <2>4 DEF Result, Abstract!Extend, Abstract!Next
  <2> QED BY <2>3, <2>4
<1>2. CASE HistoryStep /\ InitJobWrites
  <2>1. init = "read" /\ ctx' = got BY <1>2 DEF InitJobWrites, Provenance
  <2>2. versions = {} /\ base \in {<<>>, <<Old>>}
    BY <2>1 DEF Provenance, Unplayed, NothingPlayed
  <2>3. CASE got.status # "ready" BY <2>1, <2>3, <1>2, <1>v
  <2>4. CASE got.status = "ready"
    <3>1. got = Ready(base) BY <2>1, <2>4 DEF Provenance
    <3>2. Abstract!Become(base) BY <3>1, <2>1, <1>2 DEF Abstract!Become, HistoryStep, Ready
    <3> QED BY <3>2, <2>2 DEF Abstract!Install, Abstract!Next
  <2> QED BY <2>3, <2>4
<1>3. CASE HistoryStep /\ (Create \/ InitJob \/ InitJobCancelled \/ InitJobReruns)
  <2>1. ctx' = ctx \/ ctx'.status # "ready"
    BY <1>3 DEF Create, PlaceSession, EnqueueInit, EnqueueInitFails, InitJob, InitJobReads,
                InitJobCancelled, InitJobReruns
  <2> QED BY <2>1, <1>3, <1>s, <1>k, <1>v
<1>4. ASSUME HistoryStep, NEW r \in Req,
             \/ ReadSession(r) \/ Acquire(r) \/ EngineFails(r) \/ Checkpoint(r)
             \/ CountPlay(r) \/ CommitFails(r) \/ Release(r) \/ Crash(r)
      PROVE  [Abstract!Next]_(Abstract!vars)
  <2>1. ctx' = ctx
    BY <1>4 DEF ReadSession, Acquire, EngineFails, Checkpoint, CountPlay, CommitFails,
                Release, Crash
  <2> QED BY <2>1, <1>4, <1>s, <1>k
<1>5. CASE HistoryStep /\ (LockExpires \/ End \/ DeleteScenario \/ SessionKeyLost)
  <2>1. ctx' \in {ctx, NoSession}
    BY <1>5 DEF LockExpires, End, EndReads, EndStopsWaiting, EndRereads, EndCheckpoints,
                EndCommitFails, EndDeletes, DeleteScenario, PurgeSessions, DeleteRow, SessionKeyLost
  <2> QED BY <2>1, <1>5, <1>s, <1>k, <1>v DEF NoSession
<1>6. CASE UNCHANGED hvars BY <1>6, <1>s DEF hvars, vars
<1> QED BY <1>1, <1>2, <1>3, <1>4, <1>5, <1>6 DEF HNext, Next, Turn

(* The program implements the forking log: whatever outlasts its lock,      *)
(* crashes or is evicted, the conversation changes one turn at a time, from *)
(* a version that was current before (with an init job that runs once).     *)
THEOREM SessionImplementsForkingLog ==
  ASSUME "rerun" \notin Faults
  PROVE  HSpec => ImplementsForkingLog
<1>1. HInit => Abstract!Init
  BY DEF HInit, Init, Abstract!Init, NoSession
<1>2. TypeOK /\ Provenance /\ [HNext]_hvars => Provenance' BY ProvenanceStep
<1>3. TypeOK /\ Provenance /\ [HNext]_hvars => [Abstract!Next]_(Abstract!vars)
  BY ForkingStep
<1>4. HSpec => HInit /\ [][HNext]_hvars BY DEF HSpec, HNext
<1> QED BY <1>1, <1>2, <1>3, <1>4, ProvenanceInit, Types, PTL
        DEF ImplementsForkingLog, Abstract!Spec

-----------------------------------------------------------------------------
(* The checkpoints, without the history variables.                          *)

(* The program's variables start well typed.                                *)
LEMMA ProgramInit == Init => ProgramTypes
<1> SUFFICES ASSUME Init PROVE ProgramTypes OBVIOUS
<1>1. << >> \in Conversation BY EmptySeq DEF Conversation
<1>2. <<Old>> \in Conversation BY DEF Conversation, Content
<1> QED BY <1>1, <1>2, FreshNames
        DEF Init, ProgramTypes, NoSession, NoLog, Status, PC, AllModes, Content

(* Every step, a stuttering one included, keeps their types.                *)
LEMMA ProgramStep == ProgramTypes /\ [Next]_vars => ProgramTypes'
<1>1. CASE UNCHANGED vars
  BY <1>1 DEF vars, ProgramTypes, sessionVars, turnVars, endVars, initVars
<1> QED BY <1>1, ProgramTypeStep

\* A running turn is the one that set the lock.
OwnsLock == \A r \in Req : pc[r] \in InTurn => lock = r

\* Before the init job wrote the session, nothing is played, and an end request
\* finds nothing to resume.
NothingYet ==
  /\ init \notin {"requeued", "reread"}
  /\ init = "read" => got \in {Ready(base), [status |-> "error", conv |-> <<>>]}
  /\ init \in Unplayed =>
       /\ ctx.status # "ready" /\ ctx.conv = <<>>
       /\ endctx.status # "ready" /\ endctx.conv = <<>>
       /\ log.state \in {"none", "void"}
       /\ \A r \in Req : pc[r] \in {"idle", "failed"}

\* What the row holds, or is read as when it cannot be resumed.
Logged == IF log.state \in {"none", "void"} THEN base ELSE log.conv

\* A turn that is about to be checkpointed is what the session holds.
StoreFollows ==
  \A r \in Req : pc[r] = "checkpoint" /\ ctx.status = "ready" => ctx.conv = Result(r)

\* Other than that, and while an end request deletes it, session and row agree.
LogFollows ==
  NoneLost /\ ~preview /\ ctx.status = "ready" /\ ending # "delete"
    /\ (\A r \in Req : pc[r] # "checkpoint")
    => ctx.conv = Logged

\* A turn that was checkpointed and is not answered yet is what the row holds.
AnswerFollows ==
  \A r \in Req : pc[r] \in {"count", "unlock"} /\ ~preview /\ log.state = "open"
    => log.conv = Result(r)

\* A turn that was checkpointed and that no other was stored on top of has left
\* the whole session in the row.
TopFollows ==
  \A r \in Req :
    /\ pc[r] \in {"count", "unlock", "done"} /\ ~preview /\ ending # "delete"
    /\ ctx.status = "ready" /\ ctx.conv # <<>> /\ ctx.conv[Len(ctx.conv)] = r
    => log.conv = ctx.conv

\* Somebody is about to count the first turn.
Counting == \E r \in Req : pc[r] \in {"checkpoint", "count"} /\ Len(Result(r)) = 1
                             /\ mode[r] # "regenerate"

\* Whoever has a conversation that was played has it counted.
CountFollows ==
  /\ init \in {"read", "reread"} /\ got.status = "ready" => got.conv = base
  /\ NoneLost /\ ~preview /\ scenario # "gone" /\ base = <<>> =>
       \/ plays >= 1 \/ Counting
       \/ /\ ctx.status = "ready" => ctx.conv = <<>>
          /\ \A r \in Req : pc[r] \in {"acquire"} \union InTurn => snap[r] = <<>>

(* Only its holder, or the expiry of a key that nobody holds any more,      *)
(* frees the lock.                                                          *)
LEMMA OwnsLockStep ==
  ASSUME "lease" \notin Faults, ProgramTypes, OwnsLock, [Next]_vars
  PROVE  OwnsLock'
<1> USE DEF OwnsLock, InTurn, ProgramTypes
<1>1. ASSUME NEW r \in Req, Acquire(r) PROVE OwnsLock'
  BY <1>1, FreshNames DEF Acquire, PC
<1>2. ASSUME NEW r \in Req, Release(r) PROVE OwnsLock'
  BY <1>2 DEF Release
<1>3. CASE LockExpires BY <1>3 DEF LockExpires, turnVars
<1>4. ASSUME NEW r \in Req,
             \/ ReadSession(r) \/ StoreTurn(r) \/ EngineFails(r) \/ Checkpoint(r)
             \/ CountPlay(r) \/ CommitFails(r) \/ Crash(r)
      PROVE  OwnsLock'
  BY <1>4 DEF ReadSession, StoreTurn, EngineFails, Checkpoint, CountPlay, CommitFails, Crash
<1>5. CASE UNCHANGED <<lock, pc>> BY <1>5
<1>6. CASE Create \/ InitJob \/ InitJobWrites \/ InitJobCancelled \/ InitJobReruns
  <2>1. UNCHANGED <<lock, pc>>
    BY <1>6 DEF Create, PlaceSession, EnqueueInit, EnqueueInitFails, InitJob, InitJobReads,
                InitJobWrites, InitJobCancelled, InitJobReruns, turnVars
  <2> QED BY <2>1, <1>5
<1>7. CASE End \/ DeleteScenario \/ SessionKeyLost
  <2>1. UNCHANGED <<lock, pc>>
    BY <1>7 DEF End, EndReads, EndStopsWaiting, EndRereads, EndCheckpoints, EndCommitFails,
                EndDeletes, DeleteScenario, PurgeSessions, DeleteRow, SessionKeyLost, turnVars
  <2> QED BY <2>1, <1>5
<1>8. CASE UNCHANGED vars BY <1>8, <1>5 DEF vars, turnVars
<1> QED BY <1>1, <1>2, <1>3, <1>4, <1>6, <1>7, <1>8 DEF Next, Turn

(* Nothing is played before the init job wrote the session.                 *)
LEMMA NothingYetStep ==
  ASSUME "rerun" \notin Faults, ProgramTypes, NothingYet, [Next]_vars
  PROVE  NothingYet'
<1> USE DEF NothingYet, Unplayed, ProgramTypes
<1>1. CASE PlaceSession \/ EnqueueInit \/ EnqueueInitFails
  BY <1>1 DEF PlaceSession, EnqueueInit, EnqueueInitFails, turnVars, sessionVars, endVars
<1>2. ASSUME NEW outcome \in {"ready", "error"}, InitJobReads(outcome) PROVE NothingYet'
  BY <1>2 DEF InitJobReads, turnVars, sessionVars, endVars, Ready
<1>3. CASE InitJobWrites BY <1>3 DEF InitJobWrites
<1>4. CASE InitJobCancelled \/ InitJobReruns BY <1>4 DEF InitJobCancelled, InitJobReruns
<1>5. ASSUME NEW r \in Req, ReadSession(r) PROVE NothingYet'
  BY <1>5 DEF ReadSession, endVars, initVars, sessionVars
<1>6. ASSUME NEW r \in Req,
             \/ Acquire(r) \/ StoreTurn(r) \/ EngineFails(r) \/ Checkpoint(r) \/ CountPlay(r)
             \/ CommitFails(r) \/ Release(r) \/ Crash(r)
      PROVE  NothingYet'
  <2>1. pc[r] \notin {"idle", "failed"} /\ init' = init /\ got' = got /\ base' = base
    BY <1>6 DEF Acquire, StoreTurn, EngineFails, Checkpoint, CountPlay, CommitFails, Release,
                Crash, InTurn, initVars, sessionVars
  <2> QED BY <2>1
<1>7. CASE End
  <2>1. /\ UNCHANGED <<init, got, base, pc>> /\ (ctx' = ctx \/ ctx' = NoSession)
        /\ endctx' = endctx \/ endctx' = ctx
    BY <1>7 DEF End, EndReads, EndStopsWaiting, EndRereads, EndCheckpoints, EndCommitFails,
                EndDeletes, turnVars, initVars, sessionVars
  <2>2. ASSUME log' # log, endctx.status # "ready", endctx.conv = <<>>
        PROVE  log'.state = "void"
    <3>1. ~(EndReads \/ EndStopsWaiting \/ EndRereads \/ EndCommitFails \/ EndDeletes)
      BY <2>2 DEF EndReads, EndStopsWaiting, EndRereads, EndCommitFails, EndDeletes
    <3>2. EndCheckpoints BY <1>7, <3>1 DEF End
    <3>3. log' = [state |-> "void", conv |-> endctx.conv] BY <2>2, <3>2 DEF EndCheckpoints
    <3> QED BY <3>3
  <2> QED BY <2>1, <2>2 DEF NoSession
<1>8. CASE LockExpires \/ DeleteScenario \/ SessionKeyLost
  <2>1. /\ UNCHANGED <<init, got, base, pc, log, endctx>> /\ (ctx' = ctx \/ ctx' = NoSession)
    BY <1>8 DEF LockExpires, DeleteScenario, PurgeSessions, DeleteRow, SessionKeyLost,
                turnVars, initVars, sessionVars, endVars
  <2> QED BY <2>1 DEF NoSession
<1>9. CASE UNCHANGED vars BY <1>9 DEF vars, turnVars, initVars, sessionVars, endVars
<1> QED BY <1>1, <1>2, <1>3, <1>4, <1>5, <1>6, <1>7, <1>8, <1>9
        DEF Next, Turn, Create, InitJob

(* What a request's result depends on stays while it writes it.             *)
LEMMA TurnFrame ==
  ASSUME ProgramTypes, NEW r \in Req, Turn(r) \/ Crash(r)
  PROVE  /\ \A s \in Req \ {r} : pc'[s] = pc[s] /\ mode'[s] = mode[s] /\ snap'[s] = snap[s]
         /\ pc[r] # "idle" => mode' = mode /\ snap' = snap
         /\ UNCHANGED <<scenario, preview, base, ending, endctx, init, got, tracked>>
<1> USE DEF ProgramTypes, sessionVars, endVars, initVars
<1>1. CASE ReadSession(r) BY <1>1 DEF ReadSession
<1>2. CASE Acquire(r) \/ StoreTurn(r) \/ EngineFails(r) BY <1>2 DEF Acquire, StoreTurn, EngineFails
<1>3. CASE Checkpoint(r) \/ CountPlay(r) \/ CommitFails(r)
  BY <1>3 DEF Checkpoint, CountPlay, CommitFails
<1>4. CASE Release(r) \/ Crash(r) BY <1>4 DEF Release, Crash
<1> QED BY <1>1, <1>2, <1>3, <1>4 DEF Turn

Others == \/ Create \/ InitJob \/ InitJobWrites \/ InitJobCancelled \/ InitJobReruns
          \/ LockExpires \/ End \/ DeleteScenario \/ SessionKeyLost

(* Steps that are none of a turn leave requests alone.                      *)
LEMMA OthersFrame ==
  ASSUME Others
  PROVE  /\ UNCHANGED <<turnVars, plays, preview, base>>
         /\ log' = log \/ EndCheckpoints
<1>1. CASE Create BY <1>1 DEF Create, PlaceSession, EnqueueInit, EnqueueInitFails, sessionVars
<1>2. CASE InitJob \/ InitJobWrites \/ InitJobCancelled \/ InitJobReruns
  BY <1>2 DEF InitJob, InitJobReads, InitJobWrites, InitJobCancelled, InitJobReruns, sessionVars
<1>3. CASE LockExpires \/ DeleteScenario \/ SessionKeyLost
  BY <1>3 DEF LockExpires, DeleteScenario, PurgeSessions, DeleteRow, SessionKeyLost, sessionVars
<1>4. CASE End
  BY <1>4 DEF End, EndReads, EndStopsWaiting, EndRereads, EndCheckpoints, EndCommitFails,
              EndDeletes, sessionVars
<1> QED BY <1>1, <1>2, <1>3, <1>4 DEF Others

(* They change the session only to write what the init job read, or to take *)
(* it away.                                                                 *)
LEMMA OthersSession ==
  ASSUME Others
  PROVE  \/ ctx' = ctx \/ ctx'.status # "ready"
         \/ InitJobWrites /\ ctx' = got
<1>1. CASE Create BY <1>1 DEF Create, PlaceSession, EnqueueInit, EnqueueInitFails
<1>2. CASE InitJob \/ InitJobWrites \/ InitJobCancelled \/ InitJobReruns
  BY <1>2 DEF InitJob, InitJobReads, InitJobWrites, InitJobCancelled, InitJobReruns
<1>3. CASE LockExpires \/ DeleteScenario \/ SessionKeyLost
  BY <1>3 DEF LockExpires, DeleteScenario, PurgeSessions, DeleteRow, SessionKeyLost, NoSession
<1>4. CASE End
  <2>1. CASE EndDeletes BY <2>1 DEF EndDeletes, NoSession
  <2>2. CASE ~EndDeletes
    BY <1>4, <2>2 DEF End, EndReads, EndStopsWaiting, EndRereads, EndCheckpoints, EndCommitFails
  <2> QED BY <2>1, <2>2
<1> QED BY <1>1, <1>2, <1>3, <1>4 DEF Others

(* As long as turns exclude each other, what is about to be checkpointed is *)
(* what the session holds.                                                  *)
LEMMA StoreStep ==
  ASSUME ProgramTypes, AtMostOneTurn, NothingYet, StoreFollows, [Next]_vars
  PROVE  StoreFollows'
<1>1. ASSUME NEW r \in Req, Turn(r) \/ Crash(r) PROVE StoreFollows'
  <2>1. SUFFICES ASSUME NEW s \in Req, pc'[s] = "checkpoint", ctx'.status = "ready"
                 PROVE  ctx'.conv = Result(s)'
    BY DEF StoreFollows
  <2>2. CASE StoreTurn(r)
    <3>1. pc[r] = "engine" /\ ctx' = Ready(Result(r)) BY <2>2 DEF StoreTurn
    <3>2. s = r
      <4>1. s # r => pc[s] = "checkpoint" BY <1>1, <2>1, TurnFrame
      <4> QED BY <3>1, <4>1 DEF AtMostOneTurn, InTurn
    <3>3. Result(r)' = Result(r) BY <1>1, <3>1, TurnFrame DEF Result
    <3> QED BY <3>1, <3>2, <3>3 DEF Ready
  <2>3. CASE ~StoreTurn(r)
    <3>1. ctx' = ctx /\ pc[s] = "checkpoint"
      <4>1. s = r => pc'[s] # "checkpoint"
        BY <1>1, <2>3 DEF Turn, ReadSession, Acquire, EngineFails, Checkpoint, CountPlay,
                          CommitFails, Release, Crash, ProgramTypes
      <4>2. ctx' = ctx
        BY <1>1, <2>3 DEF Turn, ReadSession, Acquire, EngineFails, Checkpoint, CountPlay,
                          CommitFails, Release, Crash
      <4> QED BY <1>1, <2>1, <4>1, <4>2, TurnFrame
    <3>2. Result(s)' = Result(s) BY <1>1, <3>1, TurnFrame DEF Result
    <3> QED BY <2>1, <3>1, <3>2 DEF StoreFollows
  <2> QED BY <2>2, <2>3
<1>2. CASE Others
  <2>1. UNCHANGED turnVars /\ \A s \in Req : Result(s)' = Result(s)
    BY <1>2, OthersFrame DEF turnVars, Result
  <2>2. CASE ctx' = ctx \/ ctx'.status # "ready"
    BY <2>1, <2>2 DEF StoreFollows, turnVars
  <2>3. CASE InitJobWrites
    <3>1. \A r \in Req : pc[r] \in {"idle", "failed"}
      BY <2>3 DEF InitJobWrites, NothingYet, Unplayed
    <3> QED BY <2>1, <3>1 DEF StoreFollows, turnVars
  <2> QED BY <1>2, <2>2, <2>3, OthersSession
<1>3. CASE UNCHANGED vars BY <1>3 DEF vars, turnVars, StoreFollows, Result
<1> QED BY <1>1, <1>2, <1>3 DEF Next, Others

(* Nor is anything lost without a trace.                                    *)
LEMMA NoneLostBefore ==
  ASSUME ProgramTypes, Next, NoneLost'
  PROVE  NoneLost
<1>1. SUFFICES ASSUME NEW s \in Req, pc[s] \in {"gone", "torn", "half"} PROVE FALSE
  BY DEF NoneLost
<1>2. pc'[s] \in {"gone", "torn", "half"}
  <2>1. ASSUME NEW r \in Req, Turn(r) \/ Crash(r) PROVE pc'[s] \in {"gone", "torn", "half"}
    <3>1. CASE r # s BY <1>1, <2>1, <3>1, TurnFrame
    <3>2. CASE r = s
      BY <1>1, <2>1, <3>2 DEF Turn, ReadSession, Acquire, StoreTurn, EngineFails, Checkpoint,
                              CountPlay, CommitFails, Release, Crash, ProgramTypes, InTurn
    <3> QED BY <3>1, <3>2
  <2>2. CASE Others BY <1>1, <2>2, OthersFrame DEF turnVars
  <2> QED BY <2>1, <2>2 DEF Next, Others
<1> QED BY <1>2 DEF NoneLost

(* An end request that has committed goes on to take the session away.      *)
LEMMA DeleteEnds ==
  ASSUME Others, ctx'.status = "ready", ending' # "delete"
  PROVE  ending # "delete"
<1>1. ending = "delete" => ~End \/ EndDeletes
  BY DEF End, EndReads, EndStopsWaiting, EndRereads, EndCheckpoints, EndCommitFails
<1>2. ~EndDeletes
  <2>1. EndDeletes => ctx' = NoSession BY DEF EndDeletes
  <2> QED BY <2>1 DEF NoSession
<1>3. CASE Create BY <1>3 DEF Create, PlaceSession, EnqueueInit, EnqueueInitFails, endVars
<1>4. CASE InitJob \/ InitJobWrites \/ InitJobCancelled \/ InitJobReruns
  BY <1>4 DEF InitJob, InitJobReads, InitJobWrites, InitJobCancelled, InitJobReruns, endVars
<1>5. CASE LockExpires \/ DeleteScenario \/ SessionKeyLost
  BY <1>5 DEF LockExpires, DeleteScenario, PurgeSessions, DeleteRow, SessionKeyLost, endVars
<1> QED BY <1>1, <1>2, <1>3, <1>4, <1>5 DEF Others

(* A request that leaves the checkpoint has checkpointed, or is lost.       *)
LEMMA LogStep ==
  ASSUME ProgramTypes, AtMostOneTurn, NothingYet, StoreFollows, LogFollows, [Next]_vars
  PROVE  LogFollows'
<1> USE DEF ProgramTypes
<1>1. SUFFICES ASSUME Next, NoneLost', ~preview', ctx'.status = "ready", ending' # "delete",
                      \A r \in Req : pc'[r] # "checkpoint"
               PROVE  ctx'.conv = Logged'
  BY DEF LogFollows, vars, turnVars, endVars, sessionVars, Logged, NoneLost
<1>2. NoneLost BY <1>1, NoneLostBefore
<1>3. ASSUME NEW r \in Req, Turn(r) \/ Crash(r) PROVE ctx'.conv = Logged'
  <2>1. UNCHANGED <<preview, base, ending>> BY <1>3, TurnFrame
  <2>2. CASE Checkpoint(r)
    <3>1. pc[r] = "checkpoint" /\ ctx' = ctx /\ log' = Upserted(Result(r))
      BY <1>1, <2>1, <2>2 DEF Checkpoint
    <3>2. ctx.conv = Result(r) BY <1>1, <3>1 DEF StoreFollows
    <3> QED BY <3>1, <3>2 DEF Upserted, Logged
  <2>3. CASE ~Checkpoint(r)
    <3>1. ~StoreTurn(r) BY <1>1 DEF StoreTurn
    <3>2. ctx' = ctx /\ log' = log
      BY <1>3, <2>3, <3>1 DEF Turn, ReadSession, Acquire, EngineFails, CountPlay, CommitFails,
                          Release, Crash
    <3>3. pc[r] # "checkpoint"
      BY <1>1, <1>3, <2>3, <3>1
         DEF Turn, ReadSession, Acquire, EngineFails, CountPlay, CommitFails, Release, Crash, NoneLost
    <3>4. \A s \in Req : pc[s] # "checkpoint" BY <1>1, <1>3, <3>3, TurnFrame
    <3> QED BY <1>1, <1>2, <2>1, <3>2, <3>4 DEF LogFollows, Logged
  <2> QED BY <2>2, <2>3
<1>4. CASE Others
  <2>1. UNCHANGED <<pc, preview, base>> /\ (log' = log \/ EndCheckpoints)
    BY <1>4, OthersFrame DEF turnVars
  <2>2. log' = log BY <1>1, <2>1 DEF EndCheckpoints
  <2>3. ending # "delete" BY <1>1, <1>4, DeleteEnds
  <2>4. CASE ctx' = ctx
    BY <1>1, <1>2, <2>1, <2>2, <2>3, <2>4 DEF LogFollows, Logged
  <2>5. CASE InitJobWrites /\ ctx' = got
    <3>1. init = "read" BY <2>5 DEF InitJobWrites, NothingYet
    <3>2. got = Ready(base) BY <1>1, <2>5, <3>1 DEF NothingYet
    <3>3. log.state \in {"none", "void"} BY <3>1 DEF NothingYet, Unplayed
    <3> QED BY <2>1, <2>2, <2>5, <3>2, <3>3 DEF Ready, Logged
  <2> QED BY <1>1, <1>4, <2>4, <2>5, OthersSession
<1> QED BY <1>1, <1>3, <1>4 DEF Next, Others

(* What was checkpointed stays in the row until it is answered, or the      *)
(* session is ended.                                                        *)
LEMMA AnswerStep ==
  ASSUME ProgramTypes, AtMostOneTurn, AnswerFollows, [Next]_vars
  PROVE  AnswerFollows'
<1> USE DEF ProgramTypes
<1>1. SUFFICES ASSUME NEW s \in Req, pc'[s] \in {"count", "unlock"}, ~preview',
                      log'.state = "open"
               PROVE  log'.conv = Result(s)'
  BY DEF AnswerFollows
<1>2. ASSUME NEW r \in Req, Turn(r) \/ Crash(r) PROVE log'.conv = Result(s)'
  <2>1. UNCHANGED preview BY <1>2, TurnFrame
  <2>2. CASE Checkpoint(r)
    <3>1. pc[r] = "checkpoint" /\ log' = Upserted(Result(r)) BY <1>1, <2>1, <2>2 DEF Checkpoint
    <3>2. r = s
      <4>1. r # s => pc[s] \in {"count", "unlock"} BY <1>1, <1>2, TurnFrame
      <4> QED BY <3>1, <4>1 DEF AtMostOneTurn, InTurn
    <3>3. Result(r)' = Result(r) BY <1>2, <3>1, TurnFrame DEF Result
    <3> QED BY <3>1, <3>2, <3>3 DEF Upserted
  <2>3. CASE ~Checkpoint(r)
    <3>1. log' = log
      BY <1>2, <2>3 DEF Turn, ReadSession, Acquire, StoreTurn, EngineFails, CountPlay,
                        CommitFails, Release, Crash
    <3>2. pc[s] \in {"count", "unlock"}
      <4>1. CASE r # s BY <1>1, <1>2, <4>1, TurnFrame
      <4>2. CASE r = s
        BY <1>1, <1>2, <2>3, <4>2 DEF Turn, ReadSession, Acquire, StoreTurn, EngineFails,
                                  CountPlay, CommitFails, Release, Crash
      <4> QED BY <4>1, <4>2
    <3>3. Result(s)' = Result(s)
      <4>1. r = s => mode' = mode /\ snap' = snap BY <1>2, <3>2, TurnFrame
      <4> QED BY <1>2, <4>1, TurnFrame DEF Result
    <3> QED BY <1>1, <2>1, <3>1, <3>2, <3>3 DEF AnswerFollows
  <2> QED BY <2>2, <2>3
<1>3. CASE Others
  <2>1. UNCHANGED <<turnVars, preview>> /\ (log' = log \/ EndCheckpoints)
    BY <1>3, OthersFrame
  <2>2. log' = log BY <1>1, <2>1 DEF EndCheckpoints
  <2> QED BY <1>1, <2>1, <2>2 DEF AnswerFollows, turnVars, Result
<1>4. CASE UNCHANGED vars BY <1>1, <1>4 DEF vars, turnVars, sessionVars, AnswerFollows, Result
<1> QED BY <1>2, <1>3, <1>4 DEF Next, Others

(* What a request stores ends with its own turn.                            *)
LEMMA ResultEnds ==
  ASSUME NEW r \in Req, snap[r] \in Conversation,
         mode[r] = "regenerate" => Len(snap[r]) > 0
  PROVE  Result(r)[Len(Result(r))] = r
<1>1. snap[r] \in Seq(Content) /\ r \in Content BY DEF Conversation, Content
<1>2. CASE mode[r] = "regenerate"
  <2>1. Len(snap[r]) \in 1..Len(snap[r]) BY <1>1, <1>2, LenProperties
  <2>2. Result(r) = [snap[r] EXCEPT ![Len(snap[r])] = r] BY <1>2 DEF Result
  <2>3. Result(r) \in Seq(Content) /\ Len(Result(r)) = Len(snap[r])
        /\ Result(r)[Len(snap[r])] = r
    BY <1>1, <2>1, <2>2, ExceptSeq
  <2> QED BY <2>3
<1>3. CASE mode[r] # "regenerate"
  BY <1>1, <1>3, AppendProperties DEF Result
<1> QED BY <1>2, <1>3

(* Whatever was lost before, a turn that is checkpointed leaves the whole   *)
(* session in the row, until another turn is stored.                        *)
LEMMA TopStep ==
  ASSUME ProgramTypes, AtMostOneTurn, NothingYet, StoreFollows, TopFollows, [Next]_vars
  PROVE  TopFollows'
<1> USE DEF ProgramTypes
<1>1. SUFFICES ASSUME NEW s \in Req, pc'[s] \in {"count", "unlock", "done"}, ~preview',
                      ending' # "delete", ctx'.status = "ready", ctx'.conv # <<>>,
                      ctx'.conv[Len(ctx'.conv)] = s
               PROVE  log'.conv = ctx'.conv
  BY DEF TopFollows
<1>2. ASSUME NEW r \in Req, Turn(r) \/ Crash(r) PROVE log'.conv = ctx'.conv
  <2>1. UNCHANGED <<preview, ending>> BY <1>2, TurnFrame
  <2>2. CASE Checkpoint(r)
    <3>1. pc[r] = "checkpoint" /\ ctx' = ctx /\ log' = Upserted(Result(r))
      BY <1>1, <2>1, <2>2 DEF Checkpoint
    <3>2. ctx.conv = Result(r) BY <1>1, <3>1 DEF StoreFollows
    <3> QED BY <3>1, <3>2 DEF Upserted
  <2>3. CASE StoreTurn(r)
    <3>1. ctx'.conv = Result(r) /\ pc'[r] = "checkpoint" BY <2>3 DEF StoreTurn, Ready
    <3>2. Result(r)[Len(Result(r))] = r BY <2>3, ResultEnds DEF StoreTurn
    <3> QED BY <1>1, <3>1, <3>2
  <2>4. CASE ~Checkpoint(r) /\ ~StoreTurn(r)
    <3>1. ctx' = ctx /\ log' = log
      BY <1>2, <2>4 DEF Turn, ReadSession, Acquire, EngineFails, CountPlay, CommitFails,
                        Release, Crash
    <3>2. pc[s] \in {"count", "unlock", "done"}
      <4>1. CASE r # s BY <1>1, <1>2, <4>1, TurnFrame
      <4>2. CASE r = s
        BY <1>1, <1>2, <2>4, <4>2 DEF Turn, ReadSession, Acquire, EngineFails, CountPlay,
                                      CommitFails, Release, Crash
      <4> QED BY <4>1, <4>2
    <3> QED BY <1>1, <2>1, <3>1, <3>2 DEF TopFollows
  <2> QED BY <2>2, <2>3, <2>4
<1>3. CASE Others
  <2>1. UNCHANGED <<pc, preview>> /\ (log' = log \/ EndCheckpoints)
    BY <1>3, OthersFrame DEF turnVars
  <2>2. log' = log BY <1>1, <2>1 DEF EndCheckpoints
  <2>3. ending # "delete" BY <1>1, <1>3, DeleteEnds
  <2>4. ~InitJobWrites
    BY <1>1, <2>1 DEF InitJobWrites, NothingYet, Unplayed
  <2> QED BY <1>1, <1>3, <2>1, <2>2, <2>3, <2>4, OthersSession DEF TopFollows
<1>4. CASE UNCHANGED vars
  BY <1>1, <1>4 DEF vars, turnVars, sessionVars, endVars, TopFollows
<1> QED BY <1>2, <1>3, <1>4 DEF Next, Others

(* A first turn is counted before its request is answered, and whoever goes *)
(* on from it finds it counted or about to be.                              *)
LEMMA CountStep ==
  ASSUME ProgramTypes, CountFollows, [Next]_vars
  PROVE  CountFollows'
<1> DEFINE Unseen == /\ ctx.status = "ready" => ctx.conv = <<>>
                     /\ \A r \in Req : pc[r] \in {"acquire"} \union InTurn => snap[r] = <<>>
           Asked == NoneLost /\ ~preview /\ scenario # "gone" /\ base = <<>>
<1>1. init' \in {"read", "reread"} /\ got'.status = "ready" => got'.conv = base'
  <2>1. CASE \E r \in Req : Turn(r) \/ Crash(r) BY <2>1, TurnFrame DEF CountFollows
  <2>2. CASE InitJob
    <3>1. PICK outcome \in {"ready", "error"} : InitJobReads(outcome) BY <2>2 DEF InitJob
    <3> QED BY <3>1 DEF InitJobReads, sessionVars
  <2>3. CASE Create \/ InitJobWrites \/ InitJobCancelled \/ InitJobReruns
    BY <2>3 DEF Create, PlaceSession, EnqueueInit, EnqueueInitFails, InitJobWrites,
                InitJobCancelled, InitJobReruns
  <2>4. CASE LockExpires \/ End \/ DeleteScenario \/ SessionKeyLost
    <3>1. UNCHANGED <<init, got, base>>
      BY <2>4 DEF LockExpires, DeleteScenario, PurgeSessions, DeleteRow, SessionKeyLost, End,
                  EndReads, EndStopsWaiting, EndRereads, EndCheckpoints, EndCommitFails,
                  EndDeletes, initVars, sessionVars
    <3> QED BY <3>1 DEF CountFollows
  <2>5. CASE UNCHANGED vars BY <2>5 DEF vars, initVars, sessionVars, CountFollows
  <2> QED BY <2>1, <2>2, <2>3, <2>4, <2>5 DEF Next
<1>2. SUFFICES ASSUME Next, Asked' PROVE plays' >= 1 \/ Counting' \/ Unseen'
  <2>1. CASE UNCHANGED vars
    BY <1>1, <2>1 DEF vars, turnVars, sessionVars, CountFollows, Counting, NoneLost, Result
  <2> QED BY <1>1, <1>2, <2>1 DEF CountFollows
<1>3. Asked
  <2>1. NoneLost BY <1>2, NoneLostBefore
  <2>2. preview' = preview /\ base' = base
    BY <1>2, TurnFrame, OthersFrame DEF Next, Others
  <2>3. scenario # "gone"
    <3>1. CASE \E r \in Req : Turn(r) \/ Crash(r) BY <1>2, <3>1, TurnFrame
    <3>2. CASE DeleteScenario BY <1>2, <3>2 DEF DeleteScenario, PurgeSessions, DeleteRow
    <3>3. CASE ~DeleteScenario /\ Others
      BY <1>2, <3>3 DEF Others, Create, PlaceSession, EnqueueInit, EnqueueInitFails, InitJob,
           InitJobReads, InitJobWrites, InitJobCancelled, InitJobReruns, LockExpires,
           SessionKeyLost, End, EndReads, EndStopsWaiting, EndRereads, EndCheckpoints,
           EndCommitFails, EndDeletes, sessionVars
    <3> QED BY <1>2, <3>1, <3>2, <3>3 DEF Next, Others
  <2> QED BY <1>2, <2>1, <2>2, <2>3
<1>4. plays >= 1 \/ Counting \/ Unseen BY <1>3 DEF CountFollows
<1>5. plays \in Nat BY DEF ProgramTypes
<1>6. ASSUME NEW r \in Req, Turn(r) \/ Crash(r)
      PROVE  plays' >= 1 \/ Counting' \/ Unseen'
  <2>1. pc[r] # "idle" => \A s \in Req : Result(s)' = Result(s) BY <1>6, TurnFrame DEF Result
  <2>2. ASSUME NEW s \in Req \ {r} PROVE Result(s)' = Result(s) /\ mode'[s] = mode[s] /\ pc'[s] = pc[s]
    BY <1>6, TurnFrame DEF Result
  <2>3. CASE CountPlay(r)
    <3>1. plays' >= plays BY <1>5, <2>3 DEF CountPlay
    <3>2. CASE Len(Result(r)) = 1 /\ mode[r] # "regenerate"
      BY <1>3, <1>5, <2>3, <3>2 DEF CountPlay
    <3>3. CASE ~(Len(Result(r)) = 1 /\ mode[r] # "regenerate")
      <4>1. Counting => Counting' BY <2>2, <3>3 DEF Counting
      <4>2. Unseen => Unseen'
        BY <2>3 DEF CountPlay, ProgramTypes, InTurn
      <4>3. plays' \in Nat BY <1>2, ProgramTypeStep DEF ProgramTypes
      <4>4. plays >= 1 => plays' >= 1 BY <1>5, <3>1, <4>3
      <4> QED BY <1>4, <4>1, <4>2, <4>4
    <3> QED BY <3>2, <3>3
  <2>4. CASE ~CountPlay(r)
    <3>1. plays' = plays
      BY <1>6, <2>4 DEF Turn, ReadSession, Acquire, StoreTurn, EngineFails, Checkpoint,
                        CommitFails, Release, Crash
    <3>2. Counting => Counting'
      <4>1. SUFFICES ASSUME NEW s \in Req, pc[s] \in {"checkpoint", "count"},
                            Len(Result(s)) = 1, mode[s] # "regenerate"
                     PROVE  Counting'
        BY DEF Counting
      <4>2. CASE s # r BY <2>2, <4>1, <4>2 DEF Counting
      <4>3. CASE s = r
        <5>1. pc'[r] \in {"checkpoint", "count"}
          BY <1>2, <1>6, <2>4, <4>1, <4>3 DEF Turn, ReadSession, Acquire, StoreTurn,
               EngineFails, Checkpoint, CommitFails, Release, Crash, NoneLost, ProgramTypes
        <5>2. mode' = mode BY <1>6, <4>1, <4>3, TurnFrame
        <5> QED BY <2>1, <4>1, <4>3, <5>1, <5>2 DEF Counting
      <4> QED BY <4>2, <4>3
    <3>3. CASE Unseen /\ StoreTurn(r)
      <4>1. pc[r] = "engine" /\ snap[r] = <<>> /\ mode[r] # "regenerate"
        <5>1. pc[r] = "engine" /\ snap[r] = <<>> BY <3>3 DEF StoreTurn, InTurn
        <5>2. Len(<<>>) = 0 BY EmptySeq
        <5> QED BY <3>3, <5>1, <5>2 DEF StoreTurn
      <4>2. <<>> \in Conversation /\ r \in Content BY EmptySeq DEF Conversation, Content
      <4>3. Len(Result(r)) = 1
        <5>1. Result(r) = Append(<<>>, r) BY <4>1 DEF Result
        <5> QED BY <4>2, <5>1, AppendProperties, EmptySeq DEF Conversation
      <4>4. pc'[r] = "checkpoint" /\ mode' = mode BY <3>3 DEF StoreTurn, ProgramTypes
      <4> QED BY <2>1, <4>1, <4>3, <4>4 DEF Counting
    <3>4. CASE Unseen /\ ReadSession(r)
      BY <3>4 DEF ReadSession, ProgramTypes, InTurn
    <3>5. CASE Unseen /\ ~StoreTurn(r) /\ ~ReadSession(r)
      BY <1>6, <2>4, <3>5 DEF Turn, Acquire, EngineFails, Checkpoint, CommitFails, Release,
           Crash, ProgramTypes, InTurn
    <3> QED BY <1>4, <3>1, <3>2, <3>3, <3>4, <3>5
  <2> QED BY <2>3, <2>4
<1>7. CASE Others
  <2>1. UNCHANGED <<turnVars, plays>> BY <1>7, OthersFrame
  <2>2. Counting => Counting' BY <2>1 DEF Counting, turnVars, Result
  <2>3. Unseen => Unseen'
    <3>1. CASE ctx' = ctx \/ ctx'.status # "ready" BY <2>1, <3>1 DEF turnVars
    <3>2. CASE InitJobWrites /\ ctx' = got
      <4>1. got.status = "ready" => got.conv = <<>>
        BY <1>3, <3>2 DEF InitJobWrites, CountFollows
      <4> QED BY <2>1, <3>2, <4>1 DEF turnVars
    <3> QED BY <1>7, <3>1, <3>2, OthersSession
  <2> QED BY <1>4, <2>1, <2>2, <2>3
<1> QED BY <1>2, <1>6, <1>7 DEF Next, Others

(* Before anything happened, row, session and counter agree.                *)
LEMMA CheckpointInit ==
  Init => ProgramTypes /\ OwnsLock /\ NothingYet /\ StoreFollows /\ LogFollows
            /\ AnswerFollows /\ TopFollows /\ CountFollows
BY ProgramInit
   DEF Init, OwnsLock, NothingYet, StoreFollows, LogFollows, AnswerFollows, TopFollows,
       CountFollows, Unplayed, NoSession, NoLog, InTurn

(* A lock has one owner, so that two turns do not run at once.              *)
LEMMA OwnersExclude == OwnsLock => AtMostOneTurn
BY DEF OwnsLock, AtMostOneTurn

(* When nothing runs, a resume reads from Postgres what the session holds   *)
(* in Redis, for any number of turn requests and an end request, as long as *)
(* no turn outlasts its lock and the init job runs once.                    *)
THEOREM CheckpointsFollow ==
  ASSUME "lease" \notin Faults, "rerun" \notin Faults
  PROVE  Spec => []LogMatchesSession
<1> DEFINE Known == ProgramTypes /\ OwnsLock /\ NothingYet /\ StoreFollows /\ LogFollows
<1>1. Init => Known BY CheckpointInit
<1>2. Known /\ [Next]_vars => Known'
  BY ProgramStep, OwnsLockStep, OwnersExclude, NothingYetStep, StoreStep, LogStep
<1>3. Known => LogMatchesSession
  BY DEF LogMatchesSession, LogFollows, Quiet, InTurn, Logged
<1> QED BY <1>1, <1>2, <1>3, PTL DEF Spec

(* A turn is answered with 200 only when the row of an open session holds   *)
(* it, as long as no turn outlasts its lock.                                *)
THEOREM AnswersAreLogged ==
  ASSUME "lease" \notin Faults
  PROVE  Spec => AnsweredMeansLogged
<1> DEFINE Known == ProgramTypes /\ OwnsLock /\ AnswerFollows
           A == \A r \in Req : pc[r] = "unlock" /\ pc'[r] = "done" /\ ~preview /\ log.state = "open"
                  => log.conv = Result(r)
<1>1. Init => Known BY CheckpointInit
<1>2. Known /\ [Next]_vars => Known'
  BY ProgramStep, OwnsLockStep, OwnersExclude, AnswerStep
<1>3. Known => A BY DEF AnswerFollows
<1>4. Known /\ [Next]_vars => [A]_vars BY <1>3
<1> QED BY <1>1, <1>2, <1>4, PTL DEF Spec, AnsweredMeansLogged

(* Whatever died or failed before, a turn that was answered and that is the *)
(* session's last leaves the whole session in its row, as long as no turn   *)
(* outlasts its lock and the init job runs once.                            *)
THEOREM LostTurnsAreMadeUpFor ==
  ASSUME "lease" \notin Faults, "rerun" \notin Faults
  PROVE  Spec => []LastAnswerIsLogged
<1> DEFINE Known == ProgramTypes /\ OwnsLock /\ NothingYet /\ StoreFollows /\ TopFollows
<1>1. Init => Known BY CheckpointInit
<1>2. Known /\ [Next]_vars => Known'
  BY ProgramStep, OwnsLockStep, OwnersExclude, NothingYetStep, StoreStep, TopStep
<1>3. Known => LastAnswerIsLogged BY DEF LastAnswerIsLogged, TopFollows
<1> QED BY <1>1, <1>2, <1>3, PTL DEF Spec

(* A first turn that stays is counted, whatever happens to locks, jobs and  *)
(* keys.                                                                    *)
THEOREM PlaysAreCounted == Spec => []PlayedMeansCounted
<1> DEFINE Known == ProgramTypes /\ CountFollows
<1>1. Init => Known BY CheckpointInit
<1>2. Known /\ [Next]_vars => Known' BY ProgramStep, CountStep
<1>3. Known => PlayedMeansCounted
  BY DEF PlayedMeansCounted, CountFollows, Counting, Quiet, InTurn
<1> QED BY <1>1, <1>2, <1>3, PTL DEF Spec

-----------------------------------------------------------------------------
(* The end request that waited.                                             *)

\* Since its wait was over, the session is what the row holds and what the end
\* request read again.
CalmAgrees ==
  calm /\ NoneLost /\ ~leased /\ ~preview =>
    /\ ending \in {"free", "upsert"} /\ ctx.status = "ready"
    /\ log.state = "open" => log.conv = ctx.conv
    /\ ending = "upsert" => endctx = ctx

(* Whatever moves the session or its row while an end request is past its   *)
(* wait is a turn, and a turn ends the calm.                                *)
LEMMA CalmStep ==
  ASSUME TypeOK, HoldsLock, CalmAgrees, ~leased => StoreFollows /\ LogFollows, [HNext]_hvars
  PROVE  CalmAgrees'
<1> USE DEF TypeOK, ProgramTypes
<1>1. SUFFICES ASSUME HNext, calm', NoneLost', ~leased', ~preview' PROVE CalmAgrees'
  BY DEF CalmAgrees, hvars, vars, turnVars, endVars, sessionVars, NoneLost
<1>2. /\ ~leased /\ NoneLost /\ Next /\ preview' = preview /\ ending' \in {"free", "upsert"}
      /\ IF ending = "wait" THEN ctx.status = "ready" ELSE calm /\ ctx' = ctx
  <2>1. Next BY <1>1 DEF HNext
  <2>2. preview' = preview BY <2>1, TurnFrame, OthersFrame DEF Next, Others
  <2> QED BY <1>1, <2>1, <2>2, NoneLostBefore DEF HNext, HistoryStep
<1>3. CASE ending = "wait"
  <2>1. EndStopsWaiting
    <3>1. ~EndReads /\ ~EndRereads /\ ~EndCheckpoints /\ ~EndCommitFails /\ ~EndDeletes
      BY <1>3 DEF EndReads, EndRereads, EndCheckpoints, EndCommitFails, EndDeletes
    <3>2. ASSUME ~End PROVE ending' = ending
      <4>1. CASE \E r \in Req : Turn(r) \/ Crash(r) BY <4>1, TurnFrame
      <4>2. CASE Create BY <4>2 DEF Create, PlaceSession, EnqueueInit, EnqueueInitFails, endVars
      <4>3. CASE InitJob \/ InitJobWrites \/ InitJobCancelled \/ InitJobReruns
        BY <4>3 DEF InitJob, InitJobReads, InitJobWrites, InitJobCancelled, InitJobReruns, endVars
      <4>4. CASE LockExpires \/ DeleteScenario \/ SessionKeyLost
        BY <4>4 DEF LockExpires, DeleteScenario, PurgeSessions, DeleteRow, SessionKeyLost, endVars
      <4> QED BY <1>2, <3>2, <4>1, <4>2, <4>3, <4>4 DEF Next
    <3> QED BY <1>2, <1>3, <3>1, <3>2 DEF End
  <2>2. lock = Free /\ ending' = "free" /\ UNCHANGED <<ctx, log>>
    BY <1>2, <2>1 DEF EndStopsWaiting
  <2>3. \A r \in Req : pc[r] \notin InTurn BY <1>2, <2>2, FreshNames DEF HoldsLock
  <2>4. ctx.conv = Logged BY <1>1, <1>2, <1>3, <2>3 DEF LogFollows, InTurn
  <2> QED BY <1>2, <1>3, <2>2, <2>4 DEF CalmAgrees, Logged
<1>4. CASE ending # "wait"
  <2>1. /\ ending \in {"free", "upsert"} /\ ctx.status = "ready" /\ ctx' = ctx
        /\ log.state = "open" => log.conv = ctx.conv
        /\ ending = "upsert" => endctx = ctx
    BY <1>1, <1>2, <1>4 DEF CalmAgrees
  <2>2. ending' = "upsert" => endctx' = ctx
    <3>1. CASE End
      <4>1. ~EndReads /\ ~EndStopsWaiting /\ ~EndCheckpoints /\ ~EndCommitFails /\ ~EndDeletes
        BY <1>2, <2>1 DEF EndReads, EndStopsWaiting, EndCheckpoints, EndCommitFails, EndDeletes
      <4>2. EndRereads BY <3>1, <4>1 DEF End
      <4> QED BY <2>1, <4>2 DEF EndRereads
    <3>2. CASE ~End
      <4>1. CASE \E r \in Req : Turn(r) \/ Crash(r) BY <2>1, <4>1, TurnFrame
      <4>2. CASE Create BY <2>1, <4>2 DEF Create, PlaceSession, EnqueueInit, EnqueueInitFails, endVars
      <4>3. CASE InitJob \/ InitJobWrites \/ InitJobCancelled \/ InitJobReruns
        BY <2>1, <4>3 DEF InitJob, InitJobReads, InitJobWrites, InitJobCancelled, InitJobReruns, endVars
      <4>4. CASE LockExpires \/ DeleteScenario \/ SessionKeyLost
        BY <2>1, <4>4 DEF LockExpires, DeleteScenario, PurgeSessions, DeleteRow, SessionKeyLost, endVars
      <4> QED BY <1>2, <3>2, <4>1, <4>2, <4>3, <4>4 DEF Next
    <3> QED BY <3>1, <3>2
  <2>3. log'.state = "open" => log'.conv = ctx.conv
    <3>1. ASSUME NEW r \in Req, Turn(r) \/ Crash(r)
          PROVE  log'.state = "open" => log'.conv = ctx.conv
      <4>1. CASE Checkpoint(r)
        <5>1. pc[r] = "checkpoint" /\ log' = Upserted(Result(r))
          BY <1>1, <1>2, <4>1 DEF Checkpoint
        <5>2. ctx.conv = Result(r) BY <1>2, <2>1, <5>1 DEF StoreFollows
        <5> QED BY <5>1, <5>2 DEF Upserted
      <4>2. CASE ~Checkpoint(r)
        <5>1. log' = log
          BY <3>1, <4>2 DEF Turn, ReadSession, Acquire, StoreTurn, EngineFails, CountPlay,
                            CommitFails, Release, Crash
        <5> QED BY <2>1, <5>1
      <4> QED BY <4>1, <4>2
    <3>2. CASE Others
      <4>1. ~EndCheckpoints BY <1>2 DEF EndCheckpoints
      <4> QED BY <2>1, <3>2, <4>1, OthersFrame
    <3> QED BY <1>2, <3>1, <3>2 DEF Next, Others
  <2> QED BY <1>2, <2>1, <2>2, <2>3 DEF CalmAgrees
<1> QED BY <1>3, <1>4

(* An end request that waited until the lock was free, with no write since, *)
(* reverts nothing in the row, with an init job that runs once.             *)
THEOREM PatientEndIsSafe ==
  ASSUME "rerun" \notin Faults
  PROVE  HSpec => PatientEndKeepsLog
<1> DEFINE Follows == NothingYet /\ (~leased => StoreFollows /\ LogFollows)
           A == ending = "upsert" /\ ending' = "delete" /\ calm /\ log.state = "open"
                  /\ NoneLost /\ ~leased
                => log'.conv = log.conv
<1>1. HInit => HoldsLock /\ Follows /\ CalmAgrees
  BY CheckpointInit DEF HInit, HoldsLock, OwnsLock, CalmAgrees
<1>2. TypeOK /\ HoldsLock /\ [HNext]_hvars => HoldsLock' BY HoldsLockStep
<1>3. TypeOK /\ HoldsLock /\ Follows /\ [HNext]_hvars => Follows'
  <2>1. SUFFICES ASSUME TypeOK, HoldsLock, Follows, [HNext]_hvars PROVE Follows' OBVIOUS
  <2>2. ProgramTypes /\ [Next]_vars BY <2>1 DEF TypeOK, HNext, hvars
  <2>3. NothingYet' BY <2>1, <2>2, NothingYetStep
  <2>4. ASSUME ~leased' PROVE StoreFollows' /\ LogFollows'
    <3>1. ~leased BY <2>1, <2>4 DEF HNext, HistoryStep, hvars
    <3>2. AtMostOneTurn BY <2>1, <3>1 DEF HoldsLock, AtMostOneTurn
    <3> QED BY <2>1, <2>2, <3>1, <3>2, StoreStep, LogStep
  <2> QED BY <2>3, <2>4
<1>4. TypeOK /\ HoldsLock /\ Follows /\ CalmAgrees /\ [HNext]_hvars => CalmAgrees'
  BY CalmStep
<1>5. TypeOK /\ CalmAgrees /\ [HNext]_hvars => [A]_hvars
  <2>1. SUFFICES ASSUME TypeOK, CalmAgrees, HNext, ending = "upsert", ending' = "delete",
                        calm, log.state = "open", NoneLost, ~leased
                 PROVE  log'.conv = log.conv
    OBVIOUS
  <2>2. EndCheckpoints
    <3>1. ~(\E r \in Req : Turn(r) \/ Crash(r)) BY <2>1, TurnFrame DEF TypeOK
    <3>2. ~Create BY <2>1 DEF Create, PlaceSession, EnqueueInit, EnqueueInitFails, endVars
    <3>3. ~(InitJob \/ InitJobWrites \/ InitJobCancelled \/ InitJobReruns)
      BY <2>1 DEF InitJob, InitJobReads, InitJobWrites, InitJobCancelled, InitJobReruns, endVars
    <3>4. ~(LockExpires \/ DeleteScenario \/ SessionKeyLost)
      BY <2>1 DEF LockExpires, DeleteScenario, PurgeSessions, DeleteRow, SessionKeyLost, endVars
    <3>5. ~EndReads /\ ~EndStopsWaiting /\ ~EndRereads /\ ~EndCommitFails /\ ~EndDeletes
      BY <2>1 DEF EndReads, EndStopsWaiting, EndRereads, EndCommitFails, EndDeletes
    <3> QED BY <2>1, <3>1, <3>2, <3>3, <3>4, <3>5 DEF HNext, Next, End
  <2>3. CASE preview BY <2>2, <2>3 DEF EndCheckpoints
  <2>4. CASE ~preview
    <3>1. log'.conv = endctx.conv BY <2>2, <2>4 DEF EndCheckpoints
    <3> QED BY <2>1, <2>4, <3>1 DEF CalmAgrees
  <2> QED BY <2>3, <2>4
<1>6. HSpec => HInit /\ [][HNext]_hvars BY DEF HSpec, HNext
<1> QED BY <1>1, <1>2, <1>3, <1>4, <1>5, <1>6, Types, PTL DEF PatientEndKeepsLog
=============================================================================
