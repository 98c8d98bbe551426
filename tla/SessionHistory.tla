--------------------------- MODULE SessionHistory ---------------------------
(***************************************************************************)
(* SessionTurns with four history variables, and the properties of a play  *)
(* session that need them.  The history variables guard nothing: they      *)
(* record which conversations have been current, which running turns read  *)
(* a conversation that was still current when they took the lock, whether  *)
(* the session is as the end request found it after its wait, and whether  *)
(* a turn has ever outlasted its lock.                                     *)
(***************************************************************************)
EXTENDS SessionTurns

VARIABLES versions, fresh, calm, leased

hvars == <<vars, versions, fresh, calm, leased>>

HInit == Init /\ versions = {} /\ fresh = {} /\ calm = FALSE /\ leased = FALSE

HistoryStep ==
  /\ versions' = IF ctx'.status = "ready" THEN versions \union {ctx'.conv} ELSE versions
  /\ fresh' = {r \in Req : /\ pc'[r] \in InTurn
                           /\ r \in fresh \/ (pc[r] = "acquire" /\ ctx = Ready(snap[r]))}
  /\ calm' = /\ ending' \in {"free", "upsert"}
             /\ IF ending = "wait" THEN ctx.status = "ready" ELSE calm /\ ctx' = ctx
  /\ leased' = (leased \/ (LockExpires /\ pc[lock] \in InTurn))

HSpec == HInit /\ [][Next /\ HistoryStep]_hvars

-----------------------------------------------------------------------------
ProgramTypes ==
  /\ ctx \in [status : Status, conv : Conversation]
  /\ lock \in Req \union {Free}
  /\ log \in [state : {"none", "open", "ended", "void"}, conv : Conversation]
  /\ plays \in Nat
  /\ tracked \in BOOLEAN /\ preview \in BOOLEAN
  /\ scenario \in {"there", "purged", "gone"}
  /\ base \in Conversation
  /\ init \in {"none", "placed", "refused", "queued", "read", "written",
               "requeued", "reread", "over", "cancelled"}
  /\ got \in [status : Status, conv : Conversation]
  /\ pc \in [Req -> PC] /\ mode \in [Req -> AllModes] /\ snap \in [Req -> Conversation]
  /\ ending \in {"idle", "wait", "free", "busy", "upsert", "delete", "ended", "failed"}
  /\ endctx \in [status : Status, conv : Conversation]

TypeOK == /\ ProgramTypes
          /\ versions \subseteq Conversation
          /\ fresh \subseteq Req
          /\ calm \in BOOLEAN /\ leased \in BOOLEAN

(* A turn that read the current conversation before it took the lock still  *)
(* continues the current conversation when it writes: nothing wrote in      *)
(* between, as long as no turn outlasted its lock (without "rerun").  What  *)
(* the lock cannot give back is only what was lost before it was taken.     *)
FreshTurnIsCurrent ==
  ~leased => \A r \in fresh : pc[r] = "engine" /\ ctx.status = "ready" => ctx.conv = snap[r]

(* An end request that waited until the lock was free, with no write since, *)
(* closes the log row without changing its conversation: the turn it waited *)
(* for is not reverted (end_session, the re-read after the wait).           *)
PatientEndKeepsLog ==
  [][ending = "upsert" /\ ending' = "delete" /\ calm /\ log.state = "open"
      /\ NoneLost /\ ~leased
        => log'.conv = log.conv]_hvars

Abstract == INSTANCE ForkingLog WITH
  Openings <- {<<>>, <<Old>>},
  Absent <- Free,
  head <- IF ctx.status = "ready" THEN ctx.conv ELSE Free

(* Every change of the session's conversation adds one turn to, or redoes   *)
(* the last turn of, a conversation that was current before (ForkingLog).   *)
ImplementsForkingLog == Abstract!Spec

-----------------------------------------------------------------------------
(* What the comments and tests of the code say and the code does not do;    *)
(* TLC refutes them with session_overwrite.cfg and session_end.cfg.         *)

(* The lock rules out "the exact concurrent-write race this lock exists to  *)
(* prevent" (main.py, _execute_turn): no turn overwrites a conversation it  *)
(* has not read.                                                            *)
NoTurnOverwritten ==
  [][\A r \in Req : pc[r] = "engine" /\ pc'[r] = "checkpoint" /\ ctx.status = "ready"
        => ctx.conv = snap[r]]_vars

(* end_session re-reads the session so that it does not revert the most     *)
(* recently completed turn in the log (main.py, end_session).               *)
EndNeverReverts ==
  [][ending = "upsert" /\ ending' = "delete" /\ log.state = "open"
        => Len(log'.conv) >= Len(log.conv)]_vars
=============================================================================
