----------------------------- MODULE TurnMedia ------------------------------
(***************************************************************************)
(* The pictures and the movie of one play session (backend/worker.py,      *)
(* generate_turn_media_job to _extend_session_movie, and the route         *)
(* regenerate_turn_media of backend/main.py).                              *)
(*                                                                         *)
(* A turn's media is a row of turn_media and three files, written by the   *)
(* jobs that turns queue and by those that re-roll it with another seed;   *)
(* arq runs up to ten jobs at once.  A finished job brings the session's   *)
(* movie.mp4 up to date, under movie_lock:{session}: it reads which rows   *)
(* are ready, and appends to the movie or rebuilds it according to         *)
(* movie_state.json, the turns that were baked into it before.             *)
(*                                                                         *)
(* A clip is what an image prompt (named by the job that brought it) and a *)
(* seed determine.  The .png, .wav and .mp4 of a turn are written without  *)
(* an await between them and are one file here.                            *)
(***************************************************************************)
EXTENDS Naturals, Sequences, FiniteSets, FiniteSetsExt

CONSTANTS Job,      \* media jobs, each queued at most once
          None,     \* no job, no lock
          MaxTurn,  \* bound on turns
          Faults

\* lease   movie_lock (30 s) expires under a running ffmpeg
\* ffmpeg  a concatenation fails
\* dbfail  the commit that makes a row ready fails
\* crash   the worker dies in a job, arq cancels it, or its directory cannot be made
FaultKinds == {"lease", "ffmpeg", "dbfail", "crash"}

ASSUME NoneAssumption == None \notin Job
ASSUME MaxTurnAssumption == MaxTurn \in Nat \ {0}
ASSUME FaultsAssumption == Faults \subseteq FaultKinds

Turn == 1..MaxTurn
NoSeed == 0       \* image_seed is NULL
StableSeed == 1   \* _stable_seed(session_id, turn)
RerollSeed == 10  \* _stable_seed(session_id, turn, "regen")

VARIABLES rows,   \* turn_media: [status, text, seed]; status "none": no row
          files,  \* the clip in {turn}.mp4
          movie,  \* movie.mp4: the turns and clips it was made of
          state,  \* movie_state.json: the turns it says were baked in
          lock,   \* movie_lock:{session}
          job,    \* [pc, kind, turn, read, clip, want, left] of each job
          last,   \* the session's last turn
          mishaps \* history: what went wrong so far

vars == <<rows, files, movie, state, lock, job, last, mishaps>>

NoRow == [status |-> "none", text |-> None, seed |-> NoSeed]
NoClip == [text |-> None, seed |-> NoSeed]
\* read: the row as loaded; want: the turns the movie should have; left: those
\* still to append.
Idle == [pc |-> "idle", kind |-> "generate", turn |-> 1, read |-> NoRow,
         clip |-> NoClip, want |-> <<>>, left |-> <<>>]

Over == {"idle", "over", "dead"}
At(j, s) == job[j].pc = s

\* A resumed session goes on counting its turns, but has no media yet.
Init ==
  /\ rows = [t \in Turn |-> NoRow] /\ files = [t \in Turn |-> NoClip]
  /\ movie = <<>> /\ state = <<>> /\ lock = None
  /\ job = [j \in Job |-> Idle] /\ last \in {0, 1} /\ mishaps = {}

-----------------------------------------------------------------------------
(* What asks for media.                                                    *)

Ask(j, k, t, where) ==
  /\ At(j, "idle")
  /\ job' = [job EXCEPT ![j] = [Idle EXCEPT !.pc = where, !.kind = k, !.turn = t,
                                            !.read = rows[t]]]
  /\ mishaps' = IF \E i \in Job : job[i].turn = t /\ job[i].pc \notin Over
                  THEN mishaps \union {"overlap"} ELSE mishaps

\* A turn, or the regeneration of the last one, queues a job at its end; or
\* there is nobody to depict, or the queue cannot be reached, and it does not.
PlayTurn(j) ==
  /\ \E t \in {last, last + 1} \intersect Turn, where \in {"queued", "over"} :
       Ask(j, "generate", t, where) /\ last' = t
  /\ UNCHANGED <<rows, files, movie, state, lock>>

\* regenerate_turn_media loads the row ...
Reroll(j) ==
  /\ \E t \in Turn : rows[t].status # "none" /\ Ask(j, "reroll", t, "asked")
  /\ UNCHANGED <<rows, files, movie, state, lock, last>>

\* Setting a loaded column to the value it has writes nothing.
Pending(j, row) == IF job[j].read.status = "pending" THEN row
                   ELSE [row EXCEPT !.status = "pending"]

\* ... and shows it as pending ...
RerollCommits(j) ==
  /\ At(j, "asked")
  /\ rows' = [rows EXCEPT ![job[j].turn] = Pending(j, @)]
  /\ job' = [job EXCEPT ![j].pc = "enqueue"]
  /\ UNCHANGED <<files, movie, state, lock, last, mishaps>>

RerollQueued(j) ==
  /\ At(j, "enqueue")
  /\ job' = [job EXCEPT ![j].pc = "queued"]
  /\ UNCHANGED <<rows, files, movie, state, lock, last, mishaps>>

\* Wrong on purpose: a failed enqueue is only logged.
RerollRefusedSilently(j) ==
  /\ At(j, "enqueue")
  /\ job' = [job EXCEPT ![j].pc = "over"]
  /\ UNCHANGED <<rows, files, movie, state, lock, last, mishaps>>

\* A row that was ready once (only then it has a seed) is taken back.
Withdrawal(t) == IF rows[t].seed # NoSeed THEN {"withdrawn"} ELSE {}

\* ... or as failed, when no job can be queued.
RerollRefused(j) ==
  /\ At(j, "enqueue")
  /\ rows' = [rows EXCEPT ![job[j].turn].status = "failed"]
  /\ job' = [job EXCEPT ![j].pc = "over"]
  /\ mishaps' = mishaps \union Withdrawal(job[j].turn)
  /\ UNCHANGED <<files, movie, state, lock, last>>

-----------------------------------------------------------------------------
(* The jobs.                                                               *)

Start(j) ==
  /\ At(j, "queued")
  /\ job' = [job EXCEPT ![j].pc = "open", ![j].read = rows[job[j].turn]]
  /\ UNCHANGED <<rows, files, movie, state, lock, last, mishaps>>

\* generate_turn_media_job: the row is inserted, or gets the new prompt.  Of
\* two inserts, the unique constraint lets one through.
OpenGenerate(j) ==
  LET t == job[j].turn IN
  /\ At(j, "open") /\ job[j].kind = "generate"
  /\ IF job[j].read.status = "none" /\ rows[t].status # "none"
       THEN job' = [job EXCEPT ![j].pc = "over"] /\ UNCHANGED rows
       ELSE /\ rows' = [rows EXCEPT ![t] = [Pending(j, @) EXCEPT !.text = j]]
            /\ job' = [job EXCEPT ![j].pc = "pipeline",
                                  ![j].clip = [text |-> j, seed |-> StableSeed]]
  /\ UNCHANGED <<files, movie, state, lock, last, mishaps>>

\* Wrong on purpose: a re-roll takes the turn's deterministic seed again.
StableNewSeed(old) == StableSeed

NewSeed(old) == IF old = NoSeed THEN RerollSeed ELSE old + 1

\* regenerate_turn_media_job: the stored prompt with another seed.
OpenReroll(j) ==
  /\ At(j, "open") /\ job[j].kind = "reroll"
  /\ rows' = [rows EXCEPT ![job[j].turn] = Pending(j, @)]
  /\ job' = [job EXCEPT ![j].pc = "pipeline",
                        ![j].clip = [text |-> job[j].read.text,
                                     seed |-> NewSeed(job[j].read.seed)]]
  /\ UNCHANGED <<files, movie, state, lock, last, mishaps>>

\* The image bridge answered; the files of the turn are replaced.
WriteFiles(j) ==
  /\ At(j, "pipeline")
  /\ files' = [files EXCEPT ![job[j].turn] = job[j].clip]
  /\ job' = [job EXCEPT ![j].pc = "written"]
  /\ UNCHANGED <<rows, movie, state, lock, last, mishaps>>

MarkReady(j) ==
  /\ At(j, "written")
  /\ rows' = [rows EXCEPT ![job[j].turn].status = "ready",
                          ![job[j].turn].seed = job[j].clip.seed]
  /\ job' = [job EXCEPT ![j].pc = "movie"]
  /\ UNCHANGED <<files, movie, state, lock, last, mishaps>>

\* The bridge fails, or the commit of MarkReady does.
MarkFailed(j) ==
  /\ At(j, "pipeline") \/ (At(j, "written") /\ "dbfail" \in Faults)
  /\ rows' = [rows EXCEPT ![job[j].turn].status = "failed"]
  /\ job' = [job EXCEPT ![j].pc = "over"]
  /\ mishaps' = mishaps \union Withdrawal(job[j].turn)
                        \union (IF At(j, "written") THEN {"dbfail"} ELSE {})
  /\ UNCHANGED <<files, movie, state, lock, last>>

-----------------------------------------------------------------------------
(* _extend_session_movie.                                                  *)

\* Wrong on purpose: SET without NX.
LockMovieWithoutNX(j) ==
  /\ At(j, "movie")
  /\ lock' = j /\ job' = [job EXCEPT ![j].pc = "scan"]
  /\ UNCHANGED <<rows, files, movie, state, last, mishaps>>

\* SET NX EX 30; a job that finds the lock held skips the movie.
LockMovie(j) ==
  /\ At(j, "movie")
  /\ IF lock = None
       THEN lock' = j /\ job' = [job EXCEPT ![j].pc = "scan"] /\ UNCHANGED mishaps
       ELSE /\ job' = [job EXCEPT ![j].pc = "over"]
            /\ mishaps' = mishaps \union {"skipped"}
            /\ UNCHANGED lock
  /\ UNCHANGED <<rows, files, movie, state, last>>

ReadyTurns == {t \in Turn : rows[t].status = "ready"}

\* The longest gapless run from the first turn of a set of turns.
Contiguous(S) ==
  LET first == Min(S)
      end == Max({t \in S : first..t \subseteq S})
  IN [i \in 1..(end - first + 1) |-> first + i - 1]

\* SELECT the ready turns.
Scan(j) ==
  /\ At(j, "scan")
  /\ job' = IF ReadyTurns = {} THEN [job EXCEPT ![j].pc = "unlock"]
            ELSE [job EXCEPT ![j].pc = "plan", ![j].want = Contiguous(ReadyTurns)]
  /\ mishaps' = mishaps \ {"skipped", "withdrawn"}
  /\ UNCHANGED <<rows, files, movie, state, lock, last>>

IsExtension(turns) ==
  state # <<>> /\ Len(state) <= Len(turns) /\ SubSeq(turns, 1, Len(state)) = state

\* Wrong on purpose: only the newest turn is appended.
LastTurn(turns) == SubSeq(turns, Len(turns), Len(turns))

NotBaked(turns) == SubSeq(turns, Len(state) + 1, Len(turns))

\* Compare with the state file.
Plan(j) ==
  /\ At(j, "plan")
  /\ job' = CASE state = job[j].want -> [job EXCEPT ![j].pc = "unlock"]
              [] state # job[j].want /\ IsExtension(job[j].want) ->
                   [job EXCEPT ![j].pc = "append", ![j].left = NotBaked(job[j].want)]
              [] state # job[j].want /\ ~IsExtension(job[j].want) ->
                   [job EXCEPT ![j].pc = "rebuild"]
  /\ UNCHANGED <<rows, files, movie, state, lock, last, mishaps>>

Segment(t) == [turn |-> t, clip |-> files[t]]

\* One ffmpeg run: the movie and one more segment, put in place atomically.
AppendOne(j) ==
  /\ At(j, "append")
  /\ movie' = Append(movie, Segment(Head(job[j].left)))
  /\ job' = [job EXCEPT ![j].left = Tail(@),
                        ![j].pc = IF Len(job[j].left) = 1 THEN "state" ELSE @]
  /\ UNCHANGED <<rows, files, state, lock, last, mishaps>>

Rebuild(j) ==
  /\ At(j, "rebuild")
  /\ movie' = [i \in 1..Len(job[j].want) |-> Segment(job[j].want[i])]
  /\ job' = [job EXCEPT ![j].pc = "state"]
  /\ UNCHANGED <<rows, files, state, lock, last, mishaps>>

\* The error is logged; the state file is left as it was.
ConcatFails(j) ==
  /\ "ffmpeg" \in Faults
  /\ At(j, "append") \/ At(j, "rebuild")
  /\ job' = [job EXCEPT ![j].pc = "unlock"]
  /\ mishaps' = mishaps \union {"ffmpeg"}
  /\ UNCHANGED <<rows, files, movie, state, lock, last>>

WriteState(j) ==
  /\ At(j, "state")
  /\ state' = job[j].want
  /\ job' = [job EXCEPT ![j].pc = "unlock"]
  /\ UNCHANGED <<rows, files, movie, lock, last, mishaps>>

\* finally: DEL movie_lock, whoever set it.
UnlockMovie(j) ==
  /\ At(j, "unlock")
  /\ lock' = None
  /\ job' = [job EXCEPT ![j].pc = "over"]
  /\ UNCHANGED <<rows, files, movie, state, last, mishaps>>

-----------------------------------------------------------------------------
\* The phases of _extend_session_movie whose end, by an exception too, is finally.
InMovie == {"scan", "plan", "append", "rebuild", "state", "unlock"}

\* A worker that dies leaves the lock, a job that is cancelled deletes it.
Die(j) ==
  /\ "crash" \in Faults
  /\ job[j].pc \notin Over \union {"asked", "enqueue", "queued"}
  /\ job' = [job EXCEPT ![j].pc = "dead"]
  /\ lock' \in {lock} \union (IF job[j].pc \in InMovie THEN {None} ELSE {})
  /\ mishaps' = mishaps \union {"crash"}
  /\ UNCHANGED <<rows, files, movie, state, last>>

LockExpires ==
  /\ lock # None
  /\ "lease" \in Faults \/ job[lock].pc = "dead"
  /\ lock' = None
  /\ UNCHANGED <<rows, files, movie, state, job, last, mishaps>>

RerollRequest(j) == RerollCommits(j) \/ RerollQueued(j) \/ RerollRefused(j)

JobStep(j) ==
  \/ Start(j) \/ OpenGenerate(j) \/ OpenReroll(j) \/ WriteFiles(j) \/ MarkReady(j)
  \/ MarkFailed(j) \/ LockMovie(j) \/ Scan(j) \/ Plan(j) \/ AppendOne(j) \/ Rebuild(j)
  \/ ConcatFails(j) \/ WriteState(j) \/ UnlockMovie(j)

Next ==
  \/ LockExpires
  \/ \E j \in Job : PlayTurn(j) \/ Reroll(j) \/ RerollRequest(j) \/ JobStep(j) \/ Die(j)

Spec == Init /\ [][Next]_vars

-----------------------------------------------------------------------------
Row == [status : {"none", "pending", "ready", "failed"},
        text : Job \union {None}, seed : Nat]
Clip == [text : Job \union {None}, seed : Nat]
MediaJob ==
  [pc : Over \union {"asked", "enqueue", "queued", "open", "pipeline", "written", "movie",
                    "scan", "plan", "append", "rebuild", "state", "unlock"},
   kind : {"generate", "reroll"}, turn : Turn, read : Row, clip : Clip,
   want : Seq(Turn), left : Seq(Turn)]

TypeOK ==
  /\ rows \in [Turn -> Row] /\ files \in [Turn -> Clip]
  /\ movie \in Seq([turn : Turn, clip : Clip]) /\ state \in Seq(Turn)
  /\ lock \in Job \union {None} /\ job \in [Job -> MediaJob]
  /\ last \in 0..MaxTurn
  /\ mishaps \subseteq FaultKinds \union {"overlap", "skipped", "withdrawn"}

AtRest == lock = None /\ \A j \in Job : job[j].pc \in Over
Spared(troubles) == mishaps \intersect troubles = {}

(* Between two extensions, the state file tells which turns the movie file  *)
(* holds, whatever jobs finish together (worker.py: "so two job completions *)
(* for the same session don't race on the same output file"), as long as no *)
(* concatenation failed half-way and no worker died.                        *)
StateTellsMovie ==
  lock = None /\ Spared({"ffmpeg", "crash"})
    => state = [i \in 1..Len(movie) |-> movie[i].turn]

(* A scene that is ready and joins on to the first one is in the movie when *)
(* nothing runs any more, unless the last job to finish found the lock held *)
(* (worker.py: "a skipped update is only deferred, never lost") or a scene  *)
(* was taken back since by a re-roll that failed, which may let another one *)
(* be the first.                                                            *)
SceneNotLost ==
  AtRest /\ Spared({"skipped", "withdrawn", "ffmpeg", "crash"}) /\ ReadyTurns # {}
    => \A i \in 1..Len(Contiguous(ReadyTurns)) :
         \E k \in 1..Len(movie) : movie[k].turn = Contiguous(ReadyTurns)[i]

(* Media that is shown as pending is being made, or a request is about to   *)
(* queue its job or to say that it could not: a row is not "left showing    *)
(* 'pending' forever" (main.py, regenerate_turn_media), until a worker dies.*)
PendingHasJob ==
  \A t \in Turn : rows[t].status = "pending" /\ Spared({"crash"})
    => \E j \in Job : job[j].turn = t /\ job[j].pc \notin Over

(* A re-roll replaces a turn's clip by another one (models.py, TurnMedia: a *)
(* regenerate picks "a genuinely different seed"), as long as requests for  *)
(* one turn do not overlap and no job was lost between files and row.       *)
RerollDiffers ==
  [][\A j \in Job : At(j, "pipeline") /\ job'[j].pc = "written" /\ job[j].kind = "reroll"
                      /\ Spared({"overlap", "dbfail", "crash"})
        => files[job[j].turn] # job[j].clip]_vars

(* When nothing went wrong and nothing runs, the movie is made of the clips *)
(* the turns have now (worker.py, _extend_session_movie: "an always-current *)
(* concatenation of every ready turn's segment").                           *)
MovieIsCurrent ==
  AtRest /\ mishaps = {} => \A i \in 1..Len(movie) : movie[i].clip = files[movie[i].turn]
=============================================================================
