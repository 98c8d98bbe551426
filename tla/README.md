# Verification of ScenarAI

ScenarAI is an interactive fiction service. A creator writes a *scenario* and
publishes it, which builds a *prefab*: the state of a roleplay engine at the start
of the story. A player starts a *play session* from it and plays *turns*; a language
model writes the answers, and background jobs illustrate each turn with a picture,
a narration and a clip, and keep one movie of the whole session. The backend is a
FastAPI application and an arq worker over Postgres and Redis; the frontend is a
React application.

Almost nothing here is hard inside one request. What is hard is that every
`await` is a point where another request, another tab, a worker or a Redis TTL can
act, that Redis and Postgres are written one after the other, and that each process
may die in between. The tests of the repository call one function at a time with
mocks; the models below check the interleavings the tests cannot reach.

## 1. Inventory

Paths are relative to the repository. `main.py`, `worker.py` and so on are in
`backend/`.

### 1.1 Components, their state and their operations

| Component | State | Operations |
|---|---|---|
| Play session (`main.py`, `worker.py`) | Redis `session:{id}` (12 h TTL), `lock:session:{id}` (120 s), `scenario_sessions:{sid}`; Postgres `session_logs`, `scenarios.plays_count` | `create_session`, `init_engine_job`, `play_turn`, `continue_turn`, `regenerate_turn`, `play_turn_stream`, `end_session`, `delete_scenario`'s clean-up |
| Scenario life cycle (`main.py`, `worker.py`) | Postgres `scenarios`: text, `is_published`, `prefab_status`, `prefab_engine_state` | `update_scenario`, `publish_scenario`, `retry_prefab`, `unpublish_scenario`, `delete_scenario`, `prefab_engine_job` |
| Prefab gate (`worker.py`) | Redis counter `prefab:running_count` (300 s) | INCR, EXPIRE, DECR around each prefab job |
| Token budget (`rate_limiter.py`, `ai_service.py`) | Redis counter `groq_tpm_window` (60 s) | `reserve_token_budget` and the polling loop around it |
| Turn media and movie (`worker.py`, `video_utils.py`, `main.py`) | Postgres `turn_media`; files per turn; `movie.mp4`, `movie_state.json`; Redis `movie_lock:{id}` (30 s) | `generate_turn_media_job`, `regenerate_turn_media_job`, `_extend_session_movie`, `regenerate_turn_media`, exports |
| Logins (`refresh_tokens.py`, `auth.py`, frontend `api.js`, `AuthContext.jsx`) | Redis `refresh_token:{t}`, the browser's localStorage | login, rotation, revocation, one shared refresh per tab |
| Saves and ratings (`main.py`) | `scenario_saves`, `turn_ratings`, `saves_count` | save, unsave, `rate_turn`, account deletion |
| Per-user limit (`user_rate_limit.py`) | Redis `user_rl:{user}` (60 s) | INCR, EXPIRE on each limited request |
| Roleplay engine (`engine/engine.py`, `serializer.py`, `types.py`) | conversation, window of 14 raw turns, summaries, assumptions, metrics | `step`, `step_stream`, `regenerate` |
| Engine inference (`engine/inference.py`) | none of its own; changes memory and entities | preprocessing, guard, summaries, assumptions |
| Language-model client (`engine/call.py`) | none | retries, streaming |
| Prompt builders (`engine/visual_prompts.py`, `voice_prompts.py`) | none | text formatting |
| Player's view (frontend `App.jsx`, `api.js`) | `messages`, `sessionId`, `engineReady`, refs of the running requests | mount effect, `send`, `continueStory`, `regenerateStory`, `handleBack` |
| Image pipeline (`imagepipe/`) | models and a voice behind locks | generate, narrate, stitch |
| Tunnel watchdog (`scripts/tunnel_watchdog.py`) | a redirect file in a git checkout | check, relaunch, publish |
| Backup scripts, judge, load test, migrations, configuration | - | sequential glue and measurement |

### 1.2 How they interact

* The API and the worker share Redis and Postgres and nothing else. The API queues
  arq jobs (`init_engine_job`, `prefab_engine_job`, `generate_turn_media_job`,
  `regenerate_turn_media_job`); a failed enqueue is an answer the API must handle.
* A turn request reads the session, takes the session's lock, runs the engine in a
  thread, writes the session to Redis, checkpoints it to Postgres, counts the play,
  queues the media job and deletes the lock in a `finally`.
* `end_session` takes no lock. It waits a bounded time for the lock to be free,
  reads the session again, writes the log row and deletes the session's keys.
* The init job reads the session, builds or resumes the engine, and writes the
  session back, without the lock.
* A prefab job is counted by the gate, reserves tokens from the budget, builds the
  prefab, and updates the scenario's row by its id alone.
* A media job writes the row, calls the image bridge, writes the files, marks the row
  ready, and then extends the movie under its lock.
* The frontend polls the session's status and its media, refreshes its tokens on a
  401, and ends the session when the player leaves.

### 1.3 What is hard, and what correctness means

`PROJECT.json` lists the hazards at their lines. In short:

* **Play session.** Check-then-lock (`_execute_turn` reads before it locks); a lock
  deleted by whoever reaches its `finally`; the TTL against a slow turn; Redis and
  Postgres written one after the other; an end request, a second run of the init job
  and scenario deletion racing with turns. *Correct* means: turns do not run
  together; the conversation grows one turn at a time and never mixes two forks; a
  turn that was answered can be resumed; nothing stays locked or initializing.
* **Scenario life cycle.** Load-then-commit with an ORM that writes only changed
  columns; jobs that finish after the row moved on; a failed enqueue after the
  commit. *Correct*: a pending scenario has a job; ready means there is a prefab; the
  prefab is of the published text.
* **Gate and budget.** A counter with a TTL, raised and lowered in separate round
  trips by processes that may die. *Correct*: never more than the limit, no
  leaked count for ever, no refusal without a reason.
* **Media and movie.** Ten jobs at once on one file, a lock that makes the loser
  skip. *Correct*: the movie holds what the state file says, and every ready scene.
* **Logins.** Single-use tokens against lost answers and several tabs. *Correct*: a
  login has one token that can be exchanged; a request fails only for a cause; a
  logout leaves nothing; every request that waits for a refresh is answered.
* **Engine turn.** A dozen calls to a language model, each of which may fail and has
  its own way to go on, over a window that is cut after each turn and a regeneration
  that re-applies effects. *Correct*: nothing said is lost between window and summary;
  what the guard refused is not what is saved; what was shown is saved; turns end.
* **Engine initialisation.** A list of mentions turned into characters by calls in
  threads, most of whose failures must not matter. *Correct*: everybody who was listed
  is in the cast, once, under a name of their own.
* **Player's view.** A list of bubbles edited by index, by several requests, over
  several visits, against rows that other requests write. *Correct*: what is seen is
  what was played, and what was left is what is resumed.

## 2. Modules

| Module | Models | Composed of |
|---|---|---|
| `ForkingLog` | what a session promises about its conversation | - |
| `SessionTurns` | one play session, all the processes that touch it | - |
| `SessionHistory` | history variables and the session's properties | extends `SessionTurns`, instantiates `ForkingLog` |
| `SessionProofs` | the theorems about the session | extends `SessionHistory` |
| `ScenarioPublish` | one scenario's row, the creator's requests, prefab jobs | - |
| `PrefabGate` | the counter around prefab jobs | - |
| `PrefabProofs` | the theorems about the scenario's row and the gate of its jobs | extends `ScenarioPublish`, `PrefabGate` |
| `TokenBudget` | the token window and its callers | - |
| `BudgetProofs` | the theorems about the window | extends `TokenBudget` |
| `TurnMedia` | one session's media rows, files, movie and their jobs | - |
| `MediaProofs` | the theorems about rows, seeds, lock, movie and scenes | extends `TurnMedia` |
| `Storyline` | what an engine promises about its story | - |
| `EngineTurn` | one engine's turns: calls, guard, window, summaries, voice | instantiates `Storyline` |
| `EngineProofs` | the theorems about an engine's turns | extends `EngineTurn` |
| `EngineCast` | how an engine gets its characters, and a prefab its player | - |
| `CastProofs` | the theorems about who is in the cast | extends `EngineCast` |
| `Logins` | an account's tokens, the tabs of a browser, the `/auth` routes | - |
| `LoginsProofs` | the theorems about the tokens | extends `Logins` |
| `PlayView` | the player's view over several visits, and what the backend holds | - |
| `PlayProofs` | the theorems about the player's view | extends `PlayView` |
| `MCSession`, `MCSessionTurns`, `MCScenario`, `MCPrefabGate`, `MCTokenBudget`, `MCTurnMedia`, `MCEngineTurn`, `MCEngineCast`, `MCLogins`, `MCPlayView` | the instances TLC checks, with their symmetry | - |

Definitions named in comments as "wrong on purpose" are plausible bugs of the
definition that follows them. They are used nowhere in the specifications; replacing
the definition by them makes a property fail, and `PROJECT.json` says which.

### 2.1 `SessionTurns`: a play session

An action is what one process does between two awaits.

| Code | Actions |
|---|---|
| `create_session` | `PlaceSession`, then `EnqueueInit` or `EnqueueInitFails` |
| `init_engine_job` | `InitJobReads` (outcome ready or error), `InitJobWrites`; arq: `InitJobCancelled`, `InitJobReruns` |
| `_execute_turn`, `play_turn_stream` | `ReadSession`, `Acquire`, `StoreTurn` or `EngineFails`, `Checkpoint`, `CountPlay` (or `CommitFails`), `Release` |
| a dying process, the lock's TTL | `Crash`, `LockExpires` |
| `end_session` | `EndReads`, `EndStopsWaiting`, `EndRereads`, `EndCheckpoints` or `EndCommitFails`, `EndDeletes` |
| `delete_scenario`, Redis eviction | `PurgeSessions` then `DeleteRow`, `SessionKeyLost` |

A conversation is the sequence of the contents of its turns and the content of a turn
is the request that made it, so that two conversations are equal exactly when the same
requests made them in the same order. The engine's text, its memory, the media job
and the rating that a regeneration deletes are abstracted; a turn appends one content, a regeneration replaces the last one. The
lock's value is the request that set it, while the code stores `"1"`; no guard looks
at more than whether it is free. A first checkpoint of a session whose scenario is gone
fails on the foreign key (`Loggable`).

What the environment may do is the constant `Faults`, so that each run and each
theorem says what it assumes: `lease` (a turn outlasts its 120 s lock), `crash`,
`dbfail`, `evict`, `timeout` (arq cancels the init job), `rerun` (arq runs it again).

`SessionHistory` adds four variables no guard reads: the conversations that have been
current (`versions`), the running turns whose snapshot was current when they took the
lock (`fresh`), whether the session is as the end request found it (`calm`), and whether
a turn has ever outlasted its lock (`leased`). Properties that do not need them are in
`SessionTurns` itself.

### 2.2 `ForkingLog` and the refinement

`ForkingLog` has two variables, the current conversation and all that ever were
current, and four actions: install an opening, add a turn to *some* version, redo the
last turn of some version, vanish. It deliberately allows forks, because the code
does: a request that read early and locked late writes on top of an old version.
What it forbids is a conversation that mixes two forks, skips a version or appears
from nowhere. The mapping is `head <- IF ctx.status = "ready" THEN ctx.conv ELSE Free`.

### 2.3 `ScenarioPublish`

Each creator's request loads the row and commits only the columns it changed
(`Changed`), as SQLAlchemy does; prefab jobs update by id. A prefab is known by the
version of the text it was built from. `patient` is chosen at the start: whether the
creator waits for each request and its job. Moderation, ownership and the text itself
are left out.

### 2.4 `PrefabGate` and `TokenBudget`

Both are counters with a TTL that the caller sets who finds the key fresh; every round
trip is an action, and DECR on an absent key makes a negative one without a TTL, as in
Redis. A caller of the window may die between any two of its round trips (`Die`): what it
added stays, whether the next would have been EXPIRE or DECRBY. `TokenBudget` counts in units of 500 tokens, so that the three estimates of
`ai_service.py` (1 500, 4 000, 20 000) and `TPM_LIMIT` (8 000) are 3, 8, 40 and 16.
The faults `early`, `probe` and `lease` name the expiries the code does not exclude but
assumes away; the hazards list says what they refute. The names of `PrefabGate` begin
with `Gate` where `ScenarioPublish` has the same, because `PrefabProofs` extends both.

### 2.5 `TurnMedia`

A job is a record with its position, its turn, the row it loaded, the clip it makes
and the turns it wants in the movie. A clip is a prompt (named by the job that brought
it) and a seed. `PlayTurn` queues a job for the last turn or the next one, `Reroll` is
`regenerate_turn_media`; `Start` to `MarkFailed` are the two job functions and their
pipeline; `LockMovie` to `UnlockMovie` are `_extend_session_movie`, one action per
ffmpeg call. `mishaps` is a history variable with what went wrong, so that a property
says precisely what it excepts: a fault, two jobs of one turn (`overlap`), a job that
found the lock held (`skipped`), or a ready scene that a re-roll made pending, and
whose clip then failed (`withdrawn`). A job that dies keeps the lock until its TTL, and one
that arq cancels frees it, as a cancellation runs the `finally`; `Die` has both.

### 2.6 `EngineTurn`: what one turn does

`SessionTurns` treats a turn as one step that appends a content; `EngineTurn` is the
inside of that step. The engine works on a copy of the session's state (`eng`), and
only `Save` gives it back, so that an exception anywhere (`Abort`) costs the turn and
nothing else.

| Code | Actions |
|---|---|
| `engine_step`, `engine_regenerate`, `engine_step_stream` | `Start` (step, continue, stream), `Regenerate`, `Media`, `Save` |
| `Engine.step` | `TranslateInput`, `Prompt`, `Generate`, `TranslateOutput`, `Answer` |
| `async_stream_call` | `StreamToken`, `StreamEnds` |
| `call` | `RateLimited`, `Outcome` |
| `guard_response` | `JudgeDraft`, `ValidateDraft`, `Repair`, `JudgeRepair`, `ValidateRepair`, `Fallback`, `NovelFallback` |
| `extract_and_save_assumptions`, `summarize_chunk` | `Extract`, `Summarise` |

A text is known by where it came from (draft, repair, fallback, the safe sentence) and
by whether it repeats the answer before; a message by its author, turn and take. A call
answers anything of its kind, fails, or is refused for its rate. What the
extraction does to the entities is one character's `integrity_resolve`; a shift that would
raise it, or that exceeds a cap, is clamped (`Capped`). The focus of the media context is
always there: an engine's entities begin with the player and the main character, who is no group,
and nothing clears `present`. Its call for the visual tags may
fail in every turn, as tags that came back empty are asked for again. History
variables are `told`, `forgotten`, `lost` and `trouble`.

`Storyline` is what is left of all that for the session: the number of the last turn, what
was told, what the player is shown, one boundary and the voice. It has three
actions: an exchange (`Play`), a continuation, of which only the answer is shown
(`Continue`), and the last answer told again (`Retell`). A call that fails, a refusal, a
repair, a trimmed window or a lost summary is no step of it. The mapping takes its five
variables from `saved`, so that it is `Save` that takes a step, and every other action of
`EngineTurn` leaves the story alone.

### 2.7 `EngineCast`: who is in the story

`Begin` to `PremiseJoined` are `scenario_to_engine`; `Describe` to `PinFacts`
`Engine.__init__`; `ListMentions`, `CastGroup`, `CastNamed`, `CastRole`,
`ClassificationFails` and `SkipMention` are the loop of `scan_opening_for_npcs`, which
runs in a thread beside `InferWorld`; `InferField` and `InferFails` are the thread of
each character; `StartFromPrefab` is `engine_init_from_prefab`. Names are compared
without case in the code and are names up to case here. Whether a phrase is a group, a
name or a role is a choice: the regular expressions that tell are left out. The name that is
generated for a role may be one that is taken, the placeholder, or blank.

### 2.8 `Logins`

A pair of tokens is a number. The server's half is `LogIn`, `Serve`, `Rotate` (GETDEL)
and `Issue` (SET, and the look-up of the user), `Revoke`, `DeleteAccount`; the
browser's half `Send`, `GiveUp`, `AwaitRefresh` (with the promise that a tab's requests
share), `RefreshSucceeds`, `RefreshRefused`, `Logout`. A request is an ordinary call, the first
one of a page (`load`, `AuthContext.jsx`: its failure, whatever the cause, removes the tokens), a
login, or one with a wrong password. Other answers than 401, such as 429 and 500, stand with
the lost ones (`Lose`): they change nothing but the removal by a `load`. Tabs share `stored` and nothing
else. A 401 is not an action: it is never taken back, so the tab may learn it whenever
it acts on it. A refresh that is lost while its token is spent is lost after `Issue`, where nobody
hears of the new token either. `causes` and `ended` are histories.

### 2.9 `PlayView`

The view's effects and handlers, action by action, over a backend in which a turn is
one step (`TurnSaved`), as `SessionTurns` refines it. `Open` starts `LastRead` and
`CreateSession`, in any order; `Send` computes the placeholder's index and
`TokenArrives`, `Answered`, `Refused` use it; `Back`, `Left` and `TabCloses` leave. `Back` ends the session and the cleanup of the effect
(`Unmount`) ends it again; the second request finds no session, or does to it what the
first one did not get to, so that one of them stands for both. The
bubbles are what React's updater functions make of them, a place beyond the end
included (`Put`). `excuse` and `seen` are histories: why seen and played may differ in
this visit, and the story as it was last left.

## 3. What the runs check

Eleven runs pass.

| Run | Instance | Shows |
|---|---|---|
| `session_safety` | 3 requests, `turn` and `regenerate`, `crash`, `evict`, `dbfail`, `timeout` | `AtMostOneTurn`, `LogMatchesSession`, `PlayedMeansCounted`, `AnsweredMeansLogged`, `LastAnswerIsLogged` |
| `session_refine` | 2 requests, `turn` and `regenerate`, every fault but `rerun` | `FreshTurnIsCurrent`, `PatientEndKeepsLog`, `ImplementsForkingLog` |
| `session_live` | 2 requests, `turn`, a new logged session, `crash`, `rerun`, `timeout`, fair | `LockIsFreed`, `InitSettles` |
| `scenario` | 3 requests, 2 texts, `cancel`, fair | `PendingHasJob`, `PrefabIsCurrent`, `PendingSettles` |
| `gate` | 4 jobs, limit 2, `crash`, fair | `GateHolds`, `CounterExact`, `LeakHeals` |
| `budget` | 4 callers, real estimates, `gap` | `WithinBudget`, `CounterExact`, `WindowEnds` |
| `media` | 3 jobs, 3 turns, `ffmpeg`, `dbfail`, `crash` | `StateTellsMovie`, `SceneNotLost`, `PendingHasJob`, `RerollDiffers` |
| `engine` | 3 turns, one regeneration, a window of 4, 2 attempts, every call failing or refused, fair | `HistoryPartition`, `RecentStoryInSight`, `RefusedIsReplaced`, `GuardContextIsRight`, `ShownIsSaved`, `ImplementsStoryline`, `VoiceIsKeptUnlessStreamed`, `TurnEnds` |
| `cast` | 2 names, 2 mentions, 1 session from the prefab, every call failing | `NamesAreUnique`, `EveryMentionIsCast` |
| `logins` | 2 tabs, 3 requests (one that loads a page, one wrong password, one that may be a login), every fault, fair | `OneTokenPerLogin`, `ExpiryIsInvisible`, `LogoutIsFinal`, `RequestsSettle` |
| `play` | 3 visits, 2 turns, published or draft, every fault | `SeenIsPlayed`, `StoryResumes` |

In one run TLC refutes what a docstring says: in `budget_refused`, `RefusedMeansFull`
("the queue is full right now", `rate_limiter.py:49`) fails, because an estimate of
20 000 tokens never fits into `TPM_LIMIT` = 8 000; `engine_prefab` and `engine_init`
poll for 60 s and always raise. Ten more configurations, which section 5 names, each refute one
statement of the repository; they are too small to show anything else.

### 3.1 Bounds and why they are enough

* Two turn requests, with every other process of the session around them, are what the
  races need: one that reads early and one that runs meanwhile. `session_safety` has a
  third, so that a turn follows two that raced. The theorems below cover any number.
* `continue` and `stream` take the same path as `turn` as far as the session's state
  goes (`SessionTurns` distinguishes `regenerate` only), so its runs leave them out;
  `engine` and `play` have them.
* Three requests of the creator give an edit or unpublish between a publish or retry
  and its job.
* Four jobs at a gate of two give two that run and two that are turned away together.
* Three media jobs give a gap that is filled late, which makes an extension by two
  segments, a concatenation that fails in the middle, and a job that skips.
* `Window = 4` stands for `MAX_RAW_TURNS` = 14, and one summary for those a prompt
  holds: three turns (seven messages with the opening) overflow the window twice, so that
  one chunk is summarised, recalled, and pushed out by the next, and the regenerated
  answer may be one that overflowed. Two attempts per call stand for the retries, one
  for the guard's, so that a call may be refused for its rate and then answer, and may
  run out of attempts.
  Shifts of -1, 0, 1 and 3 caps are one the wrong way, none, one that is allowed and one that
  is capped.
* Two mentions give a role that takes the name of one that comes later, a name listed
  twice, and a group beside a person; a third mention was checked and adds nothing new.
* Two requests of one tab and one of another give a shared refresh and two refreshes at
  once; a login beside them gives a second login of the same account.
* Three visits give a story that is left, resumed, and resumed again after a visit
  that did not become ready; two turns give a turn given up and one that follows.
* `Req`, `Job` and `Caller` are symmetric in the older runs that check safety. Runs with
  liveness use no symmetry.
* Deadlock is not checked: every request is sent at most once, so that all systems stop.

### 3.2 Fairness

A request that was started keeps running (the event loop runs its continuations; an
answer of the language model either arrives or raises, since the client has timeouts),
so the steps of a *started* request are weakly fair, and sending one is not. arq runs a
queued job, so its steps are weakly fair. Redis drops a key whose TTL is over, so
expiry is weakly fair. In `EngineTurn` the steps of a started turn are fair together
(`WF` of `TurnStep`): which outcome a call has is never fair, and a provider that refuses
for ever is stopped by the number of attempts. In `Logins` the steps of each sent
request and each running refresh are fair; losing one is not. No fairness is given to
faults. Where arq may cancel a job, the liveness property names that exception
(`PendingSettles`, `InitSettles`): the cancellation is no `Exception`, so the job's own
error path does not run, and the session stays initializing or the scenario pending.
`PlayView` and `EngineCast` state no fairness and no liveness.

## 4. What is proved

The eight modules of proofs are checked by TLAPS to the last leaf, for every value of the
constants: any number of requests, jobs, callers, tabs, visits, turns, names and mentions.

| Theorem | States | Assumes |
|---|---|---|
| `SessionProofs!Types` | `HSpec => []TypeOK` | nothing |
| `SessionProofs!MutualExclusion` | `HSpec => [](~leased => AtMostOneTurn)` | nothing |
| `SessionProofs!FreshTurnsLoseNothing` | `HSpec => []FreshTurnIsCurrent` | no `rerun` |
| `SessionProofs!CheckpointsFollow` | `Spec => []LogMatchesSession` | no `lease`, no `rerun` |
| `SessionProofs!AnswersAreLogged` | `Spec => AnsweredMeansLogged` | no `lease` |
| `SessionProofs!LostTurnsAreMadeUpFor` | `Spec => []LastAnswerIsLogged` | no `lease`, no `rerun` |
| `SessionProofs!PlaysAreCounted` | `Spec => []PlayedMeansCounted` | nothing |
| `SessionProofs!PatientEndIsSafe` | `HSpec => PatientEndKeepsLog` | no `rerun` |
| `SessionProofs!SessionImplementsForkingLog` | `HSpec => ImplementsForkingLog` | no `rerun` |
| `EngineProofs!Types` | `Spec => []TypeOK` | nothing |
| `EngineProofs!Whole` | `Spec => []HistoryPartition` | nothing |
| `EngineProofs!InSight` | `Spec => []RecentStoryInSight` | nothing |
| `EngineProofs!GuardContext` | `Spec => []GuardContextIsRight` | nothing |
| `EngineProofs!Refusal` | `Spec => []RefusedIsReplaced` | nothing |
| `EngineProofs!EngineImplementsStoryline` | `Spec => ImplementsStoryline` | nothing |
| `EngineProofs!Erosion` | `Spec => []ErosionPerTurn` | nothing |
| `EngineProofs!Shown` | `Spec => []ShownIsSaved` | nothing |
| `EngineProofs!VoiceStays` | `Spec => VoiceIsKeptUnlessStreamed` | nothing |
| `CastProofs!Types` | `Spec => []TypeOK` | nothing |
| `CastProofs!UniqueNames` | `Spec => []NamesAreUnique` | nothing |
| `CastProofs!MentionsAreCast` | `Spec => []EveryMentionIsCast` | nothing |
| `LoginsProofs!Types` | `Spec => []TypeOK` | nothing |
| `LoginsProofs!OneToken` | `Spec => []OneTokenPerLogin` | nothing |
| `LoginsProofs!Logouts` | `Spec => []LogoutIsFinal` | nothing |
| `LoginsProofs!Expiry` | `Spec => []ExpiryIsInvisible` | nothing |
| `MediaProofs!Types` | `Spec => []TypeOK` | nothing |
| `MediaProofs!PendingSettled` | `Spec => []PendingHasJob` | nothing |
| `MediaProofs!RerollIsNew` | `Spec => RerollDiffers` | nothing |
| `MediaProofs!MovieState` | `Spec => []StateTellsMovie` | no `lease` |
| `MediaProofs!Scenes` | `Spec => []SceneNotLost` | no `lease` |
| `BudgetProofs!Types` | `Spec => []TypeOK` | nothing |
| `BudgetProofs!Budget` | `Spec => []WithinBudget` | finitely many callers, no `probe` |
| `BudgetProofs!Counter` | `Spec => []CounterExact` | finitely many callers, no `probe` |
| `BudgetProofs!Window` | `Spec => []WindowEnds` | finitely many callers, no `probe` |
| `PrefabProofs!GateTypesHold` | `GateSpec => []GateTypeOK` | nothing |
| `PrefabProofs!Gate` | `GateSpec => []GateHolds` | finitely many jobs, no `early` |
| `PrefabProofs!Counter` | `GateSpec => []CounterExact` | finitely many jobs, no `early` |
| `PrefabProofs!Leak` | `GateSpec => []LeakHasTTL` | finitely many jobs, no `early`, no `gap` |
| `PrefabProofs!Types` | `Spec => []TypeOK` | nothing |
| `PrefabProofs!Pending` | `Spec => []PendingHasJob` | nothing |
| `PrefabProofs!Current` | `Spec => []PrefabIsCurrent` | nothing |
| `PlayProofs!Types` | `Spec => []TypeOK` | nothing |
| `PlayProofs!PlayerSeesStory` | `Spec => []SeenIsPlayed` | nothing |
| `PlayProofs!StoryIsResumed` | `Spec => []StoryResumes` | nothing |

Most of them state what a run checks on a small instance. `Types` (and `GateTypesHold`)
state the type invariant of each module, which holds whatever the faults; as it is
proved, no run checks it. Of the others, `Erosion` (`ErosionPerTurn`) follows from what the
refinement says of each step, and `Leak` (`LeakHasTTL`) is the safety that the liveness
`LeakHeals` rests on.

They also rest on the named assumptions of the constants, which TLC evaluates in the
runs of each module. What a theorem assumes of `Faults` is an expiry that the code
assumes away (`lease`, `early`, `probe`: a TTL that is shorter than what it guards), arq's
second run of an init job (`rerun`), or for `Leak` a death between INCR and EXPIRE (`gap`); with
that fault TLC refutes the property.

**The session.** `AtMostOneTurn` is not inductive: a second turn starts when the lock is
free, whoever runs. `HoldsLock` says that, until a turn outlasts its lock, a running
turn is the lock's value. It is inductive: `Acquire` takes a free lock only, `Release` frees the
lock of the one turn that runs, so of its own, and `LockExpires` waits until the
holder is gone. Two running turns are then both the lock's value.

`FreshTurnIsCurrent` adds that only a running turn or the init job writes a playable
conversation. The lock excludes another turn; that the init job writes no more once
a request got past its first check is `Provenance`: until the job wrote, nothing is
playable and no request is past `ReadSession`, and what the job writes is the
session's opening.

The refinement needs `Provenance` and not the lock: the current conversation and the
snapshot of each request in flight are versions that were current before, so that a
turn extends or redoes such a version whoever else writes. It therefore holds
with outlasted locks and crashes, evictions and failed commits. With `rerun` the last
two are false: a second run of the init job installs the opening over a session that was
played.

**The checkpoints.** Session and row are written one after the other, so that no property
of the two is inductive. `StoreFollows` says what the session holds while a turn is about
to write the row, `LogFollows` that they agree when no turn is; each is the other's
step: a turn starts where both agree, stores, and checkpoints what it stored. That
it started there is where the lock is needed (`OwnsLock`, and in `PatientEndIsSafe`
`HoldsLock` until `leased`), and `NothingYet` keeps the init job and an early end request
out of it. `AnswerFollows` carries the same to the 200: from its checkpoint until its
answer, a turn is what an open row holds, as nobody else checkpoints meanwhile and an
end request leaves a row that is not open. `TopFollows` (`LostTurnsAreMadeUpFor`) excepts no
turn that died: what an answered turn stored was the whole conversation it read, lost turns
included, and its checkpoint replaces what the row had. `CountFollows` needs no lock: a conversation that
was played came from a first turn, and that one counted it, or is about to, before any
other could read it, whatever the TTLs do. For a patient end request, `CalmAgrees` says
that since its wait was over the session has been what the row holds and what it read
again.

**The tokens.** `OneTokenPerLogin` is not inductive either: between GETDEL and SET the
token of a login is nowhere, and the rotation that spent it will make another. Such a
rotation therefore stands for its login: `SpentIsKnown` (what it spent is a token of its
login), `SpentIsOnly` (no token of that login can be exchanged meanwhile) and
`SpentOnce` (no second rotation of that login has spent one). `Rotate` turns a token into
such a rotation, `Issue` turns it back into one token, a login starts a new line, and
every other step makes no token and spends none (`Quiet`), so that one lemma serves them
all. GETDEL in one step is what `Rotate` needs: with GET and a later DELETE
(`RotateLater`) TLC refutes the property at once.

A logout ends a login by its last token, which is no matter of one step either: which pair
is the last depends on who was answered. `StoredIsLast`, `WonIsLast` and `GrantedIsOnly`
say, while nothing is lost, that the pair which is stored, which a rotation gave, or
which a login gave is the last of its login, but for a successor on its way to the tab
that asked; `Unheard`, that a new pair is known to the one it was made for only. Of a login
that ended, `Gone` then leaves nothing but what is being revoked. For the expiry,
`Untroubled` says that without a cause every tab that refreshes will be answered with a
pair, and every request that goes on does so with one that is good.

**The gate.** That few jobs run is not inductive, because a job is admitted by a number
that it read some steps ago. `FewHold` bounds a larger set, `Holding`: the jobs that run,
and those whose number will admit them. When INCR gives a job its number, every job in
`Holding` is already counted, and `CountCovers` (the counter is at least the number of
jobs that count; the dead make it larger) turns an admitting number into room in that
set. No later step adds to it. `early`, a key that expires under running jobs, breaks
`CountCovers`, and TLC then refutes `GateHolds`. That a leak has a TTL needs the same
count: `KeyTimed` says that a key without one was made by a job which will still set it. A
decrement makes no key, since whoever decrements is counted, so that the key is there.

**The budget.** What is reserved is a set of pairs of a caller and a number up to its
estimate, so that the sum is a cardinality, and raising the counter by an estimate is a
disjoint union. A caller is let in on the counter that its INCRBY returned, not on what
the others hold: `CounterCovers` says that the counter is never less than what is
held or about to be given back (the dead may make it more), and `HoldersFit` who holds,
in the middle of its round trips too. `TTLComes` says that a window that holds tokens
has a TTL, or somebody is about to set it; `probe` breaks all
three, as a DECRBY then lowers a window that is gone, to a negative counter without a
TTL, in which nobody finds its own estimate.

**The media.** For a row that is pending, `PendingSettles` names the places of a job that
will settle it; a commit that fails leaves the row pending, and its job on its way
to the failure branch. A re-roll's seed is drawn against the row that the job loaded, and what is
replaced are the files: `SeedsAgree` says that the two agree but between the two writes of
a job, which needs that a turn has one job (`OneJobPerTurn`). For the movie, `HoldsLock` makes whoever
works on it the lock's holder. `Baking` is what the holder knows while the file and the
state file differ: what it wants is the movie so far and, after it, the segments that are
left. For the scenes, `LastScan` says that the last scan found every scene that is
ready, unless another scan is to come; a job that makes a scene ready goes on to the movie, and
one that finds the lock held is `skipped`.

**The engine.** The invariant, `Story`, has a part for each phase of a turn: what is saved
(`AtRest`), the copy before its input is appended (`Begun`), while calls ask for an answer
(`Asks`, with `Context` at the draft), and after it is there (`Answers`).

* `Partition`, for `HistoryPartition`: what was trimmed, and what was not, are what was told.
  A regeneration takes the last answer off both, for which the history must hold it;
  `Room` says how long the history is in each phase, and that something was trimmed
  only when it is full.
* `Covered`, for `RecentStoryInSight`: a message that was trimmed is lost, or in a summary that
  at most half as many summaries follow as messages do. As a chunk has two messages, a
  summary more comes with a story that is two messages longer, and a message is
  recalled until `2 * ShownSummaries` others followed. While a chunk is not summarised yet,
  that holds of what was trimmed before (`Chunked`).
* `Ends` and `Asked`, for `GuardContextIsRight`: the answer of the turn before is the last one of
  `display_history`, whose length the number of the turn does not tell, because a
  continuation shows no input.
* `WornBy`, for `ErosionPerTurn`, counts the turns of a story in which no answer has a second take.

For the refinement, `InLine` says what the copy is while calls run: the session's story
with this turn's input, or without its last answer, and then with the answer. Each phase
keeps it or goes back to what was saved, so that only `SaveTells` has a step of
`Storyline` to show. A regeneration is `Retell` because what it drops is the last message of all
three: of the history by its guard, of what was told by `Partition`, and of what
is shown by `Ends` (`CanRetell`); `LastReplaced` turns the dropped and appended message
into the changed one.

`Streamed` (what was shown is in the copy of the story from then on), `VoiceHeld` (the copy's voice
is the saved one, until the media context adds it) and `Guarded` (what the guard has at
hand, call by call) are invariants beside it. In `Guarded`, each way out of the guard
names its trouble, so that the exceptions of `RefusedIsReplaced` are the code's:
an empty repair, a verdict that names no violation, no fallback that does not repeat.

**The cast.** That all are cast at the end says nothing of the steps on the way.
`Scanned` says it in the middle of the list: what is left to do is the list's end, and each
mention before it is settled (`Covered`: blank, skipped, or the name or role of somebody), which no
later step undoes, as nobody is taken out and everybody's name and role stay (`Alike`).
`Cast` gives the order of the cast (the player, the main character, then whoever was
found) and that each later name is new when it joins; only the player and the main
character may share theirs. A session changes the player's name, so `Started` says that its
cast is the prefab's, which no longer changes, with that one patch.

**The scenario.** A commit writes only the columns that differ from what its request
loaded, so what it does to the row depends on what the route demanded of an older row:
`LoadedAllowed`. An unpublish loaded a published row, and so its commit does write
"unpublished"; that is why it leaves no pending scenario without a job, whatever ran in
between. For a patient creator, `Patience` says that what is under way is alone
(`OneAtATime`), saw the row as it is (`LoadedIsRow`), and that a job is of the published
text (`JobIsCurrent`); an update then finds an unpublished row, which has no prefab.

**The view.** Bubbles and display history agree only when nothing is in flight. `Told` says how:
the bubbles that are kept, in order, are the lines of the history, with or without its opening.
One lemma for each edit of the list says what it does to that: `AnswerTold`, `ErrorTold`,
`RefusedTold`, `ReplacedTold`, `NumberedTold`; `ShownIsTold` makes what is shown the story. The
invariant follows the view through a visit:

* `Awaited`: before the last history arrives, and as long as nothing was sent, that history, as
  it was or will be read, agrees with what the visit's session holds or will hold (`Held`);
* `Seen`: with nothing in flight, the bubbles tell what is held;
* `Sent`: with a turn in flight, the bubbles before its own tell what is held while the turn runs
  or after it was refused, and what was held before it once it is saved; `Matched` says that the
  turn which the view waits for is the one that runs, so that the placeholder is its own;
* `Logged`: the last row follows the visit's session, turn by turn, until it is left;
* `LeftOff`: the story as it was left stays the last row's until a session resumes it, which
  gives `StoryResumes`.

A turn that was given up may be saved in any later visit. It writes its own visit's row and
session; where that is the row the next visit reads, the state has an `excuse`, and the parts
above say nothing of it (`Clean`, `Grounded`).

## 5. Known divergences

Statements of the repository's docs, comments or tests that the code does not keep. The
modules define the properties below, and TLC refutes each of them in the configuration
named (`tlc -config <it> <module>`). All but the last have a configuration of
their own, as small as its counterexample allows and with no fault, except that a connection
is lost in `logins_load.cfg`.

| Property | Refuted by | What happens |
|---|---|---|
| `NoTurnOverwritten` | `session_overwrite.cfg` (`MCSession`) | "the exact concurrent-write race this lock exists to prevent" (`main.py:667`): two requests read at line 652, then run one after the other; the second overwrites the first |
| `EndNeverReverts` | `session_end.cfg` (`MCSession`) | the re-read is there not to revert a turn (`main.py:1086`): a turn stores and checkpoints between re-read and commit |
| `ReadyMeansPrefab` | `scenario_ready.cfg` (`MCScenario`), with four requests | "'ready' once prefab_engine_state is populated" (`models.py:65`): unpublish loads a pending row, a job makes it ready, unpublish commits only the cleared prefab |
| `MovieIsCurrent` | `media_current.cfg` (`MCTurnMedia`) | "always-current concatenation" (`worker.py:302`): the clip of a turn in the movie is replaced, and the list of turns is the same |
| `VoiceIsKept` | `engine_voice.cfg` (`MCEngineTurn`) | "derived once per character and locked" (`voice_prompts.py:8`): a streamed turn serialises its engine before it derives the voice (`ai_service.py:481`) |
| `GuardFailsClosed` | `engine_guard.cfg` (`MCEngineTurn`) | the guard is fail-closed (`NEXT_PHASE_PLAN.md:4`, `:23`): an invalid verdict that names no violation lets the draft pass (`inference.py:838-845`) |
| `FilterReachesAll` | `cast_filter.cfg` (`MCEngineCast`) | "on every NPC" (`types.py:58`): characters found by the scan, and all of a session from a prefab, are left out |
| `TabsDoNotInterfere` | `logins_tabs.cfg` (`MCLogins`) | "expiry is invisible to the user" (`api.js:20`): two tabs that refresh at once log each other out |
| `LoadRemovesStale` | `logins_load.cfg` (`MCLogins`) | "reaching .catch() here means the refresh token itself was also invalid" (`AuthContext.jsx:18`): a connection that is lost, a 429 or a 500 at the first request of a page removes tokens that are good |
| `NumbersAreReal` | `play_numbers.cfg` (`MCPlayView`) | "accurate for ordinary 1-user-then-1-assistant sessions" (`App.jsx:639`): the resumed history begins with the opening, so resumed answers are numbered one too high, and the last collides with the next live turn |
| `PronounsAsSaid` | `cast.cfg`, put there as an `INVARIANT` | "they/them" contains "he", and so becomes he/him (`inference.py:467-470`) |

Found while reading and not stated as a property: an empty repair ships the refused
draft (`inference.py:939`); the scene's language never goes back to English; a
regeneration keeps what the discarded answer left in assumptions and wears a boundary
again (`ErosionPerTurn` excepts it); a role listed twice is cast twice; a player of a
prefab session may share a character's name; a 429 or 500 of `/auth/refresh` clears the
tokens, and a refresh under way at a logout stores its tokens afterwards;
`AuthContext.jsx:11` calls `api.onSessionExpired`, which is a separate export of
`api.js` and no member of `api`; an answer of `getLastSession` that comes late
overwrites newer bubbles, and later tokens hit old ones; a session that ends before its
engine is ready leaves a row whose engine is a JSON null, which `IS NOT NULL`, so the next visit
starts afresh although an older story could be resumed (`main.py:487`); a stream
that ends without `done` leaves an unfinished bubble; of two concurrent saves, the
second gets a 500 and not the no-op that `main.py:444` promises; a request that dies
between INCR and EXPIRE in `user_rate_limit.py` leaves a user refused for ever.

## 6. What is only model-checked, and what is not modelled

Only model-checked is all liveness (`LockIsFreed`, `InitSettles`, `PendingSettles`, `LeakHeals`, `TurnEnds`, `RequestsSettle`): it rests on fairness and so
on ENABLED, which these provers do not reason about.

Every other property of the passing runs is stated by a theorem.

Not modelled, by reason (`PROJECT.json` has the list):

* single transactions that the database's constraints order: saves, ratings, the rest
  of account deletion, personas, billing;
* the same pattern as one that is modelled: the per-user limit (as `PrefabGate`);
* without state to get wrong: prompt texts, schemas, paginated reads, telemetry,
  configuration and migrations;
* outside of a model's reach: what the language model writes, the picture models, and
  the verdicts of judge, load and stress scripts;
* sequential scripts around external tools: watchdog, backup and restore.

Left out of modelled parts: regular expressions, prompts and cleaning of texts in
`inference.py`; the polling of media and the rating of turns in the view; the user object
of `AuthContext`; the rating that a regeneration deletes; token estimates nobody calls.

## 7. What is left to do

* `PrefabGate`, `TokenBudget` and `ScenarioPublish` composed, for a prefab job that
  holds its place at the gate while it polls the budget.
* `Storyline`, which `EngineTurn` implements, joined to `ForkingLog`, which `SessionTurns` does: an
  engine's exchange as the content that a session's turn adds.
