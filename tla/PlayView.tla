------------------------------ MODULE PlayView ------------------------------
(***************************************************************************)
(* What a player sees of a story (PlayView of frontend/app/src/App.jsx,    *)
(* with the calls of api.js), against what the backend holds of it, over   *)
(* several visits of one scenario with one persona.                        *)
(*                                                                         *)
(* Opening the view asks for the last session's history, to be shown, and  *)
(* for a new session, which resumes that story; the two requests are not   *)
(* ordered.  A turn is streamed into a placeholder whose index is computed *)
(* when it is sent; continuations and regenerations are answered whole.    *)
(* Leaving ends the session, or does not, when the tab is closed.          *)
(*                                                                         *)
(* Of the backend (main.py), a turn is one step that saves the session and *)
(* its row of session_logs, or fails; SessionTurns has the steps between.  *)
(* A row made by ending a session that was not ready holds a JSON null for *)
(* the engine, which IS NOT NULL.                                          *)
(***************************************************************************)
EXTENDS Naturals, Sequences, FiniteSets, SequencesExt

CONSTANTS MaxVisits, MaxSends,
          Faults

\* cut    the answer of a turn is lost on its way
\* deaf   getLastSession fails or is answered late
\* close  the tab is closed: nothing is aborted or ended
\* lost   the request that ends the session fails
\* fail   a session cannot be created, an engine not be initialised
FaultKinds == {"cut", "deaf", "close", "lost", "fail"}

ASSUME BoundsAssumption == MaxVisits \in Nat /\ MaxSends \in Nat
ASSUME FaultsAssumption == Faults \subseteq FaultKinds

Visits == 1..MaxVisits

VARIABLES preview,  \* the scenario is a draft: no history, no log
          page,     \* "away" or "open"
          visit,    \* number of the visit, and of its session
          messages, \* the bubbles
          engine,   \* "asked", "waiting", "ready" or "error": session and engine
          past,     \* getLastSession: "asked", "read" (on its way) or "settled"
          pastLog,  \* what it read
          doing,    \* "none" or the mode of the request in flight
          at,       \* assistantIdx, of send
          answer,   \* its answer, on its way: nothing, a bubble or a refusal
          leaving,  \* handleBack: "no", "waits" for the session's end, or "ended"
          ctx,      \* session:{id} of each visit: [status, display]
          running,  \* the turn that runs on each session: [mode, text, display]
          rows,     \* session_logs by started_at: [visit, display, void]
          sends,    \* turns asked for; each makes one text
          excuse,   \* history: why, in this visit, seen and played may differ
          seen      \* history: the story as last left, <<>> if that is not known

clientVars == <<page, visit, messages, engine, past, pastLog, doing, at, answer, leaving>>
serverVars == <<ctx, running, rows>>
vars == <<preview, clientVars, serverVars, sends, excuse, seen>>

Modes == {"turn", "continue", "regenerate"}
Message(role, text, turn) == [role |-> role, text |-> text, turn |-> turn]

\* Texts are numbers; 0 is the opening.  The history of a new engine.
OpeningText == 0
Partial == MaxSends + 1
Failure == MaxSends + 2
Fresh == <<[role |-> "assistant", text |-> OpeningText]>>

Nothing == Message("none", 0, 0)
Refusal == Message("error", Failure, 0)
NoSession == [status |-> "none", display |-> <<>>]
NoTurn == [mode |-> "none", text |-> 0, display |-> <<>>]
Unknown == <<>>

Init ==
  /\ preview \in BOOLEAN
  /\ page = "away" /\ visit = 0 /\ messages = <<>>
  /\ engine = "asked" /\ past = "settled" /\ pastLog = <<>>
  /\ doing = "none" /\ at = 0 /\ answer = Nothing /\ leaving = "no"
  /\ ctx = [v \in Visits |-> NoSession] /\ running = [v \in Visits |-> NoTurn]
  /\ rows = <<>>
  /\ sends = 0 /\ excuse = {} /\ seen = Unknown

-----------------------------------------------------------------------------
(* The effect that runs when the view is mounted.                          *)

Open ==
  /\ page = "away" /\ visit < MaxVisits
  /\ page' = "open" /\ visit' = visit + 1
  /\ messages' = <<>> /\ engine' = "asked"
  /\ past' = IF preview THEN "settled" ELSE "asked"
  /\ doing' = "none" /\ answer' = Nothing /\ leaving' = "no" /\ excuse' = {}
  /\ UNCHANGED <<preview, pastLog, at, serverVars, sends, seen>>

\* The latest row that has an engine, or a null that counts as one.
LastDisplay == IF rows = <<>> THEN <<>> ELSE Last(rows).display
LastEngine == IF rows = <<>> \/ Last(rows).void THEN Fresh ELSE Last(rows).display

\* get_last_session reads ...
LastRead ==
  /\ page = "open" /\ past = "asked"
  /\ past' = "read" /\ pastLog' = LastDisplay
  /\ UNCHANGED <<preview, page, visit, messages, engine, doing, at, answer, leaving,
                 serverVars, sends, excuse, seen>>

\* Resumed messages are numbered by their place among the assistant's.
Numbered(display) ==
  [i \in DOMAIN display |->
     Message(display[i].role, display[i].text,
             IF display[i].role = "assistant"
               THEN Cardinality({j \in 1..i : display[j].role = "assistant"}) ELSE 0)]

\* ... and its answer becomes the messages, whatever they were.
LastArrives ==
  /\ page = "open" /\ past = "read"
  /\ "deaf" \in Faults \/ (messages = <<>> /\ engine # "ready")
  /\ past' = "settled"
  /\ messages' = IF pastLog = <<>> THEN messages ELSE Numbered(pastLog)
  /\ excuse' = IF messages = <<>> /\ doing = "none" THEN excuse ELSE excuse \union {"late"}
  /\ UNCHANGED <<preview, page, visit, engine, pastLog, doing, at, answer, leaving,
                 serverVars, sends, seen>>

\* .catch(() => {})
LastFails ==
  /\ page = "open" /\ past # "settled" /\ "deaf" \in Faults
  /\ past' = "settled" /\ excuse' = excuse \union {"unheard"}
  /\ UNCHANGED <<preview, page, visit, messages, engine, pastLog, doing, at, answer, leaving,
                 serverVars, sends, seen>>

\* create_session, which has read the engine that the init job will restore.
CreateSession ==
  /\ page = "open" /\ engine = "asked" /\ ctx[visit].status = "none"
  /\ ctx' = [ctx EXCEPT ![visit] =
               [status |-> "initializing", display |-> IF preview THEN Fresh ELSE LastEngine]]
  /\ UNCHANGED <<preview, clientVars, running, rows, sends, excuse, seen>>

\* Its answer: setSessionId.
SessionKnown ==
  /\ page = "open" /\ engine = "asked" /\ ctx[visit].status # "none"
  /\ engine' = "waiting"
  /\ UNCHANGED <<preview, page, visit, messages, past, pastLog, doing, at, answer, leaving,
                 serverVars, sends, excuse, seen>>

\* init_engine_job.
EngineInit(v, status) ==
  /\ ctx[v].status = "initializing"
  /\ status = "error" => "fail" \in Faults
  /\ ctx' = [ctx EXCEPT ![v].status = status]
  /\ UNCHANGED <<preview, clientVars, running, rows, sends, excuse, seen>>

\* waitForEngine.
EnginePolled ==
  /\ page = "open" /\ engine = "waiting" /\ ctx[visit].status \in {"ready", "error", "none"}
  /\ engine' = IF ctx[visit].status = "ready" THEN "ready" ELSE "error"
  /\ UNCHANGED <<preview, page, visit, messages, past, pastLog, doing, at, answer, leaving,
                 serverVars, sends, excuse, seen>>

\* The session cannot be created, or the engine was waited for too long.
SetUpFails ==
  /\ page = "open" /\ engine \in {"asked", "waiting"} /\ "fail" \in Faults
  /\ engine' = "error"
  /\ UNCHANGED <<preview, page, visit, messages, past, pastLog, doing, at, answer, leaving,
                 serverVars, sends, excuse, seen>>

-----------------------------------------------------------------------------
(* Turns, as the backend runs them.                                        *)

\* The display history after a turn.
Played(t) ==
  CASE t.mode = "turn" -> t.display \o <<[role |-> "user", text |-> t.text],
                                         [role |-> "assistant", text |-> t.text]>>
    [] t.mode = "continue" -> Append(t.display, [role |-> "assistant", text |-> t.text])
    [] t.mode = "regenerate" -> [t.display EXCEPT ![Len(t.display)].text = t.text]

\* The text and the number of the turn.
Bubble(display) ==
  Message("assistant", Last(display).text,
          Cardinality({i \in DOMAIN display : display[i].role = "assistant"}) - 1)

\* _upsert_session_log.
Upserted(row) ==
  IF preview THEN rows
  ELSE IF \E i \in DOMAIN rows : rows[i].visit = row.visit
    THEN [i \in DOMAIN rows |-> IF rows[i].visit = row.visit THEN row ELSE rows[i]]
    ELSE Append(rows, row)

Row(v, display, void) == [visit |-> v, display |-> display, void |-> void]

\* Wrong on purpose: only the request that ends the session writes its row.
UnloggedUntilEnd(row) ==
  IF running[row.visit].mode # "none" THEN rows ELSE Upserted(row)

Checkpointed(row) == Upserted(row)

\* The turn is one the page has given up: of a session it has left, or cut.
Orphan(v) == page = "away" \/ v # visit \/ doing = "none"

\* The turn has its result, which is saved, and then sent.
TurnSaved(v) ==
  /\ running[v].mode # "none"
  /\ LET display == Played(running[v]) IN
       /\ ctx' = [ctx EXCEPT ![v] = [status |-> "ready", display |-> display]]
       /\ rows' = Checkpointed(Row(v, display, FALSE))
  /\ running' = [running EXCEPT ![v] = NoTurn]
  /\ IF Orphan(v)
       THEN /\ seen' = Unknown
            /\ excuse' = excuse \union {IF v = visit \/ "asked" \in {past, engine} THEN "moved"
                                        ELSE "orphan"}
            /\ UNCHANGED answer
       ELSE answer' = Bubble(Played(running[v])) /\ UNCHANGED <<seen, excuse>>
  /\ UNCHANGED <<preview, page, visit, messages, engine, past, pastLog, doing, at, leaving, sends>>

\* It fails, or is cancelled with the stream.
TurnFails(v) ==
  /\ running[v].mode # "none"
  /\ running' = [running EXCEPT ![v] = NoTurn]
  /\ answer' = IF Orphan(v) THEN answer ELSE Refusal
  /\ UNCHANGED <<preview, page, visit, messages, engine, past, pastLog, doing, at, leaving,
                 ctx, rows, sends, excuse, seen>>

\* end_session: what is there is written, with or without an engine, and the key
\* deleted; it waits three seconds for a turn to end, not longer.
EndSession ==
  /\ page = "open" /\ leaving = "waits"
  /\ rows' = CASE ctx[visit].status = "none" -> rows
                [] ctx[visit].status = "ready" -> Upserted(Row(visit, ctx[visit].display, FALSE))
                [] OTHER -> Upserted(Row(visit, <<>>, TRUE))
  /\ ctx' = [ctx EXCEPT ![visit] = NoSession]
  /\ leaving' = "ended"
  /\ UNCHANGED <<preview, page, visit, messages, engine, past, pastLog, doing, at, answer,
                 running, sends, excuse, seen>>

-----------------------------------------------------------------------------
(* send, continueStory and regenerateStory.                                *)

Idle == doing = "none"

\* The request is taken: there is such a session, ready, and no turn runs on it.
Asked(mode) ==
  /\ page = "open" /\ engine = "ready" /\ sends < MaxSends
  /\ sends' = sends + 1 /\ doing' = mode
  /\ IF /\ ctx[visit].status = "ready" /\ running[visit].mode = "none"
        /\ mode = "regenerate" => Len(ctx[visit].display) > 1
       THEN /\ running' = [running EXCEPT ![visit] =
                             [mode |-> mode, text |-> sends + 1, display |-> ctx[visit].display]]
            /\ answer' = Nothing
       ELSE answer' = Refusal /\ UNCHANGED running

\* Wrong on purpose: the user's message is not counted.
IdxBeforeUser == Len(messages) + 1

AssistantIdx == Len(messages) + 2

\* The user's message and a placeholder.
Send ==
  /\ Idle /\ Asked("turn")
  /\ messages' = messages \o <<Message("user", sends + 1, 0), Message("assistant", Partial, 0)>>
  /\ at' = AssistantIdx
  /\ UNCHANGED <<preview, page, visit, engine, past, pastLog, leaving, ctx, rows, excuse, seen>>

ContinueStory ==
  /\ Idle /\ Asked("continue")
  /\ UNCHANGED <<preview, page, visit, messages, engine, past, pastLog, at, leaving, ctx, rows,
                 excuse, seen>>

\* There is a button on the last bubble, if it is the assistant's and complete.
RegenerateStory ==
  /\ Idle /\ messages # <<>> /\ Asked("regenerate")
  /\ Last(messages).role = "assistant" /\ Last(messages).text # Partial
  /\ UNCHANGED <<preview, page, visit, messages, engine, past, pastLog, at, leaving, ctx, rows,
                 excuse, seen>>

\* updated[assistantIdx] = ..., which may be beyond the end.
Put(list, i, message) ==
  [k \in 1..(IF i > Len(list) THEN i ELSE Len(list)) |->
     IF k = i THEN message
     ELSE IF k <= Len(list) THEN list[k] ELSE Message("hole", 0, 0)]

\* A token: the bubble at that place, whatever it is, shows what has come so far.
TokenArrives ==
  /\ page = "open" /\ doing = "turn" /\ answer # Refusal
  /\ messages' = Put(messages, at,
                     IF at <= Len(messages) THEN [messages[at] EXCEPT !.text = Partial]
                     ELSE Message("hole", Partial, 0))
  /\ messages' # messages
  /\ UNCHANGED <<preview, page, visit, engine, past, pastLog, doing, at, answer, leaving,
                 serverVars, sends, excuse, seen>>

Show(message) ==
  CASE doing = "turn" -> Put(messages, at, message)
    [] doing = "continue" -> Append(messages, message)
    [] doing = "regenerate" ->
         IF messages # <<>> /\ Last(messages).role = "assistant"
           THEN Put(messages, Len(messages), message) ELSE messages

\* finally
Over == doing' = "none" /\ answer' = Nothing

Answered ==
  /\ page = "open" /\ doing # "none" /\ answer \notin {Nothing, Refusal}
  /\ messages' = Show(answer) /\ Over
  /\ UNCHANGED <<preview, page, visit, engine, past, pastLog, at, leaving, serverVars, sends,
                 excuse, seen>>

\* An error bubble at the end, and no placeholder.
Failed ==
  LET told == Append(messages, Refusal)
  IN  IF doing = "turn" /\ at \in DOMAIN told THEN RemoveAt(told, at) ELSE told

Refused ==
  /\ page = "open" /\ doing # "none" /\ answer = Refusal
  /\ messages' = Failed /\ Over
  /\ UNCHANGED <<preview, page, visit, engine, past, pastLog, at, leaving, serverVars, sends,
                 excuse, seen>>

\* The connection fails, or a stream just ends; the turn goes on, or is saved.
CutOff ==
  /\ page = "open" /\ doing # "none" /\ answer # Refusal /\ "cut" \in Faults
  /\ messages' = Failed \/ (doing = "turn" /\ messages' = messages)
  /\ Over /\ excuse' = excuse \union {"cut"}
  /\ UNCHANGED <<preview, page, visit, engine, past, pastLog, at, leaving, serverVars, sends, seen>>

-----------------------------------------------------------------------------
(* Leaving.                                                                *)

AtRest == engine = "ready" /\ past = "settled" /\ doing = "none"

\* Answers, and the messages of the user but those that were refused, which an
\* error follows.
Kept(list) ==
  {i \in DOMAIN list :
     \/ list[i].role = "assistant"
     \/ list[i].role = "user" /\ ~(i < Len(list) /\ list[i + 1].role = "error")}

\* The texts, without the opening, which is shown only when it is resumed.
Story(display) ==
  LET texts == [i \in DOMAIN display |-> [role |-> display[i].role, text |-> display[i].text]]
  IN  IF texts # <<>> /\ Head(texts).text = OpeningText THEN Tail(texts) ELSE texts

Shown ==
  LET kept == Kept(messages)
  IN  Story([k \in 1..Cardinality(kept) |->
               messages[CHOOSE i \in kept : Cardinality({j \in kept : j <= i}) = k]])

\* onBack, or the tab is gone.  The effect's cleanup sends one more DELETE, which finds
\* the session gone, or does what handleBack's would have done had it not been lost.
Unmount ==
  /\ page' = "away" /\ messages' = <<>> /\ Over /\ engine' = "asked"
  /\ past' = "settled" /\ leaving' = "no"
  /\ seen' = IF engine = "ready"
               THEN IF AtRest /\ excuse = {} THEN Shown ELSE Unknown
               ELSE IF leaving = "ended" THEN Unknown ELSE seen
  /\ UNCHANGED <<preview, visit, pastLog, at, serverVars, sends, excuse>>

\* handleBack: a session whose id is known is ended first.
Back ==
  /\ page = "open" /\ leaving = "no"
  /\ IF engine = "asked" THEN Unmount
     ELSE /\ leaving' = "waits"
          /\ UNCHANGED <<preview, page, visit, messages, engine, past, pastLog, doing, at,
                         answer, serverVars, sends, excuse, seen>>

Left == page = "open" /\ (leaving = "ended" \/ (leaving = "waits" /\ "lost" \in Faults)) /\ Unmount

TabCloses == page = "open" /\ "close" \in Faults /\ Unmount

Client ==
  \/ Open \/ LastArrives \/ LastFails \/ SessionKnown \/ EnginePolled \/ SetUpFails
  \/ Send \/ ContinueStory \/ RegenerateStory \/ TokenArrives \/ Answered \/ Refused \/ CutOff
  \/ Back \/ Left \/ TabCloses

Server ==
  \/ LastRead \/ CreateSession \/ EndSession
  \/ \E v \in Visits : \/ \E status \in {"ready", "error"} : EngineInit(v, status)
                       \/ TurnSaved(v) \/ TurnFails(v)

Next == Client \/ Server

Spec == Init /\ [][Next]_vars

-----------------------------------------------------------------------------
TypeOK ==
  /\ page \in {"away", "open"} /\ visit \in 0..MaxVisits
  /\ engine \in {"asked", "waiting", "ready", "error"}
  /\ past \in {"asked", "read", "settled"} /\ doing \in Modes \union {"none"}
  /\ leaving \in {"no", "waits", "ended"}
  /\ \A v \in Visits : ctx[v].status \in {"none", "initializing", "ready", "error"}
  /\ \A v \in Visits : running[v].mode \in Modes \union {"none"}

(* At rest the player sees the story that the backend holds: what is        *)
(* resumed and shown, streamed into a placeholder, appended, replaced or    *)
(* refused adds up, bubble by bubble, to the session's display history      *)
(* (App.jsx, PlayView).  It does not when an answer is lost on its way,     *)
(* the last history fails or arrives over newer bubbles, or a turn given up *)
(* is saved while the next visit reads.                                     *)
SeenIsPlayed ==
  page = "open" /\ AtRest /\ excuse \subseteq {"orphan"} /\ ctx[visit].status = "ready"
    => Shown = Story(ctx[visit].display)

(* The story as the player left it is the one the next visit's engine       *)
(* resumes, however the last visits ended (main.py, _upsert_session_log: "a *)
(* crashed client ... doesn't lose the whole conversation"), unless a       *)
(* session was ended before it was ready, a turn given up was saved, or the *)
(* player had not seen the story as it was.                                 *)
StoryResumes ==
  page = "open" /\ ~preview /\ seen # Unknown /\ ctx[visit].status = "initializing"
    => Story(ctx[visit].display) = seen

(* The numbers of the answers, by which scenes and ratings are looked up,   *)
(* are the turns' (App.jsx, PlayView: counting the assistant's messages is  *)
(* "accurate for ordinary 1-user-then-1-assistant sessions").               *)
NumbersAreReal ==
  excuse = {} => \A i, j \in DOMAIN messages :
                   i # j /\ messages[i].turn > 0 => messages[i].turn # messages[j].turn
=============================================================================
