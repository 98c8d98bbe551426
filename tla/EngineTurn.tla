----------------------------- MODULE EngineTurn -----------------------------
(***************************************************************************)
(* One roleplay engine and its turns (backend/engine/engine.py, Engine.step *)
(* and Engine.regenerate; backend/ai_service.py, engine_step,              *)
(* engine_regenerate, engine_step_stream; the parts of engine/inference.py *)
(* and engine/call.py they call).                                          *)
(*                                                                         *)
(* A turn works on a copy of the engine state of its session, makes a      *)
(* dozen calls to the language model, and gives the new state back; a turn *)
(* that raises gives nothing back.  The session's lock (SessionTurns) lets *)
(* one turn at a time run.  A call of the model can be refused for its rate *)
(* and tried again, fail, or answer; each caller has its own way to go on. *)
(*                                                                         *)
(* Texts are told apart by where they come from; a message by its author,  *)
(* its turn and, for an answer, by how often it was regenerated (take).    *)
(***************************************************************************)
EXTENDS Integers, Sequences, FiniteSets, FiniteSetsExt, SequencesExt

CONSTANTS MaxTurn,      \* bound on turns
          MaxRedone,    \* bound on answers regenerated, once each
          Window,       \* MAX_RAW_TURNS: messages kept word for word
          Retries,      \* attempts of call() ...
          GuardRetries, \* ... and of the calls of guard_response
          ShownSummaries, \* how many of the last summaries a prompt holds
          FullResolve,  \* integrity_resolve 1.0, in steps of the cap on a shift (0.2)
          Shifts,       \* loosenings the model may report, in the same unit; one
                        \* below zero tightens
          Faults        \* what calls may do besides answer

\* rate  the provider answers 429
\* call  a call fails in any other way, or its answer cannot be parsed
FaultKinds == {"rate", "call"}

ASSUME BoundsAssumption == MaxTurn \in Nat /\ MaxRedone \in Nat
ASSUME WindowAssumption == Window \in Nat /\ Window >= 2 /\ ShownSummaries \in Nat
ASSUME RetriesAssumption == Retries \in Nat \ {0} /\ GuardRetries \in Nat \ {0}
ASSUME ResolveAssumption == FullResolve \in Nat /\ Shifts \subseteq Int
ASSUME FaultsAssumption == Faults \subseteq FaultKinds

Lang == {"English", "French"}  \* of the scene; French: any other
Voice == {"af", "am"}          \* AVAILABLE_VOICES
NoVoice == "none"

VARIABLES saved,  \* the engine state that the session keeps
          eng,    \* the engine the turn works on
          pc,     \* where the turn is; "idle" between turns
          now,    \* its local variables
          lock,   \* Engine._lock is held
          shown   \* the answer whose text was streamed to the player

vars == <<saved, eng, pc, now, lock, shown>>

Message(by, turn, take) == [by |-> by, turn |-> turn, take |-> take]
Opening == Message("opening", 0, 1)
NoMessage == Message("none", 0, 0)
IsUser(m) == m.by \in {"player", "continue"}
IsAssistant(m) == m.by \in {"opening", "narrator"}

NoText == [src |-> "none", repeats |-> FALSE]
EmptyText == [src |-> "empty", repeats |-> FALSE]
Safe == [src |-> "safe", repeats |-> FALSE]
Draft == [src |-> "draft", repeats |-> FALSE]  \* nobody asks whether it repeats
Text(src, repeats) == [src |-> src, repeats |-> repeats]

\* history is annotated and trimmed, display_history is what the player sees.
\* summaries: the messages each summary stands for.  resolve is one character's
\* integrity_resolve, and stands for all that answers leave on the entities.
\* told, forgotten and lost are histories: every message of the story, those
\* trimmed from history, and those of the trimmed ones no summary tells.
NewEngine ==
  [turn |-> 0, history |-> <<Opening>>, display |-> <<Opening>>,
   summaries |-> <<>>, resolve |-> FullResolve,
   voice |-> NoVoice, lang |-> "English",
   told |-> <<Opening>>, forgotten |-> <<>>, lost |-> {}]

\* attempt: of the running call; begun: it has streamed something;
\* continuation: the guard is told that the player said nothing; previous: what
\* the answer must not repeat; flawed: the guard has violations; refused: the
\* draft was; trouble: what went wrong on the way.
NoWork ==
  [op |-> "none", attempt |-> 1, begun |-> FALSE, continuation |-> FALSE,
   previous |-> NoMessage, answer |-> NoMessage,
   revised |-> NoText, text |-> NoText, flawed |-> FALSE, refused |-> FALSE,
   chunk |-> <<>>, voice |-> NoVoice, trouble |-> {}]

\* An engine that was just initialised, in one language or the other.
Init ==
  /\ \E l \in Lang : saved = [NewEngine EXCEPT !.lang = l]
  /\ eng = saved /\ pc = "idle" /\ now = NoWork
  /\ lock = FALSE /\ shown = NoMessage

-----------------------------------------------------------------------------
(* Calls to the language model.                                            *)

GuardCalls == {"validate", "repair", "revalidate", "fallback", "novel"}
Calls == GuardCalls \union {"translate", "generate", "tongue", "judge", "rejudge",
                            "final", "extract", "summarise"}

Attempts(p) == IF p \in GuardCalls THEN GuardRetries ELSE Retries

\* Nothing is retried once tokens were yielded.
MayRetry == now.attempt < Attempts(pc) /\ ~now.begun

\* 429, and another attempt left: wait and call again.
RateLimited ==
  /\ "rate" \in Faults /\ pc \in Calls /\ MayRetry
  /\ now' = [now EXCEPT !.attempt = @ + 1]
  /\ UNCHANGED <<saved, eng, pc, lock, shown>>

\* What a call returns, or "failed": it raises.
Outcome(answers) ==
  answers \union (IF "call" \in Faults \/ ("rate" \in Faults /\ ~MayRetry)
                    THEN {"failed"} ELSE {})

\* Go on with the turn, with these local variables.
Goto(p, work) ==
  /\ pc' = p /\ now' = [work EXCEPT !.attempt = 1]
  /\ UNCHANGED <<saved, lock>>

\* The exception leaves the engine: the session keeps the state it had.
Abort(trouble) ==
  /\ pc' = "idle" /\ now' = [NoWork EXCEPT !.trouble = trouble]
  /\ eng' = saved /\ lock' = FALSE
  /\ UNCHANGED <<saved, shown>>

-----------------------------------------------------------------------------
(* The beginning of a turn.                                                *)

Ops == {"step", "continue", "stream"}

\* detect_language_fast has no sign of English: it names another language, or
\* none at all.
Detected == (Lang \ {"English"}) \union {"none"}

\* An input without a language keeps the scene's.
Heard(current) == {IF l = "none" THEN current ELSE l : l \in Detected}

\* deserialize_engine: the turn's own copy of the state, with a lock of its own.
Loaded == saved

\* A turn with the player's input, at once or streamed, or a continuation.
Start(op) ==
  /\ pc = "idle" /\ saved.turn < MaxTurn
  /\ \E l \in (IF op = "continue" THEN {saved.lang} ELSE Heard(saved.lang)) :
       /\ eng' = [Loaded EXCEPT !.turn = @ + 1, !.lang = l]
       /\ pc' = IF op # "continue" /\ l # "English" THEN "translate" ELSE "prompt"
  /\ now' = [NoWork EXCEPT !.op = op]
  /\ lock' = (op # "stream") /\ shown' = NoMessage
  /\ UNCHANGED saved

TranslateInput ==
  /\ pc = "translate"
  /\ \E r \in Outcome({"english"}) :
       IF r = "failed" THEN Abort({})
       ELSE Goto("prompt", now) /\ UNCHANGED <<eng, shown>>

\* Wrong on purpose: the top of the history is skipped, as if this turn's
\* message had been appended.
PreviousBelowTop(display) ==
  Last(SelectSeq(<<NoMessage>> \o Front(display), LAMBDA m : ~IsUser(m)))

\* The last answer, or the opening.
Previous(display) == display[Max({i \in DOMAIN display : IsAssistant(display[i])})]

\* Wrong on purpose: a continuation leaves a message for the player to see.
DisplayAlways(display, m) == Append(display, m)

\* A continuation has no message of the player's to show.
Display(display, m) == IF m.by = "continue" THEN display ELSE Append(display, m)

\* preprocess, build_system, and this turn's message.
Prompt ==
  /\ pc = "prompt"
  /\ LET m == Message(IF now.op = "continue" THEN "continue" ELSE "player", eng.turn, 1) IN
     /\ eng' = [eng EXCEPT !.history = Append(@, m), !.told = Append(@, m),
                           !.display = Display(@, m)]
     /\ Goto("generate", [now EXCEPT !.previous = Previous(eng.display),
                                     !.continuation = (now.op = "continue"),
                                     !.answer = Message("narrator", eng.turn, 1)])
  /\ UNCHANGED shown

Redone(e) == {i \in 1..Len(e.told) : e.told[i].take > 1}

\* Engine.regenerate drops the last answer and asks for another one to the
\* same input.
Regenerate ==
  /\ pc = "idle" /\ Len(saved.history) > 1 /\ Last(saved.history).take = 1
  /\ Cardinality(Redone(saved)) < MaxRedone
  /\ IsAssistant(Last(saved.history)) /\ IsUser(Last(Front(saved.history)))
  /\ eng' = [Loaded EXCEPT !.history = Front(@), !.display = Front(@), !.told = Front(@)]
  /\ now' = [NoWork EXCEPT !.op = "regenerate",
                           !.previous = Previous(Front(saved.display)),
                           !.continuation = ~IsUser(Last(Front(saved.display))),
                           !.answer = [Last(saved.history) EXCEPT !.take = @ + 1]]
  /\ pc' = "generate" /\ lock' = TRUE /\ shown' = NoMessage
  /\ UNCHANGED saved

LastN(s, n) == SubSeq(s, Max({1, Len(s) - n + 1}), Len(s))

\* The summaries a prompt holds.
Recalled(summaries) == LastN(summaries, ShownSummaries)

\* Wrong on purpose: the answer to come is counted in the window.
HotAndAnswer(history) == LastN(history, Window - 1)

\* The messages the model is shown.
Hot(history) == LastN(history, Window)

\* An English answer needs no translation.
Translated == IF eng.lang = "English" THEN "judge" ELSE "tongue"

Generate ==
  /\ pc = "generate" /\ now.op # "stream"
  /\ \E r \in Outcome({"text"}) :
       IF r = "failed" THEN Abort({})
       ELSE Goto(Translated, now) /\ UNCHANGED <<eng, shown>>

\* async_stream_call: the tokens come one by one; the first one matters.
StreamToken ==
  /\ pc = "generate" /\ now.op = "stream" /\ ~now.begun
  /\ now' = [now EXCEPT !.begun = TRUE]
  /\ UNCHANGED <<saved, eng, pc, lock, shown>>

StreamEnds ==
  /\ pc = "generate" /\ now.op = "stream"
  /\ \E r \in Outcome({"text"}) :
       IF r = "failed" THEN Abort({})
       ELSE Goto(Translated, [now EXCEPT !.begun = FALSE]) /\ UNCHANGED <<eng, shown>>

TranslateOutput ==
  /\ pc = "tongue"
  /\ \E r \in Outcome({"text"}) :
       IF r = "failed" THEN Abort({})
       ELSE Goto("judge", now) /\ UNCHANGED <<eng, shown>>

-----------------------------------------------------------------------------
(* guard_response: validate, repair once, fall back.                       *)

\* check_sovereignty fails closed.
Clean(r) == r = "clean"

JudgeDraft ==
  /\ pc = "judge"
  /\ \E r \in Outcome({"clean", "unclean"}) :
       Goto("validate", [now EXCEPT !.flawed = ~Clean(r)])
  /\ UNCHANGED <<eng, shown>>

\* A verdict: valid, or not, with or without violations that name why.
Verdicts == {"valid", "invalid", "unnamed"}

\* Wrong on purpose: a validator without a verdict lets the draft pass.
FindsFaultIfSaid(r) == r = "invalid"

\* Violations are what counts: those of an invalid verdict, and a failure.
FindsFault(r) == r \in {"invalid", "failed"}

ValidateDraft ==
  /\ pc = "validate"
  /\ \E r \in Outcome(Verdicts) :
       LET work == [now EXCEPT !.flawed = @ \/ FindsFault(r),
                               !.refused = now.flawed \/ r # "valid",
                               !.trouble = IF r = "unnamed" THEN @ \union {"unnamed"} ELSE @]
       IN IF work.flawed THEN Goto("repair", work)
          ELSE Goto("final", [work EXCEPT !.text = Draft])
  /\ UNCHANGED <<eng, shown>>

\* What the model writes: something, that may repeat the previous answer, or
\* nothing.
Written(src) == {EmptyText} \union {Text(src, repeats) : repeats \in BOOLEAN}

Repair ==
  /\ pc = "repair"
  /\ \/ /\ "failed" \in Outcome({})
        /\ Goto("final", [now EXCEPT !.text = Safe])
     \/ \E t \in Written("repair") :
          Goto("rejudge", [now EXCEPT !.revised = t, !.flawed = FALSE])
  /\ UNCHANGED <<eng, shown>>

JudgeRepair ==
  /\ pc = "rejudge"
  /\ \E r \in Outcome({"clean", "unclean"}) :
       Goto("revalidate", [now EXCEPT !.flawed = ~Clean(r)])
  /\ UNCHANGED <<eng, shown>>

\* return revised or response
RepairOrDraft(work) ==
  IF work.revised = EmptyText
    THEN [work EXCEPT !.text = Draft, !.trouble = @ \union {"emptyrepair"}]
    ELSE [work EXCEPT !.text = work.revised]

\* Wrong on purpose: only a verbatim copy counts, and nobody makes one.
RepairFoundInvalid(r) == r = "invalid"

\* A repair that repeats the previous answer is as bad as an invalid one; a
\* validator that fails is not, here.
RepairAtFault(r) == now.revised.repeats \/ r = "invalid"

ValidateRepair ==
  /\ pc = "revalidate"
  /\ \E r \in Outcome(Verdicts) :
       IF now.flawed \/ RepairAtFault(r) THEN Goto("fallback", now)
       ELSE Goto("final", RepairOrDraft(now))
  /\ UNCHANGED <<eng, shown>>

Fallback ==
  /\ pc = "fallback"
  /\ \/ \E t \in Written("fallback") :
          IF t.repeats THEN Goto("novel", now)
          ELSE IF t # EmptyText THEN Goto("final", [now EXCEPT !.text = t])
          ELSE Goto("final", RepairOrDraft([now EXCEPT !.trouble = @ \union {"nofallback"}]))
     \/ /\ "failed" \in Outcome({})
        /\ Goto("final", RepairOrDraft([now EXCEPT !.trouble = @ \union {"nofallback"}]))
  /\ UNCHANGED <<eng, shown>>

\* Asked again for something different; what still repeats, because nothing
\* better came, gets another beginning.
NovelFallback ==
  /\ pc = "novel"
  /\ \E src \in {"fallback", "prefixed"} :
       Goto("final", [now EXCEPT !.text = Text(src, src = "prefixed")])
  /\ UNCHANGED <<eng, shown>>

-----------------------------------------------------------------------------
(* The end of a turn.                                                      *)

\* Wrong on purpose: the chunk and what remains overlap.
CutOneMore(history) ==
  IF Len(history) > Window THEN SubSeq(history, 1, Len(history) - Window + 1) ELSE <<>>

\* What history[:-MAX_RAW_TURNS] cuts off.
Cut(history) ==
  IF Len(history) > Window THEN SubSeq(history, 1, Len(history) - Window) ELSE <<>>

Trimmed(e) == [e EXCEPT !.history = LastN(@, Window), !.forgotten = @ \o Cut(e.history)]

\* Wrong on purpose: the answer's state changes are extracted under the lock.
AnswerHoldingLock ==
  /\ pc = "final"
  /\ eng' = Trimmed([eng EXCEPT !.history = Append(@, now.answer),
                                !.told = Append(@, now.answer)])
  /\ pc' = "extract" /\ now' = [now EXCEPT !.attempt = 1]
  /\ UNCHANGED <<saved, lock, shown>>

\* The last sovereignty check; the answer joins the histories.  The stream
\* shows it first; it trims the history after the summary, the others before.
Answer ==
  /\ pc = "final"
  /\ \E r \in Outcome({"clean", "unclean"}) :
       LET said == [eng EXCEPT !.history = Append(@, now.answer),
                               !.display = Append(@, now.answer),
                               !.told = Append(@, now.answer)]
       IN /\ eng' = IF now.op \in {"step", "continue"} THEN Trimmed(said) ELSE said
          /\ now' = [now EXCEPT !.attempt = 1,
                                !.text = IF Clean(r) THEN @ ELSE Safe,
                                !.chunk = IF now.op = "regenerate" THEN <<>>
                                          ELSE Cut(said.history)]
          /\ shown' = IF now.op = "stream" THEN now.answer ELSE shown
  /\ pc' = "extract" /\ lock' = FALSE
  /\ UNCHANGED saved

\* Wrong on purpose: the shift is taken as the model reports it.
Reported(shift) == shift

\* A boundary only loosens, and by 0.2 at most.
Capped(shift) == Max({0, Min({shift, 1})})

Worn(resolve, shift) == Max({0, resolve - shift})

\* Wrong on purpose: a failed extraction fails the turn.
ExtractRaises ==
  /\ pc = "extract" /\ ~lock
  /\ \/ "failed" \in Outcome({}) /\ Abort({})
     \/ Goto("media", now) /\ UNCHANGED <<eng, shown>>

\* extract_and_save_assumptions takes the lock to apply what it found.  A
\* failure is only logged.
Extract ==
  /\ pc = "extract" /\ ~lock
  /\ \/ /\ "failed" \in Outcome({}) /\ UNCHANGED eng
     \/ \E shift \in Shifts :
          eng' = [eng EXCEPT !.resolve = Worn(@, Capped(shift))]
  /\ Goto(IF now.chunk = <<>> THEN "media" ELSE "summarise",
          [NoWork EXCEPT !.op = now.op, !.answer = now.answer, !.chunk = now.chunk])
  /\ UNCHANGED shown

\* summarize_chunk: two to four calls; if one fails, the chunk is lost.
Summarise ==
  /\ pc = "summarise"
  /\ LET e == IF now.op = "stream" THEN Trimmed(eng) ELSE eng IN
     \E r \in Outcome({"summary"}) :
       eng' = IF r = "summary" THEN [e EXCEPT !.summaries = Append(@, Range(now.chunk))]
              ELSE [e EXCEPT !.lost = @ \union Range(now.chunk)]
  /\ Goto("media", [now EXCEPT !.chunk = <<>>])
  /\ UNCHANGED shown

\* Wrong on purpose: the voice is derived for every turn.
VoiceAnew(e) == Voice

\* get_voice_profile: any voice of the list, once.
VoiceOf(e) == IF e.voice = NoVoice THEN Voice ELSE {e.voice}

\* _build_turn_media_context, of the main character, who is always in view and
\* first among those who may be.  It is asked for visual tags, again if they were
\* blank, and for a voice, unless the engine has them; if a call fails the turn is
\* lost.  There may be nothing to narrate.  A streamed turn has serialised its
\* engine before.
Media ==
  /\ pc = "media"
  /\ \/ \E v \in VoiceOf(eng), narrated \in BOOLEAN :
          /\ eng' = IF now.op = "stream" THEN eng ELSE [eng EXCEPT !.voice = v]
          /\ Goto("save", [now EXCEPT !.voice = IF narrated THEN v ELSE NoVoice])
          /\ UNCHANGED shown
     \/ Faults # {} /\ Abort({"nomedia"})

\* The result is given back: the session keeps the state, a media job is
\* queued with the voice.
Save ==
  /\ pc = "save"
  /\ saved' = eng
  /\ pc' = "idle" /\ now' = NoWork
  /\ UNCHANGED <<eng, lock, shown>>

Guard ==
  JudgeDraft \/ ValidateDraft \/ Repair \/ JudgeRepair \/ ValidateRepair \/ Fallback
    \/ NovelFallback

TurnStep ==
  \/ RateLimited \/ TranslateInput \/ Prompt \/ Generate \/ StreamToken \/ StreamEnds
  \/ TranslateOutput \/ Guard \/ Answer \/ Extract \/ Summarise \/ Media \/ Save

Next == Regenerate \/ TurnStep \/ \E op \in Ops : Start(op)

\* A running turn goes on: it is a thread, or a task of the event loop.
Fairness == WF_vars(TurnStep)

Spec == Init /\ [][Next]_vars
FairSpec == Spec /\ Fairness

-----------------------------------------------------------------------------
Phases == Calls \union {"idle", "prompt", "media", "save"}

TypeOK ==
  /\ saved.turn \in 0..MaxTurn /\ eng.turn \in 0..MaxTurn
  /\ saved.lang \in Lang /\ saved.resolve \in 0..FullResolve
  /\ Len(saved.history) \in 1..Window
  /\ pc \in Phases /\ lock \in BOOLEAN
  /\ now.attempt \in 1..Attempts(pc)

(* Nothing that was said falls between the raw history and what was cut off *)
(* it to be summarised, and nothing is in both, whatever turns failed or    *)
(* were regenerated (engine.py, step: chunk_to_summarize).                  *)
HistoryPartition == saved.forgotten \o saved.history = saved.told

(* What the narrator is shown of the last messages has one hole: the oldest *)
(* raw message, which this turn's input pushes out of the window before the *)
(* turn's end summarises it.  Everything else of the window and of the last *)
(* summaries' stretch is there, or its summary failed (inference.py,        *)
(* summarize_chunk: "gone with no recovery path").                          *)
RecentStoryInSight ==
  pc = "generate" =>
    LET n == Len(eng.told)
        reach == Window + 2 * ShownSummaries - (IF now.op = "regenerate" THEN 2 ELSE 0)
    IN \A i \in 1..n : i >= n - reach =>
      \/ eng.told[i] \in Range(Hot(eng.history))
      \/ eng.told[i] \in UNION Range(Recalled(eng.summaries))
      \/ eng.told[i] \in eng.lost
      \/ i = n - Window

(* A draft the guard refused is not what is saved, unless its repair came   *)
(* back empty or the verdict named no violation; and what is saved instead  *)
(* does not repeat the answer before, unless no fallback could be had or it *)
(* got another beginning (inference.py, guard_response, _similar_response). *)
RefusedIsReplaced ==
  pc = "extract" /\ now.refused =>
    /\ now.text.src = "draft" => now.trouble \intersect {"emptyrepair", "unnamed"} # {}
    /\ now.text.repeats => now.text.src = "prefixed" \/ "nofallback" \in now.trouble

(* A verdict that is not valid never lets the draft pass (NEXT_PHASE_PLAN.md:*)
(* the turn loop "is fail-closed at every stage"), but for an empty repair. *)
GuardFailsClosed ==
  pc = "extract" /\ now.refused /\ now.text.src = "draft" => "emptyrepair" \in now.trouble

(* The guard is told of the player's input exactly when the turn had one,   *)
(* though a regeneration only has the absence of a message in               *)
(* display_history to tell (engine.py, regenerate: is_continuation), and of *)
(* the answer of the turn before as what must not be repeated (engine.py,   *)
(* step: computed "BEFORE this turn's append(s)").                          *)
GuardContextIsRight ==
  pc = "generate" =>
    /\ now.continuation = (Last(eng.history).by = "continue")
    /\ now.previous.turn = now.answer.turn - 1

\* The story that the session keeps.
Line == INSTANCE Storyline WITH
  turn <- saved.turn, told <- saved.told, display <- saved.display,
  boundary <- saved.resolve, voice <- saved.voice

(* Whatever its calls do, the turns that give back a result tell one story, *)
(* and those that fail leave it as it was: each adds one numbered exchange  *)
(* or tells the last answer again, shows the player all of it but the       *)
(* continuations, and wears a boundary by one cap at most (Storyline;       *)
(* inference.py, _apply_resolve_shifts: "negative-only, capped per turn").  *)
ImplementsStoryline == Line!Spec

(* A boundary wears by at most one cap per turn of the story, whatever the  *)
(* model reports and however many turns failed (inference.py,               *)
(* _apply_resolve_shifts: "negative-only, capped per turn"), as long as no  *)
(* answer was regenerated: each take of an answer wears it again.           *)
ErosionPerTurn == Redone(saved) = {} => FullResolve <= saved.resolve + saved.turn

GivesVoice == pc = "save" /\ pc' = "idle" /\ now.voice # NoVoice

(* The voice a turn's narration gets is the one the character has in the    *)
(* session, and has from then on (voice_prompts.py: "locked", a "voice      *)
(* shouldn't drift turn to turn"), if the turn was not streamed.            *)
VoiceIsKeptUnlessStreamed ==
  [][GivesVoice /\ now.op # "stream"
       => saved'.voice = now.voice /\ saved.voice \in {NoVoice, now.voice}]_vars

(* The same of every turn.                                                  *)
VoiceIsKept ==
  [][GivesVoice => saved'.voice = now.voice /\ saved.voice \in {NoVoice, now.voice}]_vars

(* An answer whose text the player was streamed is part of the story when   *)
(* the turn is over, unless its media context could not be made.            *)
ShownIsSaved ==
  pc = "idle" /\ shown # NoMessage
    => Contains(saved.told, shown) \/ "nomedia" \in now.trouble

(* A turn ends, with a result or an error, however often the provider asks  *)
(* to wait, and what comes after the answer finds the lock free (engine.py, *)
(* step: "it's not reentrant").                                             *)
TurnEnds == pc # "idle" ~> pc = "idle"
=============================================================================
