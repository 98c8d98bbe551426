----------------------------- MODULE EngineCast -----------------------------
(***************************************************************************)
(* How an engine comes to know its cast (backend/engine/engine.py,         *)
(* scenario_to_engine and Engine.__init__; scan_opening_for_npcs and       *)
(* infer_characters of engine/inference.py), and how a prefab gets its     *)
(* player (backend/ai_service.py, engine_prefab, engine_init,              *)
(* engine_init_from_prefab).                                               *)
(*                                                                         *)
(* An initialisation makes fifteen to twenty calls to the language model,  *)
(* some of them in threads.  Any may fail; most are caught, the others end *)
(* the initialisation.  A draft's preview is initialised for its player; a *)
(* published scenario once, for a placeholder, and each session puts its   *)
(* player into a copy.                                                     *)
(*                                                                         *)
(* Names are compared without case, so a name here is one up to case; what *)
(* the scan lists, a name or a phrase like "the butler", is a name too.    *)
(***************************************************************************)
EXTENDS Naturals, Sequences, FiniteSets, SequencesExt

CONSTANTS Name,        \* names of people
          Main,        \* the main character's
          Placeholder, \* 'Player', of a prefab
          Blank, Junk, \* an empty string, and something that is no string
          MaxListed, MaxSessions,
          Faults

\* guarded  a call whose failure is caught fails, or its answer is of no use
\* fatal    a call whose failure nothing catches fails
FaultKinds == {"guarded", "fatal"}

ASSUME NamesAssumption ==
  Cardinality({Main, Placeholder, Blank, Junk} \ Name) = 4
ASSUME BoundsAssumption == MaxListed \in Nat /\ MaxSessions \in Nat
ASSUME FaultsAssumption == Faults \subseteq FaultKinds

Pronouns == {"she/her", "he/him", "they/them"}
Listing == UNION {[1..n -> Name \union {Main, Blank, Junk}] : n \in 1..MaxListed}

VARIABLES pc,       \* the stage of the initialisation
          job,      \* [player, filter]: what it is for
          threads,  \* the threads of the stage: "run", "done" or "raised"
          listed,   \* history: the mentions the scan got
          todo,     \* those still to be cast
          skipped,  \* history: those taken for somebody known by another name
          cast,     \* Engine.entities
          known,    \* [world, facts]: whether they could be inferred
          sessions  \* the casts of the sessions started from the prefab

vars == <<pc, job, threads, listed, todo, skipped, cast, known, sessions>>

\* said (history): the pronouns the model answered; fields: what was inferred;
\* at: what a character's thread asks for next.
Entity(name, who, role, pronouns) ==
  [name |-> name, who |-> who, role |-> role, pronouns |-> pronouns,
   said |-> pronouns, shy |-> FALSE, fields |-> {}, at |-> "new"]

NoThreads == [t \in {} |-> "done"]
Stages == {"idle", "premise", "language", "scan", "characters", "facts", "ready", "failed"}

\* A draft that is previewed, with or without the content filter, or a scenario
\* that is published.
Jobs == [player : Name, filter : BOOLEAN] \union {[player |-> Placeholder, filter |-> FALSE]}

Init ==
  /\ pc = "idle" /\ job \in Jobs /\ threads = NoThreads
  /\ listed = <<>> /\ todo = <<>> /\ skipped = {} /\ cast = <<>>
  /\ known = [world |-> FALSE, facts |-> FALSE]
  /\ sessions = <<>>

Fatal == "fatal" \in Faults
Guarded == "guarded" \in Faults

-----------------------------------------------------------------------------
(* scenario_to_engine, and the first calls of Engine.__init__.             *)

Begin ==
  /\ pc = "idle"
  /\ pc' = "premise" /\ threads' = [t \in {"layer1", "highlights"} |-> "run"]
  /\ UNCHANGED <<job, listed, todo, skipped, cast, known, sessions>>

\* A thread of the stage ends.
Ends(t, how) ==
  /\ threads[t] = "run" /\ (how = "raised" => Fatal)
  /\ threads' = [threads EXCEPT ![t] = how]

InferPremise ==
  /\ pc = "premise"
  /\ \E t \in DOMAIN threads, how \in {"done", "raised"} : Ends(t, how)
  /\ UNCHANGED <<pc, job, listed, todo, skipped, cast, known, sessions>>

\* Leaving the pool waits for all threads; result() raises what they raised.
Joined == \A t \in DOMAIN threads : threads[t] # "run"
Raised == \E t \in DOMAIN threads : threads[t] = "raised"

\* ContentFilter.activate: everybody there is then gets shy.
Activate(entities, filter) == [i \in DOMAIN entities |-> [entities[i] EXCEPT !.shy = filter]]

PremiseJoined ==
  /\ pc = "premise" /\ Joined
  /\ pc' = IF Raised THEN "failed" ELSE "language"
  /\ cast' = IF Raised THEN cast
             ELSE Activate(<<Entity(job.player, "player", Blank, "they/them"),
                             Entity(Main, "main", Blank, "she/her")>>, job.filter)
  /\ threads' = NoThreads
  /\ UNCHANGED <<job, listed, todo, skipped, known, sessions>>

\* detect_scene_language, unless the text tells, and parse_opening_appearance.
Describe ==
  /\ pc = "language"
  /\ \/ /\ pc' = "scan" /\ threads' = [t \in {"scan", "world"} |-> "run"]
        /\ cast' = [cast EXCEPT ![1].fields = {"look"}]
     \/ Fatal /\ pc' = "failed" /\ UNCHANGED <<threads, cast>>
  /\ UNCHANGED <<job, listed, todo, skipped, known, sessions>>

-----------------------------------------------------------------------------
(* scan_opening_for_npcs and _infer_world, at the same time.               *)

Scanning == pc = "scan" /\ threads["scan"] = "run"

\* Two answers at most; the second that cannot be parsed is given up.
InferWorld ==
  /\ pc = "scan"
  /\ \E how \in {"done", "raised"} : Ends("world", how)
  /\ \E w \in (IF Guarded THEN BOOLEAN ELSE {TRUE}) : known' = [known EXCEPT !.world = w]
  /\ UNCHANGED <<pc, job, listed, todo, skipped, cast, sessions>>

\* The list, once.
ListMentions ==
  /\ Scanning /\ listed = <<>> /\ todo = <<>>
  /\ \/ \E l \in Listing : listed' = l /\ todo' = l /\ UNCHANGED threads
     \/ Ends("scan", "raised") /\ UNCHANGED <<listed, todo>>
  /\ UNCHANGED <<pc, job, skipped, cast, known, sessions>>

\* Nobody else is there, or the list cannot be parsed.
ListIsEmpty ==
  /\ Scanning /\ listed = <<>> /\ Ends("scan", "done")
  /\ UNCHANGED <<pc, job, listed, todo, skipped, cast, known, sessions>>

\* Wrong on purpose: only the names as listed are remembered, not the given ones.
TakenByMention(name) == \E i \in 1..Len(cast) : cast[i].name = name /\ cast[i].role = Blank

\* existing
Taken(name) == \E i \in 1..Len(cast) : cast[i].name = name

\* Go on with the next mention, with these entities.
NextMention(entities) ==
  /\ cast' = entities /\ todo' = Tail(todo)
  /\ threads' = IF Len(todo) = 1 THEN [threads EXCEPT !["scan"] = "done"] ELSE threads
  /\ UNCHANGED <<pc, job, listed, known, sessions>>

Add(entity) == NextMention(Append(cast, entity)) /\ UNCHANGED skipped

\* Blank, or somebody there already.
SkipMention ==
  /\ Scanning /\ todo # <<>> /\ (Head(todo) = Blank \/ Taken(Head(todo)))
  /\ NextMention(cast) /\ UNCHANGED skipped

\* raw_name.strip() is outside of the try.
JunkMention ==
  /\ Scanning /\ todo # <<>> /\ Head(todo) = Junk
  /\ threads' = [threads EXCEPT !["scan"] = "raised"]
  /\ UNCHANGED <<pc, job, listed, todo, skipped, cast, known, sessions>>

NewMention == Scanning /\ todo # <<>> /\ Head(todo) \notin {Blank, Junk} /\ ~Taken(Head(todo))

CastGroup == NewMention /\ Add(Entity(Head(todo), "group", "group", "they/them"))

\* 'he' is in every answer that is not 'she/her'.
Recorded(said) == IF said = "she/her" THEN "she/her" ELSE "he/him"

Individual(name, role, said) ==
  [Entity(name, "npc", role, Recorded(said)) EXCEPT !.said = said]

\* Pronouns as answered, or they/them if they cannot be.
Persons(name, role) ==
  {Individual(name, role, said) : said \in Pronouns}
    \union (IF Guarded THEN {Entity(name, "npc", role, "they/them")} ELSE {})

CastNamed == NewMention /\ \E e \in Persons(Head(todo), Blank) : Add(e)

\* A role gets a name, which is blank when the model gives punctuation only; a name
\* that is taken means that it is somebody known.
CastRole ==
  /\ NewMention
  /\ \E name \in Name \union {Main, Placeholder, Blank} :
       IF Taken(name)
         THEN NextMention(cast) /\ skipped' = skipped \union {Head(todo)}
         ELSE \E e \in Persons(name, Head(todo)) : Add(e)

\* Wrong on purpose: a mention whose classification fails is dropped.
ClassificationDrops ==
  /\ NewMention /\ Guarded
  /\ NextMention(cast) /\ UNCHANGED skipped

\* Another classification failed: an individual under the name as listed.
ClassificationFails ==
  /\ NewMention /\ Guarded
  /\ Add(Entity(Head(todo), "npc", Blank, "they/them"))

Scan ==
  \/ ListMentions \/ ListIsEmpty \/ SkipMention \/ JunkMention \/ CastGroup \/ CastNamed
  \/ CastRole \/ ClassificationFails

IsCharacter(e) == e.who \in {"main", "npc"}

ScanJoined ==
  /\ pc = "scan" /\ Joined
  /\ pc' = IF Raised THEN "failed" ELSE "characters"
  /\ cast' = IF Raised THEN cast
             ELSE [i \in DOMAIN cast |-> [cast[i] EXCEPT !.at = IF IsCharacter(cast[i])
                                                                  THEN "read" ELSE "done"]]
  /\ threads' = NoThreads
  /\ UNCHANGED <<job, listed, todo, skipped, known, sessions>>

-----------------------------------------------------------------------------
(* infer_characters: a thread for each; then _pin_opening_facts.           *)

After == [read |-> "never", never |-> "look", look |-> "done"]

\* _infer_single_npc_unsafe: the reading, the boundary, then the looks.
InferField(i) ==
  /\ pc = "characters" /\ cast[i].at \in DOMAIN After
  /\ cast' = [cast EXCEPT ![i].fields = @ \union {cast[i].at}, ![i].at = After[@]]
  /\ UNCHANGED <<pc, job, threads, listed, todo, skipped, known, sessions>>

\* _infer_single_npc: a failure leaves the character as it is.
InferFails(i) ==
  /\ pc = "characters" /\ Guarded /\ cast[i].at \in DOMAIN After
  /\ cast' = [cast EXCEPT ![i].at = "done"]
  /\ UNCHANGED <<pc, job, threads, listed, todo, skipped, known, sessions>>

InferCharacters == \E i \in DOMAIN cast : InferField(i) \/ InferFails(i)

CharactersJoined ==
  /\ pc = "characters" /\ \A i \in DOMAIN cast : cast[i].at = "done"
  /\ pc' = "facts"
  /\ UNCHANGED <<job, threads, listed, todo, skipped, cast, known, sessions>>

PinFacts ==
  /\ pc = "facts"
  /\ \/ /\ pc' = "ready"
        /\ \E f \in (IF Guarded THEN BOOLEAN ELSE {TRUE}) : known' = [known EXCEPT !.facts = f]
     \/ Fatal /\ pc' = "failed" /\ UNCHANGED known
  /\ UNCHANGED <<job, threads, listed, todo, skipped, cast, sessions>>

-----------------------------------------------------------------------------
(* engine_init_from_prefab.                                                *)

IsPrefab == pc = "ready" /\ job.player = Placeholder

\* The player's entity, and no other, gets the player's name.
Patched(entities, player) ==
  [i \in DOMAIN entities |->
     IF entities[i].who = "player" THEN [entities[i] EXCEPT !.name = player] ELSE entities[i]]

\* One call, for the player's looks; a failure is the session's.
StartFromPrefab(player, filter) ==
  /\ IsPrefab /\ Len(sessions) < MaxSessions
  /\ sessions' = Append(sessions, [player |-> player, filter |-> filter,
                                   cast |-> Patched(cast, player)])
  /\ UNCHANGED <<pc, job, threads, listed, todo, skipped, cast, known>>

Initialise ==
  \/ Begin \/ InferPremise \/ PremiseJoined \/ Describe \/ InferWorld \/ Scan \/ ScanJoined
  \/ InferCharacters \/ CharactersJoined \/ PinFacts

Next == Initialise \/ \E player \in Name, filter \in BOOLEAN : StartFromPrefab(player, filter)

Spec == Init /\ [][Next]_vars

-----------------------------------------------------------------------------
TypeOK ==
  /\ pc \in Stages /\ job \in Jobs
  /\ \A i \in DOMAIN cast : cast[i].who \in {"player", "main", "group", "npc"}
  /\ \A i \in DOMAIN cast : cast[i].pronouns \in Pronouns
  /\ \A t \in DOMAIN threads : threads[t] \in {"run", "done", "raised"}

Names(entities, kinds) == {i \in DOMAIN entities : entities[i].who \in kinds}

Distinct(entities, indices) ==
  \A i, j \in indices : i # j => entities[i].name # entities[j].name

(* No two characters have one name, however their names came about, nor     *)
(* does one that was found have the player's in an engine made for its      *)
(* player (inference.py, scan_opening_for_npcs: "generated name must not    *)
(* collide with an already-known entity"); and a session started from the   *)
(* prefab has the same characters, under the same names.  Player and main   *)
(* character are named by users, who may give both one name.                *)
NamesAreUnique ==
  /\ Distinct(cast, Names(cast, {"main", "group", "npc"}))
  /\ \A i \in Names(cast, {"group", "npc"}) : cast[i].name # job.player
  /\ \A s \in DOMAIN sessions :
       Distinct(sessions[s].cast, Names(cast, {"main", "group", "npc"}))

(* Whoever the scan listed is in the cast, under that name or with that     *)
(* role, or was taken for somebody who is, whichever classifications failed *)
(* ("must not abort the scan for the remaining candidates").                *)
EveryMentionIsCast ==
  pc \in {"characters", "facts", "ready"} =>
    \A k \in 1..Len(listed) :
      \/ listed[k] = Blank
      \/ \E i \in DOMAIN cast : listed[k] \in {cast[i].name, cast[i].role}
      \/ listed[k] \in skipped

(* The content filter reaches all characters but the player (types.py,      *)
(* Entity.block: it is set "on every NPC when the filter turns on"), of a   *)
(* preview and of a session that is started from a prefab.                  *)
FilterReachesAll ==
  LET npcs == Names(cast, {"main", "group", "npc"}) IN
  /\ job.filter /\ pc = "ready" => \A i \in npcs : cast[i].shy
  /\ \A s \in DOMAIN sessions : sessions[s].filter =>
       \A i \in npcs : sessions[s].cast[i].shy

(* Pronouns are recorded as the model gives them.                           *)
PronounsAsSaid == \A i \in DOMAIN cast : cast[i].pronouns = cast[i].said
=============================================================================
