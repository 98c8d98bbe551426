----------------------------- MODULE CastProofs -----------------------------
(***************************************************************************)
(* Characters have names of their own, and who is mentioned is cast: for   *)
(* any number of names, mentions and sessions, and whatever calls fail.    *)
(*                                                                         *)
(* That everybody who is listed is cast at the end needs to be known in    *)
(* the middle of the list: what is left to do is its end, and whoever      *)
(* comes before is settled.                                                *)
(***************************************************************************)
EXTENDS EngineCast, SequenceTheorems, TLAPS

-----------------------------------------------------------------------------
(* Types.                                                                  *)

AnyName == Name \union {Main, Placeholder, Blank, Junk}
Kinds == {"player", "main", "group", "npc"}
Entities ==
  [name : AnyName, who : Kinds, role : AnyName \union {"group"}, pronouns : Pronouns,
   said : Pronouns, shy : BOOLEAN, fields : SUBSET {"read", "never", "look"},
   at : {"new", "read", "never", "look", "done"}]

\* The threads of a stage.
Pool ==
  IF pc = "premise" THEN {"layer1", "highlights"}
  ELSE IF pc = "scan" THEN {"scan", "world"} ELSE {}

Typed ==
  /\ pc \in Stages /\ job \in Jobs
  /\ threads \in [Pool -> {"run", "done", "raised"}]
  /\ listed \in Seq(AnyName) /\ todo \in Seq(AnyName)
  /\ cast \in Seq(Entities)
  /\ sessions \in Seq([player : Name, filter : BOOLEAN, cast : Seq(Entities)])

-----------------------------------------------------------------------------
(* The invariant.                                                          *)

\* The player, the main character, and those who were found, each under a name that
\* nobody before has.
Cast ==
  /\ pc \in {"idle", "premise"} => cast = <<>>
  /\ cast = <<>> => pc \in {"idle", "premise", "failed"}
  /\ cast # <<>> =>
       /\ Len(cast) >= 2
       /\ cast[1].who = "player" /\ cast[1].name = job.player /\ cast[2].who = "main"
       /\ \A i \in 3..Len(cast) : cast[i].who \in {"group", "npc"}
  /\ \A i, j \in 1..Len(cast) : i < j /\ j > 2 => cast[i].name # cast[j].name

\* A mention is settled.
Covered(m) ==
  \/ m = Blank \/ m \in skipped
  \/ \E i \in 1..Len(cast) : m \in {cast[i].name, cast[i].role}

\* What is left to do is the end of the list, and what comes before is settled.
Scanned ==
  /\ pc \in {"idle", "premise", "language"} => listed = <<>> /\ todo = <<>>
  /\ pc = "scan" =>
       /\ Len(todo) <= Len(listed)
       /\ \A k \in 1..Len(todo) : todo[k] = listed[Len(listed) - Len(todo) + k]
       /\ \A k \in 1..Len(listed) - Len(todo) : Covered(listed[k])
       /\ threads["scan"] = "done" => todo = <<>>
  /\ pc \in {"characters", "facts", "ready"} => \A k \in 1..Len(listed) : Covered(listed[k])

\* Sessions start from a prefab that changes no more.
Started ==
  /\ sessions # <<>> => pc = "ready"
  /\ \A s \in 1..Len(sessions) : sessions[s].cast = Patched(cast, sessions[s].player)

Inv == Typed /\ Cast /\ Scanned /\ Started

-----------------------------------------------------------------------------
(* What steps do to the cast.                                              *)

\* A sequence is a function on an interval.
LEMMA SeqIs ==
  ASSUME NEW S, NEW s \in Seq(S), NEW f \in [1..Len(s) -> S]
  PROVE  f \in Seq(S) /\ Len(f) = Len(s) /\ DOMAIN s = 1..Len(s) /\ Len(s) \in Nat
OBVIOUS

\* An entity is what it is made of.
LEMMA EntityIs ==
  ASSUME NEW name \in AnyName, NEW who \in Kinds, NEW role \in AnyName \union {"group"},
         NEW pronouns \in Pronouns
  PROVE  /\ Entity(name, who, role, pronouns) \in Entities
         /\ Entity(name, who, role, pronouns).name = name
         /\ Entity(name, who, role, pronouns).who = who
         /\ Entity(name, who, role, pronouns).role = role
BY DEF Entity, Entities

\* A group is what it is called.
LEMMA GroupIs ==
  ASSUME NEW name \in AnyName
  PROVE  /\ Entity(name, "group", "group", "they/them") \in Entities
         /\ Entity(name, "group", "group", "they/them").name = name
         /\ Entity(name, "group", "group", "they/them").who = "group"
<1>1. "group" \in Kinds /\ "they/them" \in Pronouns
  BY DEF Kinds, Pronouns
<1> QED BY <1>1 DEF Entity, Entities

\* So is a person, whatever the pronouns.
LEMMA PersonIs ==
  ASSUME NEW name \in AnyName, NEW role \in AnyName, NEW e \in Persons(name, role)
  PROVE  e \in Entities /\ e.name = name /\ e.who = "npc" /\ e.role = role
<1>1. CASE e = Entity(name, "npc", role, "they/them")
  <2>1. "they/them" \in Pronouns /\ "npc" \in Kinds
    BY DEF Pronouns, Kinds
  <2> QED BY <1>1, <2>1, EntityIs
<1>2. ASSUME NEW said \in Pronouns, e = Individual(name, role, said)
      PROVE  e \in Entities /\ e.name = name /\ e.who = "npc" /\ e.role = role
  <2> DEFINE f == Entity(name, "npc", role, Recorded(said))
  <2>1. Recorded(said) \in Pronouns /\ "npc" \in Kinds
    BY DEF Recorded, Pronouns, Kinds
  <2>2. f \in Entities /\ f.name = name /\ f.who = "npc" /\ f.role = role
    BY <2>1, EntityIs
  <2>3. e = [f EXCEPT !.said = said]
    BY <1>2 DEF Individual
  <2> HIDE DEF f
  <2> QED BY <2>2, <2>3 DEF Entities
<1> QED BY <1>1, <1>2 DEF Persons

\* The same people, with other traits.
Alike(s, t) ==
  /\ Len(s) = Len(t)
  /\ \A i \in 1..Len(t) : s[i].name = t[i].name /\ s[i].who = t[i].who /\ s[i].role = t[i].role

\* Each changed in a way that leaves who they are.
LEMMA Altered ==
  ASSUME NEW s \in Seq(Entities), NEW f, DOMAIN f = 1..Len(s),
         f = [i \in 1..Len(s) |-> f[i]],
         \A i \in 1..Len(s) : /\ f[i] \in Entities /\ f[i].name = s[i].name
                              /\ f[i].who = s[i].who /\ f[i].role = s[i].role
  PROVE  f \in Seq(Entities) /\ Alike(f, s)
<1>1. f \in [1..Len(s) -> Entities]
  OBVIOUS
<1> QED BY <1>1, SeqIs DEF Alike

\* The filter makes everybody shy.
LEMMA ActivateIs ==
  ASSUME NEW s \in Seq(Entities), NEW filter \in BOOLEAN
  PROVE  Activate(s, filter) \in Seq(Entities) /\ Alike(Activate(s, filter), s)
<1> DEFINE f == Activate(s, filter)
<1>1. f = [i \in 1..Len(s) |-> [s[i] EXCEPT !.shy = filter]]
  BY DEF Activate
<1>2. \A i \in 1..Len(s) : s[i] \in Entities
  OBVIOUS
<1> HIDE DEF f
<1>3. \A i \in 1..Len(s) : /\ f[i] \in Entities /\ f[i].name = s[i].name
                           /\ f[i].who = s[i].who /\ f[i].role = s[i].role
  BY <1>1, <1>2 DEF Entities
<1>4. DOMAIN f = 1..Len(s) /\ f = [i \in 1..Len(s) |-> f[i]]
  BY <1>1
<1> QED BY <1>3, <1>4, Altered DEF f

\* One of them is changed.
LEMMA OneAltered ==
  ASSUME NEW s \in Seq(Entities), NEW i \in DOMAIN s, NEW e \in Entities,
         e.name = s[i].name, e.who = s[i].who, e.role = s[i].role
  PROVE  [s EXCEPT ![i] = e] \in Seq(Entities) /\ Alike([s EXCEPT ![i] = e], s)
BY DEF Alike

\* A prefab's cast in a session: the player gets a name.
LEMMA PatchedIs ==
  ASSUME NEW s \in Seq(Entities), NEW player \in Name
  PROVE  /\ Patched(s, player) \in Seq(Entities) /\ Len(Patched(s, player)) = Len(s)
         /\ \A i \in 1..Len(s) : s[i].who # "player" => Patched(s, player)[i] = s[i]
<1> DEFINE f == Patched(s, player)
<1>1. f = [i \in 1..Len(s) |-> IF s[i].who = "player" THEN [s[i] EXCEPT !.name = player] ELSE s[i]]
  BY DEF Patched
<1>2. \A i \in 1..Len(s) : s[i] \in Entities
  OBVIOUS
<1> HIDE DEF f
<1>3. \A i \in 1..Len(s) : f[i] \in Entities
  BY <1>1, <1>2 DEF Entities, AnyName
<1>4. f \in [1..Len(s) -> Entities]
  BY <1>1, <1>3
<1>5. \A i \in 1..Len(s) : s[i].who # "player" => f[i] = s[i]
  BY <1>1
<1> QED BY <1>4, <1>5, SeqIs DEF f

-----------------------------------------------------------------------------
(* The initial states, and steps that only end a thread or change traits.  *)

\* The invariant holds of the initial states.
LEMMA InitHolds == Init => Inv
<1> SUFFICES ASSUME Init PROVE Inv
  OBVIOUS
<1>1. Typed
  <2>1. threads \in [Pool -> {"run", "done", "raised"}]
    BY DEF Init, Pool, NoThreads
  <2>2. listed \in Seq(AnyName) /\ todo \in Seq(AnyName) /\ cast \in Seq(Entities)
        /\ sessions \in Seq([player : Name, filter : BOOLEAN, cast : Seq(Entities)])
    BY EmptySeq DEF Init
  <2> QED BY <2>1, <2>2 DEF Init, Typed, Stages
<1>2. Cast /\ Scanned
  BY EmptySeq DEF Init, Cast, Scanned
<1>3. Started
  BY EmptySeq DEF Init, Started
<1> QED BY <1>1, <1>2, <1>3 DEF Inv

\* While the same people are there, the cast is in order and nobody who is
\* settled is no longer.
LEMMA CastKept ==
  ASSUME Typed, Cast, cast' \in Seq(Entities), Alike(cast', cast), job' = job, skipped' = skipped,
         pc' \in {"idle", "premise"} => pc \in {"idle", "premise"},
         pc \in {"idle", "premise", "failed"} => pc' \in {"idle", "premise", "failed"}
  PROVE  Cast' /\ \A m : Covered(m) => Covered(m)'
<1>1. Len(cast) \in Nat /\ Len(cast') = Len(cast) /\ (cast' = <<>> <=> cast = <<>>)
  BY EmptySeq DEF Typed, Alike
<1>2. \A i \in 1..Len(cast) : /\ cast'[i].name = cast[i].name /\ cast'[i].who = cast[i].who
                              /\ cast'[i].role = cast[i].role
  BY DEF Alike
<1>3. Cast'
  <2>1. \A i, j \in 1..Len(cast') : i < j /\ j > 2 => cast'[i].name # cast'[j].name
    BY <1>1, <1>2 DEF Cast
  <2>2. ASSUME cast' # <<>>
        PROVE  /\ Len(cast') >= 2
               /\ cast'[1].who = "player" /\ cast'[1].name = job'.player
               /\ cast'[2].who = "main"
               /\ \A i \in 3..Len(cast') : cast'[i].who \in {"group", "npc"}
    <3>1. Len(cast) >= 2 /\ 1 \in 1..Len(cast) /\ 2 \in 1..Len(cast)
      BY <2>2, <1>1 DEF Cast
    <3>2. \A i \in 3..Len(cast) : i \in 1..Len(cast)
      BY <1>1
    <3> QED BY <2>2, <3>1, <3>2, <1>1, <1>2 DEF Cast
  <2> QED BY <2>1, <2>2, <1>1 DEF Cast
<1>4. ASSUME NEW m, Covered(m) PROVE Covered(m)'
  BY <1>1, <1>2, <1>4 DEF Covered
<1> QED BY <1>3, <1>4

\* Nothing that a session was started from changes before it is ready.
LEMMA NoSessions ==
  ASSUME Inv, pc # "ready"
  PROVE  sessions = <<>>
BY DEF Inv, Started

\* The first step starts two threads.
LEMMA BeginStep == ASSUME Inv, Begin PROVE Inv'
<1>1. /\ pc = "idle" /\ pc' = "premise" /\ threads' = [t \in {"layer1", "highlights"} |-> "run"]
      /\ UNCHANGED <<job, listed, todo, skipped, cast, known, sessions>>
  BY DEF Begin
<1>2. Typed'
  <2>1. threads' \in [Pool' -> {"run", "done", "raised"}]
    BY <1>1 DEF Pool
  <2> QED BY <1>1, <2>1 DEF Inv, Typed, Stages
<1>3. Cast' /\ Scanned'
  BY <1>1 DEF Inv, Cast, Scanned
<1>4. Started'
  BY <1>1 DEF Inv, Started
<1> QED BY <1>2, <1>3, <1>4 DEF Inv

\* A thread ends.
LEMMA EndsIs ==
  ASSUME Inv, NEW t \in Pool, NEW how \in {"done", "raised"}, Ends(t, how), pc' = pc
  PROVE  /\ threads' \in [Pool' -> {"run", "done", "raised"}]
         /\ threads'[t] = how /\ \A u \in Pool : u # t => threads'[u] = threads[u]
<1>1. threads' = [threads EXCEPT ![t] = how]
  BY DEF Ends
<1>2. Pool' = Pool
  BY DEF Pool
<1>3. threads \in [Pool -> {"run", "done", "raised"}]
  BY DEF Inv, Typed
<1> QED BY <1>1, <1>2, <1>3

\* A thread of the premise ends, or the world's, or a scan with nobody to cast.
LEMMA EndsStep == ASSUME Inv, InferPremise \/ InferWorld \/ ListIsEmpty PROVE Inv'
<1>1. UNCHANGED <<pc, job, listed, todo, skipped, cast, sessions>>
  BY DEF InferPremise, InferWorld, ListIsEmpty
<1>2. PICK t \in Pool, how \in {"done", "raised"} :
        /\ Ends(t, how)
        /\ t = "scan" => listed = <<>> \/ how = "raised"
  <2>1. CASE InferPremise
    <3>1. DOMAIN threads = Pool /\ Pool = {"layer1", "highlights"}
      BY <2>1 DEF InferPremise, Inv, Typed, Pool
    <3> QED BY <2>1, <3>1 DEF InferPremise
  <2>2. CASE InferWorld
    BY <2>2 DEF InferWorld, Pool
  <2>3. CASE ListIsEmpty
    BY <2>3 DEF ListIsEmpty, Scanning, Pool
  <2> QED BY <2>1, <2>2, <2>3
<1>3. /\ threads' \in [Pool' -> {"run", "done", "raised"}]
      /\ threads'[t] = how /\ \A u \in Pool : u # t => threads'[u] = threads[u]
  BY <1>1, <1>2, EndsIs
<1>4. Typed'
  BY <1>1, <1>3 DEF Inv, Typed
<1>5. Cast'
  BY <1>1 DEF Inv, Cast
<1>6. Scanned'
  <2>1. pc = "scan" /\ threads'["scan"] = "done" => todo = <<>>
    <3> SUFFICES ASSUME pc = "scan", threads'["scan"] = "done" PROVE todo = <<>>
      OBVIOUS
    <3>1. CASE t = "scan"
      <4>1. listed = <<>> /\ Len(todo) <= Len(listed) /\ Len(listed) = 0
        BY <3>1, <1>2, <1>3, EmptySeq DEF Inv, Scanned
      <4> QED BY <4>1, EmptySeq DEF Inv, Typed
    <3>2. CASE t # "scan"
      <4>1. threads["scan"] = "done"
        BY <3>2, <1>3 DEF Pool
      <4> QED BY <4>1 DEF Inv, Scanned
    <3> QED BY <3>1, <3>2
  <2>2. \A m : Covered(m)' = Covered(m)
    BY <1>1 DEF Covered
  <2> QED BY <1>1, <2>1, <2>2 DEF Inv, Scanned
<1>7. Started'
  BY <1>1 DEF Inv, Started
<1> QED BY <1>3, <1>4, <1>5, <1>6, <1>7 DEF Inv

-----------------------------------------------------------------------------
(* scenario_to_engine and the first calls.                                 *)

\* The player and the main character.
LEMMA FirstTwo ==
  ASSUME job \in Jobs,
         NEW s, s = <<Entity(job.player, "player", Blank, "they/them"),
                      Entity(Main, "main", Blank, "she/her")>>
  PROVE  /\ s \in Seq(Entities) /\ Len(s) = 2 /\ job.filter \in BOOLEAN
         /\ s[1].who = "player" /\ s[1].name = job.player /\ s[2].who = "main"
<1> DEFINE a == Entity(job.player, "player", Blank, "they/them")
           b == Entity(Main, "main", Blank, "she/her")
<1>1. job.player \in AnyName /\ Main \in AnyName /\ Blank \in AnyName /\ job.filter \in BOOLEAN
  <2> HIDE DEF a, b
  <2>1. CASE job \in [player : Name, filter : BOOLEAN]
    BY <2>1 DEF AnyName
  <2>2. CASE job = [player |-> Placeholder, filter |-> FALSE]
    BY <2>2 DEF AnyName
  <2> QED BY <2>1, <2>2 DEF Jobs
<1>2. {"they/them", "she/her"} \subseteq Pronouns /\ {"player", "main"} \subseteq Kinds
  BY DEF Pronouns, Kinds
<1>3. a \in Entities /\ a.who = "player" /\ a.name = job.player
  BY <1>1, <1>2, EntityIs
<1>4. b \in Entities /\ b.who = "main"
  BY <1>1, <1>2, EntityIs
<1>5. s = <<a, b>>
  OBVIOUS
<1> HIDE DEF a, b
<1> QED BY <1>1, <1>3, <1>4, <1>5

\* The threads of the premise are joined.
LEMMA PremiseJoinedStep == ASSUME Inv, PremiseJoined PROVE Inv'
<1>1. /\ pc = "premise" /\ pc' = IF Raised THEN "failed" ELSE "language"
      /\ threads' = NoThreads
      /\ UNCHANGED <<job, listed, todo, skipped, known, sessions>>
  BY DEF PremiseJoined
<1>2. cast = <<>> /\ job \in Jobs /\ listed = <<>> /\ todo = <<>>
  BY <1>1 DEF Inv, Typed, Cast, Scanned
<1>3. threads' \in [Pool' -> {"run", "done", "raised"}]
  BY <1>1 DEF Pool, NoThreads
<1>5. sessions = <<>> /\ Started'
  <2>1. sessions = <<>>
    BY <1>1, NoSessions
  <2> QED BY <2>1, <1>1, EmptySeq DEF Started
<1>6. CASE Raised
  <2>1. cast' = <<>> /\ pc' = "failed"
    BY <1>1, <1>2, <1>6 DEF PremiseJoined
  <2>2. Typed'
    BY <2>1, <1>1, <1>2, <1>3 DEF Inv, Typed, Stages
  <2>3. Cast' /\ Scanned'
    BY <2>1, EmptySeq DEF Cast, Scanned
  <2> QED BY <2>2, <2>3, <1>5 DEF Inv
<1>7. CASE ~Raised
  <2> DEFINE s == <<Entity(job.player, "player", Blank, "they/them"),
                    Entity(Main, "main", Blank, "she/her")>>
  <2>1. cast' = Activate(s, job.filter) /\ pc' = "language"
    BY <1>1, <1>7 DEF PremiseJoined
  <2>2. /\ s \in Seq(Entities) /\ Len(s) = 2 /\ job.filter \in BOOLEAN
        /\ s[1].who = "player" /\ s[1].name = job.player /\ s[2].who = "main"
    BY <1>2, FirstTwo
  <2> HIDE DEF s
  <2>3. cast' \in Seq(Entities) /\ Alike(cast', s)
    BY <2>1, <2>2, ActivateIs
  <2>4. Len(cast') = 2 /\ cast'[1].who = "player" /\ cast'[1].name = job.player
        /\ cast'[2].who = "main"
    BY <2>2, <2>3 DEF Alike
  <2>5. Typed'
    BY <2>1, <2>3, <1>1, <1>2, <1>3 DEF Inv, Typed, Stages
  <2>6. Cast'
    BY <2>1, <2>3, <2>4, <1>1, EmptySeq DEF Cast
  <2>7. Scanned'
    BY <2>1, <1>1, <1>2 DEF Scanned
  <2> QED BY <2>5, <2>6, <2>7, <1>5 DEF Inv
<1> QED BY <1>6, <1>7

\* The language is found and the opening read, or a call fails.
LEMMA DescribeStep == ASSUME Inv, Describe PROVE Inv'
<1>1. /\ pc = "language" /\ UNCHANGED <<job, listed, todo, skipped, known, sessions>>
      /\ listed = <<>> /\ todo = <<>> /\ sessions = <<>>
  BY NoSessions DEF Describe, Inv, Scanned
<1>2. cast # <<>> /\ cast \in Seq(Entities) /\ Len(cast) >= 2
  BY <1>1 DEF Inv, Typed, Cast
<1>3. Started'
  BY <1>1, EmptySeq DEF Started
<1>4. CASE /\ pc' = "scan" /\ threads' = [t \in {"scan", "world"} |-> "run"]
           /\ cast' = [cast EXCEPT ![1].fields = {"look"}]
  <2> DEFINE e == [cast[1] EXCEPT !.fields = {"look"}]
  <2>1. 1 \in DOMAIN cast /\ cast[1] \in Entities
    BY <1>2
  <2>2. e \in Entities /\ e.name = cast[1].name /\ e.who = cast[1].who /\ e.role = cast[1].role
    BY <2>1 DEF Entities
  <2>3. cast' = [cast EXCEPT ![1] = e]
    BY <1>4
  <2> HIDE DEF e
  <2>4. cast' \in Seq(Entities) /\ Alike(cast', cast)
    BY <2>1, <2>2, <2>3, <1>2, OneAltered
  <2>5. Cast'
    BY <2>4, <1>1, <1>4, CastKept DEF Inv
  <2>6. threads' \in [Pool' -> {"run", "done", "raised"}] /\ threads'["scan"] = "run"
    BY <1>4 DEF Pool
  <2>7. Typed'
    BY <2>4, <2>6, <1>1, <1>4 DEF Inv, Typed, Stages
  <2>8. Scanned'
    BY <2>6, <1>1, <1>4, EmptySeq DEF Scanned
  <2> QED BY <2>5, <2>7, <2>8, <1>3 DEF Inv
<1>5. CASE pc' = "failed" /\ UNCHANGED <<threads, cast>>
  <2>1. Pool' = Pool
    BY <1>1, <1>5 DEF Pool
  <2>2. Typed'
    BY <2>1, <1>1, <1>5 DEF Inv, Typed, Stages
  <2>3. Cast' /\ Scanned'
    BY <1>1, <1>2, <1>5 DEF Inv, Cast, Scanned
  <2> QED BY <2>2, <2>3, <1>3 DEF Inv
<1> QED BY <1>4, <1>5 DEF Describe

-----------------------------------------------------------------------------
(* The scan.                                                               *)

\* The scan gets its list, or fails.
LEMMA ListStep == ASSUME Inv, ListMentions PROVE Inv'
<1>1. /\ pc = "scan" /\ threads["scan"] = "run" /\ listed = <<>> /\ todo = <<>>
      /\ UNCHANGED <<pc, job, skipped, cast, known, sessions>> /\ Pool' = Pool
  BY DEF ListMentions, Scanning, Pool
<1>2. Cast' /\ Started' /\ \A m : Covered(m)' = Covered(m)
  BY <1>1 DEF Inv, Cast, Started, Covered
<1>3. ASSUME NEW l \in Listing, listed' = l, todo' = l, UNCHANGED threads
      PROVE  Inv'
  <2>1. l \in Seq(AnyName)
    BY <1>3 DEF Listing, AnyName
  <2>2. Typed'
    BY <2>1, <1>1, <1>3 DEF Inv, Typed
  <2>3. Scanned'
    BY <2>1, <1>1, <1>3 DEF Scanned
  <2> QED BY <2>2, <2>3, <1>2 DEF Inv
<1>4. CASE Ends("scan", "raised") /\ UNCHANGED <<listed, todo>>
  <2>1. "scan" \in Pool
    BY <1>1 DEF Pool
  <2>2. threads' \in [Pool' -> {"run", "done", "raised"}] /\ threads'["scan"] = "raised"
    BY <2>1, <1>1, <1>4, EndsIs
  <2>3. Typed'
    BY <2>2, <1>1, <1>4 DEF Inv, Typed
  <2>4. Scanned'
    BY <2>2, <1>1, <1>2, <1>4 DEF Inv, Scanned
  <2> QED BY <2>3, <2>4, <1>2 DEF Inv
<1> QED BY <1>3, <1>4 DEF ListMentions

\* The scan goes on to the next mention.
LEMMA NextMentionIs ==
  ASSUME Inv, Scanning, todo # <<>>, NEW entities, NextMention(entities)
  PROVE  /\ pc = "scan" /\ cast' = entities /\ Pool' = Pool
         /\ UNCHANGED <<pc, job, listed, known, sessions>>
         /\ threads' \in [Pool' -> {"run", "done", "raised"}]
         /\ todo' \in Seq(AnyName) /\ Len(todo') = Len(todo) - 1 /\ Len(todo) \in Nat \ {0}
         /\ \A k \in 1..Len(todo') : todo'[k] = todo[k + 1]
         /\ threads'["scan"] = "done" => todo' = <<>>
         /\ Head(todo) = todo[1] /\ Head(todo) \in AnyName
<1>1. /\ pc = "scan" /\ pc' = pc /\ cast' = entities /\ todo' = Tail(todo)
      /\ threads["scan"] = "run"
      /\ threads' = IF Len(todo) = 1 THEN [threads EXCEPT !["scan"] = "done"] ELSE threads
      /\ UNCHANGED <<pc, job, listed, known, sessions>>
  BY DEF NextMention, Scanning
<1>2. todo \in Seq(AnyName) /\ threads \in [Pool -> {"run", "done", "raised"}]
      /\ Pool' = Pool /\ "scan" \in Pool
  BY <1>1 DEF Inv, Typed, Pool
<1>3. /\ todo' \in Seq(AnyName) /\ Len(todo') = Len(todo) - 1 /\ Len(todo) \in Nat \ {0}
      /\ \A k \in 1..Len(todo') : todo'[k] = todo[k + 1]
      /\ Head(todo) = todo[1] /\ Head(todo) \in AnyName
  BY <1>1, <1>2
<1>4. threads'["scan"] = "done" => Len(todo) = 1
  BY <1>1
<1>5. threads'["scan"] = "done" => todo' = <<>>
  <2> SUFFICES ASSUME threads'["scan"] = "done" PROVE todo' = <<>>
    OBVIOUS
  <2>1. Len(todo) = 1
    BY <1>4
  <2>2. Len(todo') = Len(todo) - 1
    BY <1>3
  <2>3. todo' \in Seq(AnyName)
    BY <1>3
  <2> QED BY <2>1, <2>2, <2>3, EmptySeq
<1>6. threads' \in [Pool' -> {"run", "done", "raised"}]
  BY <1>1, <1>2
<1> QED BY <1>1, <1>2, <1>3, <1>5, <1>6

\* Whoever comes next is settled: found, taken for somebody, or added under a
\* name that is free.
Settled(entities) ==
  \/ Head(todo) = Blank \/ Head(todo) \in skipped'
  \/ \E i \in 1..Len(entities) : Head(todo) \in {entities[i].name, entities[i].role}

Mentions(entities) ==
  /\ NextMention(entities) /\ skipped \subseteq skipped'
  /\ \/ entities = cast /\ Settled(entities)
     \/ \E e \in Entities : /\ entities = Append(cast, e)
                            /\ e.who \in {"group", "npc"} /\ ~Taken(e.name)
                            /\ Head(todo) \in {e.name, e.role}

MentionStep ==
  SkipMention \/ CastGroup \/ CastNamed \/ CastRole \/ ClassificationFails

\* Each way to go on with the list does one of these.
LEMMA MentionIs ==
  ASSUME Inv, MentionStep
  PROVE  \E entities : Mentions(entities)
<1>1. Scanning /\ todo # <<>>
  BY DEF MentionStep, SkipMention, CastGroup, CastNamed, CastRole, ClassificationFails, NewMention
<1>2. Head(todo) \in AnyName /\ cast \in Seq(Entities) /\ Len(cast) \in Nat
  BY <1>1 DEF Inv, Typed
<1>3. ASSUME NEW e \in Entities, Add(e), e.who \in {"group", "npc"}, ~Taken(e.name),
             Head(todo) \in {e.name, e.role}
      PROVE  Mentions(Append(cast, e))
  BY <1>3 DEF Mentions, Add
<1>4. Blank \in AnyName /\ {"group", "npc"} \subseteq Kinds /\ "they/them" \in Pronouns
  BY DEF AnyName, Kinds, Pronouns
<1>5. NewMention => ~Taken(Head(todo))
  BY DEF NewMention
<1>6. CASE SkipMention
  <2>1. NextMention(cast) /\ UNCHANGED skipped
        /\ (Head(todo) = Blank \/ Taken(Head(todo)))
    BY <1>6 DEF SkipMention
  <2>2. Settled(cast)
    BY <2>1 DEF Settled, Taken
  <2> QED BY <2>1, <2>2 DEF Mentions
<1>7. CASE CastGroup
  <2> DEFINE e == Entity(Head(todo), "group", "group", "they/them")
  <2>1. e \in Entities /\ e.name = Head(todo) /\ e.who = "group"
    BY <1>2, GroupIs
  <2>2. Add(e) /\ NewMention
    BY <1>7 DEF CastGroup
  <2> HIDE DEF e
  <2> QED BY <2>1, <2>2, <1>3, <1>5
<1>8. CASE CastNamed
  <2>1. PICK e \in Persons(Head(todo), Blank) : Add(e)
    BY <1>8 DEF CastNamed
  <2>2. e \in Entities /\ e.name = Head(todo) /\ e.who = "npc"
    BY <1>2, <1>4, PersonIs
  <2> QED BY <2>1, <2>2, <1>3, <1>5, <1>8 DEF CastNamed
<1>9. CASE CastRole
  <2>1. PICK name \in Name \union {Main, Placeholder, Blank} :
          IF Taken(name)
            THEN NextMention(cast) /\ skipped' = skipped \union {Head(todo)}
            ELSE \E e \in Persons(name, Head(todo)) : Add(e)
    BY <1>9 DEF CastRole
  <2>2. CASE Taken(name)
    <3>1. Settled(cast)
      BY <2>1, <2>2 DEF Settled
    <3> QED BY <2>1, <2>2, <3>1 DEF Mentions
  <2>3. CASE ~Taken(name)
    <3>1. PICK e \in Persons(name, Head(todo)) : Add(e)
      BY <2>1, <2>3
    <3>2. name \in AnyName
      BY DEF AnyName
    <3>3. e \in Entities /\ e.name = name /\ e.who = "npc" /\ e.role = Head(todo)
      BY <3>2, <1>2, PersonIs
    <3> QED BY <3>1, <3>3, <2>3, <1>3
  <2> QED BY <2>2, <2>3
<1>10. CASE ClassificationFails
  <2> DEFINE e == Entity(Head(todo), "npc", Blank, "they/them")
  <2>1. e \in Entities /\ e.name = Head(todo) /\ e.who = "npc"
    BY <1>2, <1>4, EntityIs
  <2>2. Add(e) /\ NewMention
    BY <1>10 DEF ClassificationFails
  <2> HIDE DEF e
  <2> QED BY <2>1, <2>2, <1>3, <1>5
<1> QED BY <1>6, <1>7, <1>8, <1>9, <1>10 DEF MentionStep

\* The cast that a mention leaves: everybody, and one more at most.
LEMMA MentionCast ==
  ASSUME Inv, pc = "scan", NEW entities, Mentions(entities), cast' = entities,
         UNCHANGED <<pc, job>>
  PROVE  /\ entities \in Seq(Entities) /\ Cast'
         /\ \A m : Covered(m) => Covered(m)'
         /\ \A m : m = Head(todo) => Covered(m)'
<1>1. cast \in Seq(Entities) /\ Len(cast) \in Nat /\ Len(cast) >= 2 /\ cast # <<>>
  BY DEF Inv, Typed, Cast
<1>2. skipped \subseteq skipped'
  BY DEF Mentions
<1>3. CASE entities = cast /\ Settled(entities)
  <2>1. Cast' /\ \A m : Covered(m) => Covered(m)'
    BY <1>2, <1>3 DEF Inv, Cast, Covered
  <2>2. \A m : m = Head(todo) => Covered(m)'
    BY <1>3 DEF Settled, Covered
  <2> QED BY <2>1, <2>2, <1>1, <1>3
<1>4. ASSUME NEW e \in Entities, entities = Append(cast, e), e.who \in {"group", "npc"},
             ~Taken(e.name), Head(todo) \in {e.name, e.role}
      PROVE  /\ entities \in Seq(Entities) /\ Cast'
             /\ \A m : Covered(m) => Covered(m)'
             /\ \A m : m = Head(todo) => Covered(m)'
  <2> DEFINE n == Len(cast)
  <2>1. /\ entities \in Seq(Entities) /\ Len(entities) = n + 1 /\ entities[n + 1] = e
        /\ \A i \in 1..n : entities[i] = cast[i]
    BY <1>1, <1>4
  <2>2. n \in Nat /\ n >= 2 /\ \A i \in 1..n + 1 : i = n + 1 \/ i \in 1..n
    BY <1>1
  <2>3. \A i \in 1..n : cast[i].name # e.name
    BY <1>4 DEF Taken
  <2>4. \A i, j \in 1..n : i < j /\ j > 2 => cast[i].name # cast[j].name
    BY DEF Inv, Cast
  <2>5. /\ cast[1].who = "player" /\ cast[1].name = job.player /\ cast[2].who = "main"
        /\ \A i \in 3..n : cast[i].who \in {"group", "npc"}
    BY <1>1 DEF Inv, Cast
  <2> HIDE DEF n
  <2>6. \A i, j \in 1..n + 1 : i < j /\ j > 2 => entities[i].name # entities[j].name
    <3> SUFFICES ASSUME NEW i \in 1..n + 1, NEW j \in 1..n + 1, i < j, j > 2
                 PROVE  entities[i].name # entities[j].name
      OBVIOUS
    <3>1. i \in 1..n
      BY <2>2
    <3>2. CASE j = n + 1
      BY <3>1, <3>2, <2>1, <2>3
    <3>3. CASE j \in 1..n
      BY <3>1, <3>3, <2>1, <2>4
    <3> QED BY <3>2, <3>3, <2>2
  <2>7. \A i \in 3..n + 1 : entities[i].who \in {"group", "npc"}
    <3> SUFFICES ASSUME NEW i \in 3..n + 1 PROVE entities[i].who \in {"group", "npc"}
      OBVIOUS
    <3>1. CASE i = n + 1
      BY <3>1, <2>1, <1>4
    <3>2. CASE i # n + 1
      <4>1. i \in 3..n /\ i \in 1..n
        BY <3>2, <2>2
      <4> QED BY <4>1, <2>1, <2>5
    <3> QED BY <3>1, <3>2
  <2>8. /\ Len(entities) >= 2 /\ entities # <<>>
        /\ entities[1].who = "player" /\ entities[1].name = job.player
        /\ entities[2].who = "main"
    <3>1. 1 \in 1..n /\ 2 \in 1..n
      BY <2>2
    <3> QED BY <3>1, <2>1, <2>2, <2>5, EmptySeq
  <2>9. Cast'
    BY <2>1, <2>6, <2>7, <2>8 DEF Cast
  <2>10. n + 1 \in 1..n + 1 /\ \A i \in 1..n : i \in 1..n + 1
    BY <2>2
  <2>11. \A m : Covered(m) => Covered(m)'
    BY <2>1, <2>10, <1>2 DEF Covered, n
  <2>12. \A m : m = Head(todo) => Covered(m)'
    BY <2>1, <2>10, <1>4 DEF Covered
  <2> QED BY <2>1, <2>9, <2>11, <2>12
<1> QED BY <1>3, <1>4 DEF Mentions

\* Going on with the list preserves the invariant.
LEMMA MentionHolds == ASSUME Inv, MentionStep PROVE Inv'
<1>1. Scanning /\ todo # <<>>
  BY DEF MentionStep, SkipMention, CastGroup, CastNamed, CastRole, ClassificationFails, NewMention
<1>2. PICK entities : Mentions(entities)
  BY MentionIs
<1>3. /\ pc = "scan" /\ cast' = entities /\ Pool' = Pool
      /\ UNCHANGED <<pc, job, listed, known, sessions>>
      /\ threads' \in [Pool' -> {"run", "done", "raised"}]
      /\ todo' \in Seq(AnyName) /\ Len(todo') = Len(todo) - 1 /\ Len(todo) \in Nat \ {0}
      /\ \A k \in 1..Len(todo') : todo'[k] = todo[k + 1]
      /\ threads'["scan"] = "done" => todo' = <<>>
      /\ Head(todo) = todo[1]
  BY <1>1, <1>2, NextMentionIs DEF Mentions
<1>4. /\ entities \in Seq(Entities) /\ Cast'
      /\ \A m : Covered(m) => Covered(m)'
      /\ \A m : m = Head(todo) => Covered(m)'
  BY <1>2, <1>3, MentionCast
<1>5. Typed'
  BY <1>2, <1>3, <1>4 DEF Inv, Typed, Mentions
<1>6. Scanned'
  <2> DEFINE n == Len(listed)
             r == Len(todo)
             r2 == Len(todo')
  <2>1. /\ r <= n /\ \A k \in 1..r : todo[k] = listed[n - r + k]
        /\ \A k \in 1..n - r : Covered(listed[k])
    BY <1>3 DEF Inv, Scanned
  <2>2. n \in Nat /\ r \in Nat \ {0} /\ r2 = r - 1
    BY <1>3 DEF Inv, Typed
  <2>3. Head(todo) = todo[1] /\ \A k \in 1..r2 : todo'[k] = todo[k + 1]
    BY <1>3
  <2> HIDE DEF n, r, r2
  <2>4. \A k \in 1..r2 : todo'[k] = listed[n - r2 + k]
    <3> SUFFICES ASSUME NEW k \in 1..r2 PROVE todo'[k] = listed[n - r2 + k]
      OBVIOUS
    <3>1. k + 1 \in 1..r /\ n - r + (k + 1) = n - r2 + k
      BY <2>2
    <3> QED BY <3>1, <2>1, <2>3
  <2>5. ASSUME NEW k \in 1..n - r2 PROVE Covered(listed[k])'
    <3>1. listed' = listed
      BY <1>3
    <3>2. CASE k = n - r + 1
      <4>1. 1 \in 1..r /\ n - r + 1 = k
        BY <2>2, <3>2
      <4>2. listed[k] = Head(todo)
        BY <4>1, <2>1, <2>3
      <4> QED BY <4>2, <3>1, <1>4
    <3>3. CASE k # n - r + 1
      <4>1. k \in 1..n - r
        BY <2>2, <3>3
      <4> QED BY <4>1, <2>1, <3>1, <1>4
    <3> QED BY <3>2, <3>3
  <2>6. r2 <= n
    BY <2>1, <2>2
  <2> QED BY <2>4, <2>5, <2>6, <1>3 DEF Scanned, n, r2
<1>7. Started'
  BY <1>3, EmptySeq, NoSessions DEF Started
<1> QED BY <1>4, <1>5, <1>6, <1>7 DEF Inv

\* Something that is no string ends the scan.
LEMMA JunkStep == ASSUME Inv, JunkMention PROVE Inv'
<1>1. /\ pc = "scan" /\ threads' = [threads EXCEPT !["scan"] = "raised"]
      /\ Pool' = Pool
      /\ UNCHANGED <<pc, job, listed, todo, skipped, cast, known, sessions>>
  BY DEF JunkMention, Scanning, Pool
<1>2. /\ threads' \in [Pool' -> {"run", "done", "raised"}] /\ threads'["scan"] = "raised"
  BY <1>1 DEF Inv, Typed, Pool
<1>3. Typed'
  BY <1>1, <1>2 DEF Inv, Typed
<1>4. Cast' /\ Started' /\ \A m : Covered(m)' = Covered(m)
  BY <1>1 DEF Inv, Cast, Started, Covered
<1>5. Scanned'
  BY <1>1, <1>2, <1>4 DEF Inv, Scanned
<1> QED BY <1>3, <1>4, <1>5 DEF Inv

\* The threads of the scan are joined.
LEMMA ScanJoinedStep == ASSUME Inv, ScanJoined PROVE Inv'
<1>1. /\ pc = "scan" /\ Joined /\ pc' = IF Raised THEN "failed" ELSE "characters"
      /\ threads' = NoThreads
      /\ UNCHANGED <<job, listed, todo, skipped, known, sessions>>
  BY DEF ScanJoined
<1>2. /\ cast \in Seq(Entities) /\ listed \in Seq(AnyName) /\ todo \in Seq(AnyName)
      /\ threads \in [{"scan", "world"} -> {"run", "done", "raised"}]
  BY <1>1 DEF Inv, Typed, Pool
<1>3. threads' \in [Pool' -> {"run", "done", "raised"}]
  BY <1>1 DEF Pool, NoThreads
<1>5. sessions = <<>> /\ Started'
  <2>1. sessions = <<>>
    BY <1>1, NoSessions
  <2> QED BY <2>1, <1>1, EmptySeq DEF Started
<1>6. cast' \in Seq(Entities) /\ Alike(cast', cast)
  <2>1. CASE Raised
    BY <2>1, <1>2 DEF ScanJoined, Alike
  <2>2. CASE ~Raised
    <3> DEFINE at(i) == IF IsCharacter(cast[i]) THEN "read" ELSE "done"
    <3>1. cast' = [i \in 1..Len(cast) |-> [cast[i] EXCEPT !.at = at(i)]]
      BY <2>2, <1>2 DEF ScanJoined
    <3>2. \A i \in 1..Len(cast) : cast[i] \in Entities /\ at(i) \in {"read", "done"}
      BY <1>2
    <3> HIDE DEF at
    <3>3. \A i \in 1..Len(cast) :
            /\ cast'[i] \in Entities /\ cast'[i].name = cast[i].name
            /\ cast'[i].who = cast[i].who /\ cast'[i].role = cast[i].role
      BY <3>1, <3>2 DEF Entities
    <3>4. DOMAIN cast' = 1..Len(cast) /\ cast' = [i \in 1..Len(cast) |-> cast'[i]]
      BY <3>1
    <3> QED BY <3>3, <3>4, <1>2, Altered
  <2> QED BY <2>1, <2>2
<1>7. cast # <<>>
  BY <1>1 DEF Inv, Cast
<1>8. Cast' /\ \A m : Covered(m) => Covered(m)'
  BY <1>1, <1>6, <1>7, CastKept DEF Inv
<1>9. Typed'
  BY <1>1, <1>3, <1>6 DEF Inv, Typed, Stages
<1>10. Scanned'
  <2> SUFFICES ASSUME ~Raised, NEW k \in 1..Len(listed) PROVE Covered(listed[k])'
    BY <1>1 DEF Scanned
  <2>1. threads["scan"] = "done"
    BY <1>1, <1>2 DEF Joined, Raised
  <2>2. todo = <<>> /\ Len(todo) = 0
    BY <2>1, <1>1, EmptySeq DEF Inv, Scanned
  <2>3. k \in 1..Len(listed) - Len(todo)
    BY <2>2, <1>2
  <2>4. Covered(listed[k])
    BY <2>3, <1>1 DEF Inv, Scanned
  <2> QED BY <2>4, <1>1, <1>8
<1> QED BY <1>5, <1>8, <1>9, <1>10 DEF Inv

-----------------------------------------------------------------------------
(* The characters, the facts, and the sessions of a prefab.                *)

\* A character's thread goes on, or fails.
LEMMA InferStep == ASSUME Inv, InferCharacters PROVE Inv'
<1>1. PICK i \in DOMAIN cast : InferField(i) \/ InferFails(i)
  BY DEF InferCharacters
<1>2. /\ pc = "characters" /\ cast[i].at \in DOMAIN After
      /\ UNCHANGED <<pc, job, threads, listed, todo, skipped, known, sessions>>
  BY <1>1 DEF InferField, InferFails
<1>3. cast \in Seq(Entities) /\ cast[i] \in Entities /\ cast # <<>>
  BY <1>1, <1>2 DEF Inv, Typed, Cast
<1>4. cast' \in Seq(Entities) /\ Alike(cast', cast)
  <2>1. ASSUME NEW e \in Entities, e.name = cast[i].name, e.who = cast[i].who,
               e.role = cast[i].role, cast' = [cast EXCEPT ![i] = e]
        PROVE  cast' \in Seq(Entities) /\ Alike(cast', cast)
    BY <2>1, <1>3, OneAltered
  <2>2. CASE InferField(i)
    <3> DEFINE e == [cast[i] EXCEPT !.fields = @ \union {cast[i].at}, !.at = After[@]]
    <3>1. cast' = [cast EXCEPT ![i] = e]
      BY <2>2 DEF InferField
    <3>2. /\ DOMAIN After = {"read", "never", "look"}
          /\ \A a \in DOMAIN After : After[a] \in {"never", "look", "done"}
      BY DEF After
    <3>3. /\ e \in Entities /\ e.name = cast[i].name /\ e.who = cast[i].who
          /\ e.role = cast[i].role
      BY <3>2, <1>2, <1>3 DEF Entities
    <3> HIDE DEF e
    <3> QED BY <3>1, <3>3, <2>1
  <2>3. CASE InferFails(i)
    <3> DEFINE e == [cast[i] EXCEPT !.at = "done"]
    <3>1. cast' = [cast EXCEPT ![i] = e]
      BY <2>3 DEF InferFails
    <3>2. /\ e \in Entities /\ e.name = cast[i].name /\ e.who = cast[i].who
          /\ e.role = cast[i].role
      BY <1>3 DEF Entities
    <3> HIDE DEF e
    <3> QED BY <3>1, <3>2, <2>1
  <2> QED BY <1>1, <2>2, <2>3
<1>5. Cast' /\ \A m : Covered(m) => Covered(m)'
  BY <1>2, <1>4, CastKept DEF Inv
<1>6. Pool' = Pool
  BY <1>2 DEF Pool
<1>7. Typed'
  BY <1>2, <1>4, <1>6 DEF Inv, Typed
<1>8. Scanned'
  BY <1>2, <1>5 DEF Inv, Scanned
<1>9. Started'
  BY <1>2, NoSessions, EmptySeq DEF Started
<1> QED BY <1>5, <1>7, <1>8, <1>9 DEF Inv

\* All characters are there, and then the facts, or their call fails.
LEMMA LastSteps == ASSUME Inv, CharactersJoined \/ PinFacts PROVE Inv'
<1>1. /\ UNCHANGED <<job, threads, listed, todo, skipped, cast, sessions>>
      /\ pc \in {"characters", "facts"} /\ pc' \in {"facts", "ready", "failed"}
  BY DEF CharactersJoined, PinFacts
<1>2. Pool' = Pool /\ sessions = <<>>
  BY <1>1, NoSessions DEF Pool
<1>3. Typed'
  BY <1>1, <1>2 DEF Inv, Typed, Stages
<1>4. Cast'
  BY <1>1 DEF Inv, Cast
<1>5. Scanned'
  <2>1. \A m : Covered(m)' = Covered(m)
    BY <1>1 DEF Covered
  <2> QED BY <2>1, <1>1 DEF Inv, Scanned
<1>6. Started'
  BY <1>1, <1>2, EmptySeq DEF Started
<1> QED BY <1>3, <1>4, <1>5, <1>6 DEF Inv

\* A session starts from the prefab.
LEMMA SessionStep ==
  ASSUME Inv, NEW player \in Name, NEW filter \in BOOLEAN, StartFromPrefab(player, filter)
  PROVE  Inv'
<1> DEFINE s == [player |-> player, filter |-> filter, cast |-> Patched(cast, player)]
           S == [player : Name, filter : BOOLEAN, cast : Seq(Entities)]
<1>1. /\ pc = "ready" /\ sessions' = Append(sessions, s)
      /\ UNCHANGED <<pc, job, threads, listed, todo, skipped, cast, known>>
  BY DEF StartFromPrefab, IsPrefab
<1>2. s \in S /\ s.player = player /\ s.cast = Patched(cast, player) /\ sessions \in Seq(S)
  BY PatchedIs DEF Inv, Typed
<1> HIDE DEF s, S
<1>3. /\ sessions' \in Seq(S) /\ Len(sessions') = Len(sessions) + 1 /\ Len(sessions) \in Nat
      /\ sessions'[Len(sessions) + 1] = s
      /\ \A k \in 1..Len(sessions) : sessions'[k] = sessions[k]
  BY <1>1, <1>2
<1>4. Typed'
  <2>1. Pool' = Pool
    BY <1>1 DEF Pool
  <2> QED BY <2>1, <1>1, <1>3 DEF Inv, Typed, S
<1>5. Cast' /\ Scanned'
  BY <1>1 DEF Inv, Cast, Scanned, Covered
<1>6. Started'
  <2> SUFFICES ASSUME NEW k \in 1..Len(sessions')
               PROVE  sessions'[k].cast = Patched(cast, sessions'[k].player)
    BY <1>1 DEF Started, Patched
  <2>1. CASE k = Len(sessions) + 1
    BY <2>1, <1>2, <1>3
  <2>2. CASE k \in 1..Len(sessions)
    BY <2>2, <1>3 DEF Inv, Started
  <2> QED BY <2>1, <2>2, <1>3
<1> QED BY <1>4, <1>5, <1>6 DEF Inv

-----------------------------------------------------------------------------
(* The theorems.                                                           *)

\* Every step preserves the invariant.
LEMMA NextHolds == Inv /\ [Next]_vars => Inv'
<1> SUFFICES ASSUME Inv, [Next]_vars PROVE Inv'
  OBVIOUS
<1>1. CASE Begin BY <1>1, BeginStep
<1>2. CASE InferPremise \/ InferWorld \/ ListIsEmpty BY <1>2, EndsStep
<1>3. CASE PremiseJoined BY <1>3, PremiseJoinedStep
<1>4. CASE Describe BY <1>4, DescribeStep
<1>5. CASE ListMentions BY <1>5, ListStep
<1>6. CASE MentionStep BY <1>6, MentionHolds
<1>7. CASE JunkMention BY <1>7, JunkStep
<1>8. CASE ScanJoined BY <1>8, ScanJoinedStep
<1>9. CASE InferCharacters BY <1>9, InferStep
<1>10. CASE CharactersJoined \/ PinFacts BY <1>10, LastSteps
<1>11. ASSUME NEW player \in Name, NEW filter \in BOOLEAN, StartFromPrefab(player, filter)
       PROVE  Inv'
  BY <1>11, SessionStep
<1>12. CASE UNCHANGED vars
  <2>1. Pool' = Pool /\ \A m : Covered(m)' = Covered(m)
    BY <1>12 DEF vars, Pool, Covered
  <2>2. Started'
    BY <1>12 DEF vars, Inv, Started, Patched
  <2>3. Typed'
    BY <1>12, <2>1 DEF vars, Inv, Typed
  <2>4. Cast'
    BY <1>12 DEF vars, Inv, Cast
  <2>5. Scanned'
    BY <1>12, <2>1 DEF vars, Inv, Scanned
  <2> QED BY <2>2, <2>3, <2>4, <2>5 DEF Inv
<1> QED
  BY <1>1, <1>2, <1>3, <1>4, <1>5, <1>6, <1>7, <1>8, <1>9, <1>10, <1>11, <1>12
  DEF Next, Initialise, Scan, MentionStep

\* The invariant holds of every state that an initialisation reaches.
LEMMA Invariance == Spec => []Inv
<1>1. Inv /\ [Next]_vars => Inv'
  BY NextHolds
<1> QED BY <1>1, InitHolds, PTL DEF Spec

\* Every state of an initialisation is well typed, whichever calls fail.
THEOREM Types == Spec => []TypeOK
<1>1. Inv => TypeOK
  <2> SUFFICES ASSUME Inv PROVE TypeOK
    OBVIOUS
  <2>1. \A i \in DOMAIN cast : cast[i] \in Entities
    BY DEF Inv, Typed
  <2>2. \A t \in DOMAIN threads : threads[t] \in {"run", "done", "raised"}
    BY DEF Inv, Typed
  <2> QED BY <2>1, <2>2 DEF TypeOK, Inv, Typed, Entities, Kinds
<1> QED BY <1>1, Invariance, PTL

\* No two characters have one name, and no one who was found has the player's,
\* in an engine of its own or a session of a prefab (inference.py,
\* scan_opening_for_npcs; ai_service.py, engine_init_from_prefab).
THEOREM UniqueNames == Spec => []NamesAreUnique
<1>1. Inv => NamesAreUnique
  <2> SUFFICES ASSUME Inv PROVE NamesAreUnique
    OBVIOUS
  <2> DEFINE people == Names(cast, {"main", "group", "npc"})
  <2>1. DOMAIN cast = 1..Len(cast) /\ Len(cast) \in Nat /\ cast \in Seq(Entities)
    BY DEF Inv, Typed
  <2>2. people \subseteq 1..Len(cast) \ {1}
        /\ \A i \in people : cast[i].who # "player"
    <3>1. CASE cast = <<>>
      <4>1. DOMAIN cast = {}
        BY <3>1
      <4> QED BY <4>1 DEF Names
    <3>2. CASE cast # <<>>
      <4>1. cast[1].who = "player" /\ cast[2].who = "main"
        BY <3>2 DEF Inv, Cast
      <4> QED BY <4>1, <2>1 DEF Names
    <3> QED BY <3>1, <3>2
  <2>3. \A i, j \in 1..Len(cast) : i < j /\ j > 2 => cast[i].name # cast[j].name
    BY DEF Inv, Cast
  <2> HIDE DEF people
  <2>4. \A i, j \in people : i # j => cast[i].name # cast[j].name
    <3> SUFFICES ASSUME NEW i \in people, NEW j \in people, i # j
                 PROVE  cast[i].name # cast[j].name
      OBVIOUS
    <3>1. i \in 1..Len(cast) /\ j \in 1..Len(cast) /\ i > 1 /\ j > 1
      BY <2>1, <2>2
    <3>2. (i < j /\ j > 2) \/ (j < i /\ i > 2)
      BY <3>1, <2>1
    <3> QED BY <3>1, <3>2, <2>3
  <2>5. ASSUME NEW i \in Names(cast, {"group", "npc"}) PROVE cast[i].name # job.player
    <3>1. i \in 1..Len(cast) /\ cast[i].who \in {"group", "npc"} /\ cast # <<>>
      BY <2>1 DEF Names
    <3>2. 1 \in 1..Len(cast) /\ 1 < i /\ i > 2
      <4>1. cast[1].who = "player" /\ cast[2].who = "main"
        BY <3>1 DEF Inv, Cast
      <4> QED BY <4>1, <3>1, <2>1
    <3>3. cast[1].name = job.player
      BY <3>2 DEF Inv, Cast
    <3> QED BY <3>1, <3>2, <3>3, <2>3
  <2>6. ASSUME NEW s \in DOMAIN sessions
        PROVE  \A i, j \in people : i # j => sessions[s].cast[i].name # sessions[s].cast[j].name
    <3>1. /\ s \in 1..Len(sessions) /\ sessions[s].player \in Name
          /\ sessions[s].cast = Patched(cast, sessions[s].player)
      <4> DEFINE S == [player : Name, filter : BOOLEAN, cast : Seq(Entities)]
      <4>1. sessions \in Seq(S)
        BY DEF Inv, Typed
      <4> HIDE DEF S
      <4>2. s \in 1..Len(sessions) /\ sessions[s] \in S
        BY <4>1
      <4>3. sessions[s].player \in Name
        BY <4>2 DEF S
      <4> QED BY <4>2, <4>3 DEF Inv, Started
    <3>2. \A i \in people : sessions[s].cast[i] = cast[i]
      BY <3>1, <2>1, <2>2, PatchedIs
    <3> QED BY <3>2, <2>4
  <2> QED BY <2>4, <2>5, <2>6 DEF NamesAreUnique, Distinct, people
<1> QED BY <1>1, Invariance, PTL

\* Whoever the scan listed is cast when the characters are inferred, or was taken
\* for somebody, whichever classifications failed (inference.py,
\* scan_opening_for_npcs).
THEOREM MentionsAreCast == Spec => []EveryMentionIsCast
<1>1. Inv => EveryMentionIsCast
  <2> SUFFICES ASSUME Inv, pc \in {"characters", "facts", "ready"}, NEW k \in 1..Len(listed)
               PROVE  \/ listed[k] = Blank
                      \/ \E i \in DOMAIN cast : listed[k] \in {cast[i].name, cast[i].role}
                      \/ listed[k] \in skipped
    BY DEF EveryMentionIsCast
  <2>1. Covered(listed[k]) /\ DOMAIN cast = 1..Len(cast)
    BY DEF Inv, Scanned, Typed
  <2> QED BY <2>1 DEF Covered
<1> QED BY <1>1, Invariance, PTL
=============================================================================
