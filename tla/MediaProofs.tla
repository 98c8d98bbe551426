---------------------------- MODULE MediaProofs -----------------------------
(***************************************************************************)
(* What the runs check of pictures and movies, for any number of jobs and  *)
(* turns: a pending row has a job that settles it, a re-roll gives another *)
(* clip, and, as long as the lock does not expire under a running ffmpeg,  *)
(* the state file tells the movie and no scene stays out of it.            *)
(***************************************************************************)
EXTENDS TurnMedia, SequenceTheorems, WellFoundedInduction, TLAPS

\* Jobs that will make a pending row ready or failed.
Settles(j) ==
  \/ job[j].pc \in {"enqueue", "queued", "pipeline", "written"}
  \/ At(j, "open") /\ (job[j].kind = "reroll" \/ job[j].read.status # "none")

\* A row that is pending has such a job.
PendingSettles ==
  \A t \in Turn : rows[t].status = "pending" /\ Spared({"crash"})
    => \E j \in Job : job[j].turn = t /\ Settles(j)

\* Until requests for one turn overlap, a turn has one job.
OneJobPerTurn ==
  Spared({"overlap"}) =>
    \A i, j \in Job : i # j /\ job[i].pc \notin Over /\ job[j].pc \notin Over
      => job[i].turn # job[j].turn

\* Rows and files agree on the seed, but between the two writes of a job; and a
\* re-roll has another one.
SeedsAgree ==
  Spared({"overlap", "dbfail", "crash"}) =>
    /\ \A t \in Turn : \/ files[t].seed = rows[t].seed
                       \/ \E j \in Job : job[j].turn = t /\ At(j, "written")
    /\ \A j \in Job :
         LET t == job[j].turn IN
         /\ At(j, "open") => job[j].read.seed = rows[t].seed
         /\ At(j, "pipeline") /\ job[j].kind = "reroll" => job[j].clip.seed # rows[t].seed
         /\ At(j, "written") => files[t].seed = job[j].clip.seed

\* Whoever works on the movie holds its lock.
HoldsLock == \A j \in Job : job[j].pc \in InMovie => lock = j

Turns(m) == [i \in 1..Len(m) |-> m[i].turn]

AppendsSome == \A j \in Job : At(j, "append") => job[j].left # <<>>

\* What the state file says, while the movie is being made what it will say.
Baking ==
  Spared({"ffmpeg", "crash"}) =>
    /\ (\A j \in Job : job[j].pc \notin {"append", "state"}) => state = Turns(movie)
    /\ \A j \in Job :
         /\ At(j, "append") =>
              /\ Len(job[j].want) = Len(movie) + Len(job[j].left)
              /\ \A i \in 1..Len(movie) : job[j].want[i] = movie[i].turn
              /\ \A i \in 1..Len(job[j].left) : job[j].want[Len(movie) + i] = job[j].left[i]
         /\ At(j, "state") => job[j].want = Turns(movie)

\* A ready row has a seed, which no later write takes away.
ReadyHasSeed ==
  /\ \A t \in Turn : rows[t].status = "ready" => rows[t].seed # NoSeed
  /\ \A j \in Job : job[j].pc \in {"pipeline", "written"} => job[j].clip.seed # NoSeed

Extending == {"plan", "append", "rebuild", "state"}

\* The scenes S that the last scan found are, or will be, in the movie ...
InOrComing(S) ==
  \/ S # {} /\ \E j \in Job : job[j].pc \in Extending /\ job[j].want = Contiguous(S)
  \/ /\ \A j \in Job : job[j].pc \notin Extending
     /\ S # {} => \A i \in 1..Len(Contiguous(S)) :
                    \E k \in 1..Len(movie) : movie[k].turn = Contiguous(S)[i]

\* ... and no other scene became ready since without another scan to come.
LastScan ==
  (/\ Spared({"skipped", "withdrawn", "ffmpeg", "crash"})
   /\ \A j \in Job : job[j].pc \notin {"movie", "scan"})
  => \E S \in SUBSET Turn :
       /\ ReadyTurns \subseteq S
       /\ \A t \in S : rows[t].status \in {"ready", "pending"} /\ rows[t].seed # NoSeed
       /\ InOrComing(S)

Base == TypeOK /\ AppendsSome

-----------------------------------------------------------------------------
(* A set of turns has a first one and a last one.                           *)
LEMMA Extremes ==
  ASSUME NEW S \in SUBSET Turn, S # {}
  PROVE  /\ Min(S) \in S /\ \A t \in S : Min(S) <= t
         /\ Max(S) \in S /\ \A t \in S : t <= Max(S)
<1>1. MaxTurn \in Nat BY MaxTurnAssumption
<1>2. \E x \in S : \A y \in S : x <= y
  <2>1. S \subseteq Nat BY <1>1 DEF Turn
  <2>2. PICK x \in S : \A y \in S : ~(<<y, x>> \in OpToRel(<, Nat))
    BY <2>1, NatLessThanWellFounded, WFMin
  <2>3. \A y \in S : ~(y < x) BY <2>1, <2>2 DEF OpToRel
  <2> QED BY <2>1, <2>3
<1>3. \E x \in S : \A y \in S : x >= y
  <2> DEFINE U == {u \in Nat : \A t \in S : t <= u}
  <2>1. MaxTurn \in U BY <1>1 DEF Turn
  <2>2. U \subseteq Nat /\ U # {} BY <2>1
  <2>3. PICK x \in U : \A y \in U : ~(<<y, x>> \in OpToRel(<, Nat))
    <3> HIDE DEF U
    <3> QED BY <2>2, NatLessThanWellFounded, WFMin
  <2>4. \A y \in U : ~(y < x) BY <2>2, <2>3 DEF OpToRel
  <2>5. x \in S
    <3>1. SUFFICES ASSUME x \notin S PROVE FALSE OBVIOUS
    <3>2. x \in Nat /\ \A t \in S : t \in Nat /\ t > 0 /\ t <= x
      BY <1>1, <2>2 DEF Turn
    <3>3. \A t \in S : t <= x - 1 BY <3>1, <3>2
    <3>4. x - 1 \in Nat BY <3>2
    <3>5. x - 1 \in U BY <3>3, <3>4
    <3> QED BY <2>4, <3>2, <3>5
  <2>6. \A t \in S : x >= t BY <2>2, <1>1 DEF Turn
  <2> QED BY <2>5, <2>6
<1> QED BY <1>2, <1>3 DEF Min, Max

(* The turns a movie should have are among those that are ready.            *)
LEMMA ContiguousType ==
  ASSUME NEW S \in SUBSET Turn, S # {}
  PROVE  Contiguous(S) \in Seq(Turn)
<1> DEFINE first == Min(S)
           T == {t \in S : first..t \subseteq S}
           end == Max(T)
<1>1. MaxTurn \in Nat /\ \A t \in Turn : t \in Nat BY MaxTurnAssumption DEF Turn
<1>2. first \in S /\ \A t \in S : first <= t BY Extremes
<1> HIDE DEF first
<1>3. first \in Nat BY <1>1, <1>2
<1>4. first..first \subseteq S BY <1>2, <1>3
<1>5. T \in SUBSET Turn /\ T # {} BY <1>2, <1>4
<1>6. Max(T) \in T
  <2> HIDE DEF T
  <2> QED BY <1>5, Extremes
<1>7. end \in S /\ first..end \subseteq S BY <1>6
<1> HIDE DEF end, T
<1>8. end \in Nat /\ first <= end BY <1>1, <1>2, <1>7
<1>9. end - first + 1 \in Nat BY <1>3, <1>8
<1>10. \A i \in 1..(end - first + 1) : first + i - 1 \in Turn
  <2> TAKE i \in 1..(end - first + 1)
  <2>1. first + i - 1 \in first..end BY <1>3, <1>8
  <2> QED BY <1>7, <2>1
<1>11. [i \in 1..(end - first + 1) |-> first + i - 1] \in Seq(Turn)
  BY <1>9, <1>10, IsASeq
<1> QED BY <1>11 DEF Contiguous, first, end, T

(* The first state.                                                         *)
LEMMA InitBase == Init => Base
<1>1. MaxTurn \in Nat \ {0} BY MaxTurnAssumption
<1>2. SUFFICES ASSUME Init PROVE Base OBVIOUS
<1>3. NoRow \in Row /\ NoClip \in Clip BY DEF NoRow, NoClip, Row, Clip, NoSeed
<1>4. <<>> \in Seq(Turn) /\ <<>> \in Seq([turn : Turn, clip : Clip]) BY EmptySeq
<1>5. 1 \in Turn BY <1>1 DEF Turn
<1>6. Idle \in MediaJob
  <2> HIDE DEF Turn
  <2> QED BY <1>3, <1>4, <1>5 DEF Idle, MediaJob, Over
<1> QED BY <1>1, <1>2, <1>3, <1>4, <1>6 DEF Base, TypeOK, AppendsSome, Init, At, Idle

(* The row a job leaves is a row.                                           *)
LEMMA PendingType ==
  ASSUME NEW j \in Job, NEW row \in Row
  PROVE  Pending(j, row) \in Row /\ Pending(j, row).seed = row.seed
BY DEF Pending, Row

(* What is asked for is a job.                                              *)
LEMMA AskType ==
  ASSUME Base, NEW j \in Job, NEW k \in {"generate", "reroll"}, NEW t \in Turn,
         NEW where \in {"queued", "over", "asked"}, Ask(j, k, t, where)
  PROVE  /\ job' \in [Job -> MediaJob] /\ AppendsSome'
         /\ mishaps' \subseteq FaultKinds \union {"overlap", "skipped", "withdrawn"}
<1>1. <<>> \in Seq(Turn) BY EmptySeq
<1>2. NoClip \in Clip /\ rows[t] \in Row BY DEF Base, TypeOK, NoClip, Clip, NoSeed
<1> DEFINE new == [Idle EXCEPT !.pc = where, !.kind = k, !.turn = t, !.read = rows[t]]
<1>3. new \in MediaJob /\ new.pc = where BY <1>1, <1>2 DEF Idle, MediaJob, Over
<1>4. job' = [job EXCEPT ![j] = new] BY DEF Ask
<1> HIDE DEF new
<1> QED BY <1>3, <1>4 DEF Base, TypeOK, AppendsSome, At, Ask

(* A step that gives one job another record.                                *)
LEMMA JobType ==
  ASSUME Base, NEW j \in Job, NEW new \in MediaJob, job' = [job EXCEPT ![j] = new],
         new.pc = "append" => new.left # <<>>
  PROVE  job' \in [Job -> MediaJob] /\ AppendsSome'
BY DEF Base, TypeOK, AppendsSome, At

Places == Over \union {"asked", "enqueue", "queued", "open", "pipeline", "written", "movie",
                       "scan", "plan", "rebuild", "state", "unlock"}

(* A step that only moves a job.                                            *)
LEMMA MoveType ==
  ASSUME Base, NEW j \in Job, NEW p \in Places, job' = [job EXCEPT ![j].pc = p]
  PROVE  job' \in [Job -> MediaJob] /\ AppendsSome'
<1>1. job[j] \in MediaJob BY DEF Base, TypeOK
<1> DEFINE new == [job[j] EXCEPT !.pc = p]
<1>2. new \in MediaJob /\ new.pc = p BY <1>1 DEF MediaJob, Places
<1>3. job' = [job EXCEPT ![j] = new] OBVIOUS
<1>4. p # "append" BY DEF Places, Over
<1> HIDE DEF new
<1> QED BY <1>2, <1>3, <1>4, JobType

(* Requests keep types.                                                     *)
LEMMA RequestType ==
  ASSUME Base, NEW j \in Job, PlayTurn(j) \/ Reroll(j) \/ RerollRequest(j)
  PROVE  Base'
<1>1. MaxTurn \in Nat \ {0} BY MaxTurnAssumption
<1>2. CASE PlayTurn(j)
  <2>1. PICK t \in {last, last + 1} \intersect Turn, where \in {"queued", "over"} :
          Ask(j, "generate", t, where) /\ last' = t
    BY <1>2 DEF PlayTurn
  <2>2. last' \in 0..MaxTurn BY <1>1, <2>1 DEF Turn
  <2> QED BY <1>2, <2>1, <2>2, AskType DEF PlayTurn, Base, TypeOK
<1>3. CASE Reroll(j)
  <2>1. PICK t \in Turn : Ask(j, "reroll", t, "asked") BY <1>3 DEF Reroll
  <2> QED BY <1>3, <2>1, AskType DEF Reroll, Base, TypeOK
<1>4. CASE RerollRequest(j)
  <2>0. /\ \A p \in {"enqueue", "queued", "over"} : p \in Places
        /\ job[j].turn \in Turn /\ rows[job[j].turn] \in Row
    BY DEF Places, Over, Base, TypeOK, MediaJob
  <2>1. CASE RerollCommits(j)
    <3>1. Pending(j, rows[job[j].turn]) \in Row BY <2>0, PendingType
    <3>2. job' \in [Job -> MediaJob] /\ AppendsSome'
      BY <2>0, <2>1, MoveType DEF RerollCommits
    <3> QED BY <2>0, <2>1, <3>1, <3>2 DEF RerollCommits, Base, TypeOK
  <2>2. CASE RerollQueued(j)
    <3>1. job' \in [Job -> MediaJob] /\ AppendsSome'
      BY <2>0, <2>2, MoveType DEF RerollQueued
    <3> QED BY <2>2, <3>1 DEF RerollQueued, Base, TypeOK
  <2>3. CASE RerollRefused(j)
    <3>1. [rows[job[j].turn] EXCEPT !.status = "failed"] \in Row BY <2>0 DEF Row
    <3>2. job' \in [Job -> MediaJob] /\ AppendsSome'
      BY <2>0, <2>3, MoveType DEF RerollRefused
    <3> QED BY <2>0, <2>3, <3>1, <3>2 DEF RerollRefused, Withdrawal, Base, TypeOK
  <2> QED BY <1>4, <2>1, <2>2, <2>3 DEF RerollRequest
<1> QED BY <1>2, <1>3, <1>4

(* What an extension of the state file has left to append.                  *)
LEMMA ToAppend ==
  ASSUME state \in Seq(Turn), NEW want \in Seq(Turn), IsExtension(want), state # want
  PROVE  /\ NotBaked(want) \in Seq(Turn) /\ NotBaked(want) # <<>>
         /\ Len(want) = Len(state) + Len(NotBaked(want))
         /\ \A i \in 1..Len(state) : want[i] = state[i]
         /\ \A i \in 1..Len(NotBaked(want)) : want[Len(state) + i] = NotBaked(want)[i]
<1> DEFINE n == Len(state)
           m == Len(want)
           rest == SubSeq(want, n + 1, m)
<1>1. n \in Nat /\ m \in Nat /\ n <= m /\ SubSeq(want, 1, n) = state
  BY LenProperties DEF IsExtension
<1>2. SubSeq(want, 1, m) = want BY SubSeqFull
<1>3. n < m BY <1>1, <1>2
<1>4. \A i \in 1..m : want[i] \in Turn BY ElementOfSeq
<1> HIDE DEF n, m
<1>5. \A i \in 1..n : want[i] \in Turn BY <1>1, <1>4
<1>6. \A i \in 1..(n - 1 + 1) : SubSeq(want, 1, n)[i] = want[1 + i - 1]
  BY <1>1, <1>5, SubSeqProperties
<1>7. \A i \in 1..n : want[i] = state[i] BY <1>1, <1>6
<1>8. n + 1 \in Int /\ m \in Int /\ \A i \in n + 1..m : want[i] \in Turn BY <1>1, <1>4
<1>9. /\ rest \in Seq(Turn) /\ Len(rest) = IF n + 1 <= m THEN m - (n + 1) + 1 ELSE 0
      /\ \A i \in 1..(m - (n + 1) + 1) : rest[i] = want[n + 1 + i - 1]
  BY <1>8, SubSeqProperties
<1> HIDE DEF rest
<1>10. Len(rest) = m - n BY <1>1, <1>3, <1>9
<1>11. \A i \in 1..Len(rest) : want[n + i] = rest[i] BY <1>1, <1>9, <1>10
<1>12. rest # <<>> BY <1>1, <1>3, <1>10, EmptySeq
<1>13. m = n + Len(rest) BY <1>1, <1>10
<1>14. rest \in Seq(Turn) BY <1>9
<1>15. rest = NotBaked(want) BY DEF rest, n, m, NotBaked
<1> QED BY <1>7, <1>11, <1>12, <1>13, <1>14, <1>15 DEF n, m

(* The jobs' steps keep types.                                              *)
LEMMA MakingType ==
  ASSUME Base, NEW j \in Job,
         \/ Start(j) \/ OpenGenerate(j) \/ OpenReroll(j) \/ WriteFiles(j)
         \/ MarkReady(j) \/ MarkFailed(j)
  PROVE  Base'
<1> DEFINE t == job[j].turn
<1>1. /\ \A p \in {"pipeline", "written", "over", "movie", "open"} : p \in Places
      /\ t \in Turn /\ rows[t] \in Row /\ job[j] \in MediaJob
      /\ job[j].clip \in Clip /\ job[j].read \in Row
  BY DEF Places, Over, Base, TypeOK, MediaJob
<1>2. CASE Start(j)
  <2> DEFINE new == [job[j] EXCEPT !.pc = "open", !.read = rows[t]]
  <2>1. new \in MediaJob /\ new.pc # "append" BY <1>1 DEF MediaJob
  <2>2. job' = [job EXCEPT ![j] = new] BY <1>2 DEF Start
  <2> HIDE DEF new
  <2>3. job' \in [Job -> MediaJob] /\ AppendsSome' BY <2>1, <2>2, JobType
  <2> QED BY <1>2, <2>3 DEF Start, Base, TypeOK
<1>3. CASE OpenGenerate(j)
  <2>1. CASE job[j].read.status = "none" /\ rows[t].status # "none"
    <3>1. job' \in [Job -> MediaJob] /\ AppendsSome'
      BY <1>1, <1>3, <2>1, MoveType DEF OpenGenerate
    <3> QED BY <1>3, <2>1, <3>1 DEF OpenGenerate, Base, TypeOK
  <2>2. CASE ~(job[j].read.status = "none" /\ rows[t].status # "none")
    <3> DEFINE new == [job[j] EXCEPT !.pc = "pipeline",
                                     !.clip = [text |-> j, seed |-> StableSeed]]
               row == [Pending(j, rows[t]) EXCEPT !.text = j]
    <3>1. new \in MediaJob /\ new.pc # "append" BY <1>1 DEF MediaJob, Clip, StableSeed
    <3>2. job' = [job EXCEPT ![j] = new] BY <1>3, <2>2 DEF OpenGenerate
    <3>3. Pending(j, rows[t]) \in Row BY <1>1, PendingType
    <3>4. row \in Row BY <3>3 DEF Row
    <3> HIDE DEF new
    <3>5. job' \in [Job -> MediaJob] /\ AppendsSome' BY <3>1, <3>2, JobType
    <3> QED BY <1>1, <1>3, <2>2, <3>4, <3>5 DEF OpenGenerate, Base, TypeOK
  <2> QED BY <2>1, <2>2
<1>4. CASE OpenReroll(j)
  <2> DEFINE new == [job[j] EXCEPT !.pc = "pipeline",
                                   !.clip = [text |-> job[j].read.text,
                                             seed |-> NewSeed(job[j].read.seed)]]
  <2>0. NewSeed(job[j].read.seed) \in Nat
    BY <1>1 DEF NewSeed, NoSeed, RerollSeed, Row
  <2>1. new \in MediaJob /\ new.pc # "append"
    BY <1>1, <2>0 DEF MediaJob, Clip, Row
  <2>2. job' = [job EXCEPT ![j] = new] BY <1>4 DEF OpenReroll
  <2>3. Pending(j, rows[t]) \in Row BY <1>1, PendingType
  <2> HIDE DEF new
  <2>4. job' \in [Job -> MediaJob] /\ AppendsSome' BY <2>1, <2>2, JobType
  <2> QED BY <1>1, <1>4, <2>3, <2>4 DEF OpenReroll, Base, TypeOK
<1>5. CASE WriteFiles(j)
  <2>1. job' \in [Job -> MediaJob] /\ AppendsSome' BY <1>1, <1>5, MoveType DEF WriteFiles
  <2> QED BY <1>1, <1>5, <2>1 DEF WriteFiles, Base, TypeOK
<1>6. CASE MarkReady(j)
  <2>1. [rows[t] EXCEPT !.status = "ready", !.seed = job[j].clip.seed] \in Row
    BY <1>1 DEF Row, Clip
  <2>2. job' \in [Job -> MediaJob] /\ AppendsSome' BY <1>1, <1>6, MoveType DEF MarkReady
  <2> QED BY <1>1, <1>6, <2>1, <2>2 DEF MarkReady, Base, TypeOK
<1>7. CASE MarkFailed(j)
  <2>1. [rows[t] EXCEPT !.status = "failed"] \in Row BY <1>1 DEF Row
  <2>2. job' \in [Job -> MediaJob] /\ AppendsSome' BY <1>1, <1>7, MoveType DEF MarkFailed
  <2> QED BY <1>1, <1>7, <2>1, <2>2
          DEF MarkFailed, Base, TypeOK, Withdrawal, FaultKinds
<1> QED BY <1>2, <1>3, <1>4, <1>5, <1>6, <1>7

(* So do those of the movie.                                                *)
LEMMA MovieType ==
  ASSUME Base, NEW j \in Job,
         \/ LockMovie(j) \/ Scan(j) \/ Plan(j) \/ AppendOne(j) \/ Rebuild(j)
         \/ ConcatFails(j) \/ WriteState(j) \/ UnlockMovie(j)
  PROVE  Base'
<1> DEFINE want == job[j].want
           left == job[j].left
           Segments == [turn : Turn, clip : Clip]
<1>1. /\ \A p \in {"scan", "over", "unlock", "rebuild", "state"} : p \in Places
      /\ job[j] \in MediaJob /\ want \in Seq(Turn) /\ left \in Seq(Turn)
      /\ state \in Seq(Turn) /\ movie \in Seq(Segments)
  BY DEF Places, Over, Base, TypeOK, MediaJob
<1>2. \A t \in Turn : Segment(t) \in Segments BY DEF Segment, Base, TypeOK
<1>3. CASE LockMovie(j)
  <2>1. job' \in [Job -> MediaJob] /\ AppendsSome' BY <1>1, <1>3, MoveType DEF LockMovie
  <2> QED BY <1>3, <2>1 DEF LockMovie, Base, TypeOK
<1>4. CASE Scan(j)
  <2> DEFINE new == [job[j] EXCEPT !.pc = "plan", !.want = Contiguous(ReadyTurns)]
  <2>1. CASE ReadyTurns = {}
    <3>1. job' \in [Job -> MediaJob] /\ AppendsSome' BY <1>1, <1>4, <2>1, MoveType DEF Scan
    <3> QED BY <1>4, <3>1 DEF Scan, Base, TypeOK
  <2>2. CASE ReadyTurns # {}
    <3>1. Contiguous(ReadyTurns) \in Seq(Turn)
      BY <2>2, ContiguousType DEF ReadyTurns
    <3>2. new \in MediaJob /\ new.pc # "append" BY <1>1, <3>1 DEF MediaJob
    <3>3. job' = [job EXCEPT ![j] = new] BY <1>4, <2>2 DEF Scan
    <3> HIDE DEF new
    <3>4. job' \in [Job -> MediaJob] /\ AppendsSome' BY <3>2, <3>3, JobType
    <3> QED BY <1>4, <3>4 DEF Scan, Base, TypeOK
  <2> QED BY <2>1, <2>2
<1>5. CASE Plan(j)
  <2>1. CASE state = want
    <3>1. job' = [job EXCEPT ![j].pc = "unlock"] BY <1>5, <2>1 DEF Plan
    <3>2. job' \in [Job -> MediaJob] /\ AppendsSome' BY <1>1, <3>1, MoveType
    <3> QED BY <1>5, <3>2 DEF Plan, Base, TypeOK
  <2>2. CASE state # want /\ IsExtension(want)
    <3> DEFINE new == [job[j] EXCEPT !.pc = "append", !.left = NotBaked(want)]
    <3>1. NotBaked(want) \in Seq(Turn) /\ NotBaked(want) # <<>> BY <1>1, <2>2, ToAppend
    <3>2. new \in MediaJob /\ new.left # <<>> BY <1>1, <3>1 DEF MediaJob
    <3>3. job' = [job EXCEPT ![j] = new] BY <1>5, <2>2 DEF Plan
    <3> HIDE DEF new
    <3>4. job' \in [Job -> MediaJob] /\ AppendsSome' BY <3>2, <3>3, JobType
    <3> QED BY <1>5, <3>4 DEF Plan, Base, TypeOK
  <2>3. CASE ~IsExtension(want) /\ state # want
    <3>1. job' = [job EXCEPT ![j].pc = "rebuild"] BY <1>5, <2>3 DEF Plan
    <3>2. job' \in [Job -> MediaJob] /\ AppendsSome' BY <1>1, <3>1, MoveType
    <3> QED BY <1>5, <3>2 DEF Plan, Base, TypeOK
  <2> QED BY <2>1, <2>2, <2>3
<1>6. CASE AppendOne(j)
  <2> DEFINE next == IF Len(left) = 1 THEN "state" ELSE "append"
             new == [job[j] EXCEPT !.left = Tail(left), !.pc = next]
  <2>1. left # <<>> BY <1>6 DEF AppendOne, Base, AppendsSome, At
  <2>2. /\ Head(left) \in Turn /\ Tail(left) \in Seq(Turn)
        /\ Len(Tail(left)) = Len(left) - 1 /\ Len(left) \in Nat
    BY <1>1, <2>1, HeadTailProperties, LenProperties
  <2>3. Len(left) # 1 => Tail(left) # <<>>
    <3>1. Tail(left) = <<>> => Len(Tail(left)) = 0 BY EmptySeq
    <3> QED BY <2>2, <3>1
  <2>4. new \in MediaJob /\ (new.pc = "append" => new.left # <<>>)
    BY <1>1, <2>2, <2>3 DEF MediaJob
  <2>5. job' = [job EXCEPT ![j] = new] BY <1>6 DEF AppendOne, At
  <2>6. Append(movie, Segment(Head(left))) \in Seq(Segments)
    BY <1>1, <1>2, <2>2, AppendProperties
  <2> HIDE DEF new
  <2>7. job' \in [Job -> MediaJob] /\ AppendsSome' BY <2>4, <2>5, JobType
  <2> QED BY <1>6, <2>6, <2>7 DEF AppendOne, Base, TypeOK
<1>7. CASE Rebuild(j)
  <2>1. Len(want) \in Nat /\ \A i \in 1..Len(want) : Segment(want[i]) \in Segments
    BY <1>1, <1>2, LenProperties, ElementOfSeq
  <2>2. [i \in 1..Len(want) |-> Segment(want[i])] \in Seq(Segments)
    <3> HIDE DEF want, Segments
    <3> QED BY <2>1, IsASeq
  <2>3. job' \in [Job -> MediaJob] /\ AppendsSome' BY <1>1, <1>7, MoveType DEF Rebuild
  <2> QED BY <1>7, <2>2, <2>3 DEF Rebuild, Base, TypeOK
<1>8. CASE ConcatFails(j)
  <2>1. job' \in [Job -> MediaJob] /\ AppendsSome' BY <1>1, <1>8, MoveType DEF ConcatFails
  <2> QED BY <1>8, <2>1 DEF ConcatFails, Base, TypeOK, FaultKinds
<1>9. CASE WriteState(j)
  <2>1. job' \in [Job -> MediaJob] /\ AppendsSome' BY <1>1, <1>9, MoveType DEF WriteState
  <2> QED BY <1>1, <1>9, <2>1 DEF WriteState, Base, TypeOK
<1>10. CASE UnlockMovie(j)
  <2>1. job' \in [Job -> MediaJob] /\ AppendsSome' BY <1>1, <1>10, MoveType DEF UnlockMovie
  <2> QED BY <1>10, <2>1 DEF UnlockMovie, Base, TypeOK
<1> QED BY <1>3, <1>4, <1>5, <1>6, <1>7, <1>8, <1>9, <1>10

(* Every step keeps the types, and a job that appends has something left to *)
(* append.                                                                  *)
LEMMA TypeStep == Base /\ [Next]_vars => Base'
<1>1. SUFFICES ASSUME Base, [Next]_vars PROVE Base' OBVIOUS
<1>2. CASE LockExpires BY <1>1, <1>2 DEF LockExpires, Base, TypeOK, AppendsSome, At
<1>3. ASSUME NEW j \in Job, Die(j) PROVE Base'
  <2>1. "dead" \in Places BY DEF Places, Over
  <2>2. job' \in [Job -> MediaJob] /\ AppendsSome' BY <1>1, <1>3, <2>1, MoveType DEF Die
  <2> QED BY <1>1, <1>3, <2>2 DEF Die, Base, TypeOK, FaultKinds
<1>4. CASE UNCHANGED vars BY <1>1, <1>4 DEF vars, Base, TypeOK, AppendsSome, At
<1> QED BY <1>1, <1>2, <1>3, <1>4, RequestType, MakingType, MovieType DEF Next, JobStep

-----------------------------------------------------------------------------
(* What a step of a job leaves alone: other jobs, rows and files of other   *)
(* turns, and the turn of a job that was asked for.                         *)
Step(j) == PlayTurn(j) \/ Reroll(j) \/ RerollRequest(j) \/ JobStep(j) \/ Die(j)

LEMMA Frame ==
  ASSUME Base, NEW j \in Job, Step(j)
  PROVE  /\ \A i \in Job \ {j} : job'[i] = job[i]
         /\ \A t \in Turn \ {job[j].turn} : rows'[t] = rows[t] /\ files'[t] = files[t]
         /\ ~At(j, "idle") => job'[j].turn = job[j].turn /\ job'[j].kind = job[j].kind
         /\ mishaps \ {"skipped", "withdrawn"} \subseteq mishaps'
<1>0. /\ DOMAIN job = Job /\ DOMAIN rows = Turn /\ DOMAIN files = Turn
      /\ job[j].turn \in Turn
  BY DEF Base, TypeOK, MediaJob
<1> USE DEF At
<1>1. CASE PlayTurn(j) \/ Reroll(j) BY <1>0, <1>1 DEF PlayTurn, Reroll, Ask
<1>2. CASE RerollCommits(j) BY <1>0, <1>2 DEF RerollCommits
<1>3. CASE RerollQueued(j) BY <1>0, <1>3 DEF RerollQueued
<1>4. CASE RerollRefused(j) BY <1>0, <1>4 DEF RerollRefused
<1>5. CASE Start(j) BY <1>0, <1>5 DEF Start
<1>6. CASE OpenGenerate(j)
  <2> DEFINE met == job[j].read.status = "none" /\ rows[job[j].turn].status # "none"
  <2>1. CASE met
    <3>1. job' = [job EXCEPT ![j].pc = "over"] /\ rows' = rows
      BY <1>6, <2>1 DEF OpenGenerate
    <3>2. At(j, "open") /\ files' = files /\ mishaps' = mishaps BY <1>6 DEF OpenGenerate
    <3> QED BY <1>0, <2>1, <3>1, <3>2
  <2>2. CASE ~met
    <3>1. /\ rows' = [rows EXCEPT ![job[j].turn] = [Pending(j, @) EXCEPT !.text = j]]
          /\ job' = [job EXCEPT ![j].pc = "pipeline",
                                ![j].clip = [text |-> j, seed |-> StableSeed]]
      BY <1>6, <2>2 DEF OpenGenerate
    <3>2. At(j, "open") /\ files' = files /\ mishaps' = mishaps BY <1>6 DEF OpenGenerate
    <3> QED BY <1>0, <3>1, <3>2
  <2> QED BY <2>1, <2>2
<1>7. CASE OpenReroll(j) BY <1>0, <1>7 DEF OpenReroll
<1>8. CASE WriteFiles(j) BY <1>0, <1>8 DEF WriteFiles
<1>9. CASE MarkReady(j) BY <1>0, <1>9 DEF MarkReady
<1>10. CASE MarkFailed(j) BY <1>0, <1>10 DEF MarkFailed
<1>11. CASE LockMovie(j)
  <2>1. \E p \in {"scan", "over"} : job' = [job EXCEPT ![j].pc = p] BY <1>11 DEF LockMovie
  <2>2. rows' = rows /\ files' = files /\ mishaps \subseteq mishaps' BY <1>11 DEF LockMovie
  <2> QED BY <1>0, <2>1, <2>2
<1>12. CASE Scan(j) BY <1>0, <1>12 DEF Scan
<1>13. CASE AppendOne(j) BY <1>0, <1>13 DEF AppendOne
<1>14. CASE Rebuild(j) BY <1>0, <1>14 DEF Rebuild
<1>15. CASE ConcatFails(j) BY <1>0, <1>15 DEF ConcatFails
<1>16. CASE WriteState(j) BY <1>0, <1>16 DEF WriteState
<1>17. CASE UnlockMovie(j) BY <1>0, <1>17 DEF UnlockMovie
<1>18. CASE Die(j) BY <1>0, <1>18 DEF Die
<1>19. CASE Plan(j)
  <2>1. CASE state = job[j].want BY <1>0, <1>19, <2>1 DEF Plan
  <2>2. CASE state # job[j].want /\ IsExtension(job[j].want) BY <1>0, <1>19, <2>2 DEF Plan
  <2>3. CASE state # job[j].want /\ ~IsExtension(job[j].want) BY <1>0, <1>19, <2>3 DEF Plan
  <2> QED BY <2>1, <2>2, <2>3
<1> QED BY <1>1, <1>2, <1>3, <1>4, <1>5, <1>6, <1>7, <1>8, <1>9, <1>10, <1>11, <1>12, <1>13, <1>14, <1>15, <1>16, <1>17, <1>18, <1>19 DEF Step, JobStep, RerollRequest

-----------------------------------------------------------------------------
(* Pending rows.                                                            *)

(* A job that makes a row pending settles it, and goes on doing so until the *)
(* row is pending no more.                                                  *)
LEMMA SettlesOne ==
  ASSUME Base, NEW j \in Job, Step(j), Spared({"crash"})'
  PROVE  /\ \A t \in Turn : rows'[t].status = "pending" /\ rows[t].status # "pending"
              => job'[j].turn = t /\ Settles(j)'
         /\ Settles(j) => \/ Settles(j)' /\ job'[j].turn = job[j].turn
                          \/ rows'[job[j].turn].status # "pending"
<1>0. /\ DOMAIN job = Job /\ DOMAIN rows = Turn /\ job[j].turn \in Turn
      /\ job[j].kind \in {"generate", "reroll"} /\ DOMAIN rows[job[j].turn] = DOMAIN NoRow
  BY DEF Base, TypeOK, MediaJob, Row, NoRow
<1> USE DEF At, Settles
<1>1. CASE PlayTurn(j) \/ Reroll(j) BY <1>0, <1>1 DEF PlayTurn, Reroll, Ask
<1>2. CASE RerollCommits(j) BY <1>0, <1>2 DEF RerollCommits
<1>3. CASE RerollQueued(j) BY <1>0, <1>3 DEF RerollQueued
<1>4. CASE RerollRefused(j) BY <1>0, <1>4 DEF RerollRefused, NoRow
<1>5. CASE Start(j) BY <1>0, <1>5 DEF Start
<1>6. CASE OpenGenerate(j)
  <2> DEFINE met == job[j].read.status = "none" /\ rows[job[j].turn].status # "none"
  <2>1. CASE met
    <3>1. job' = [job EXCEPT ![j].pc = "over"] /\ rows' = rows
      BY <1>6, <2>1 DEF OpenGenerate
    <3>2. At(j, "open") /\ files' = files /\ mishaps' = mishaps BY <1>6 DEF OpenGenerate
    <3> QED BY <1>0, <2>1, <3>1, <3>2, <1>6 DEF OpenGenerate
  <2>2. CASE ~met
    <3>1. /\ rows' = [rows EXCEPT ![job[j].turn] = [Pending(j, @) EXCEPT !.text = j]]
          /\ job' = [job EXCEPT ![j].pc = "pipeline",
                                ![j].clip = [text |-> j, seed |-> StableSeed]]
      BY <1>6, <2>2 DEF OpenGenerate
    <3>2. At(j, "open") /\ files' = files /\ mishaps' = mishaps BY <1>6 DEF OpenGenerate
    <3> QED BY <1>0, <3>1, <3>2 DEF NoRow, Pending
  <2> QED BY <2>1, <2>2
<1>7. CASE OpenReroll(j) BY <1>0, <1>7 DEF OpenReroll
<1>8. CASE WriteFiles(j) BY <1>0, <1>8 DEF WriteFiles
<1>9. CASE MarkReady(j) BY <1>0, <1>9 DEF MarkReady, NoRow
<1>10. CASE MarkFailed(j) BY <1>0, <1>10 DEF MarkFailed, NoRow
<1>11. CASE LockMovie(j) BY <1>0, <1>11 DEF LockMovie
<1>12. CASE Scan(j) BY <1>0, <1>12 DEF Scan
<1>13. CASE Plan(j) BY <1>0, <1>13 DEF Plan
<1>14. CASE AppendOne(j) BY <1>0, <1>14 DEF AppendOne
<1>15. CASE Rebuild(j) BY <1>0, <1>15 DEF Rebuild
<1>16. CASE ConcatFails(j) BY <1>0, <1>16 DEF ConcatFails
<1>17. CASE WriteState(j) BY <1>0, <1>17 DEF WriteState
<1>18. CASE UnlockMovie(j) BY <1>0, <1>18 DEF UnlockMovie
<1>19. CASE Die(j) BY <1>0, <1>19 DEF Die, Spared
<1> QED BY <1>1, <1>2, <1>3, <1>4, <1>5, <1>6, <1>7, <1>8, <1>9, <1>10, <1>11, <1>12, <1>13, <1>14, <1>15, <1>16, <1>17, <1>18, <1>19
        DEF Step, JobStep, RerollRequest

(* A row becomes pending only in a step of a job that will settle it, and   *)
(* stays so until it does.                                                  *)
LEMMA PendingStep == Base /\ PendingSettles /\ [Next]_vars => PendingSettles'
<1>1. SUFFICES ASSUME Base, PendingSettles, [Next]_vars PROVE PendingSettles' OBVIOUS
<1>2. ASSUME NEW j \in Job, Step(j) PROVE PendingSettles'
  <2>1. SUFFICES ASSUME NEW t \in Turn, rows'[t].status = "pending", Spared({"crash"})'
                 PROVE  \E i \in Job : job'[i].turn = t /\ Settles(i)'
    BY DEF PendingSettles
  <2>2. Spared({"crash"}) BY <1>1, <1>2, <2>1, Frame DEF Spared
  <2>3. CASE rows[t].status # "pending" BY <1>1, <1>2, <2>1, <2>3, SettlesOne
  <2>4. CASE rows[t].status = "pending"
    <3>1. PICK i \in Job : job[i].turn = t /\ Settles(i)
      BY <1>1, <2>2, <2>4 DEF PendingSettles
    <3>2. CASE i = j BY <1>1, <1>2, <2>1, <3>1, <3>2, SettlesOne
    <3>3. CASE i # j
      <4>1. job'[i] = job[i] BY <1>1, <1>2, <3>3, Frame
      <4> QED BY <3>1, <4>1 DEF Settles, At
    <3> QED BY <3>2, <3>3
  <2> QED BY <2>3, <2>4
<1>3. CASE LockExpires \/ UNCHANGED vars
  BY <1>1, <1>3 DEF LockExpires, vars, PendingSettles, Settles, At, Spared
<1> QED BY <1>1, <1>2, <1>3 DEF Next, Step

(* Every state is well typed, for any jobs, turns and faults.               *)
THEOREM Types == Spec => []TypeOK
<1>1. Init => Base BY InitBase
<1>2. Base => TypeOK BY DEF Base
<1> QED BY <1>1, <1>2, TypeStep, PTL DEF Spec

(* Whatever the number of jobs and the faults, media that is shown as       *)
(* pending is being made until a worker dies.                               *)
THEOREM PendingSettled == Spec => []PendingHasJob
<1>1. Init => Base /\ PendingSettles
  BY InitBase DEF Init, PendingSettles, NoRow
<1>2. Base /\ PendingSettles /\ [Next]_vars => (Base /\ PendingSettles)'
  BY TypeStep, PendingStep
<1>3. Base /\ PendingSettles => PendingHasJob
  BY DEF PendingSettles, PendingHasJob, Settles, At, Over
<1> QED BY <1>1, <1>2, <1>3, PTL DEF Spec

-----------------------------------------------------------------------------
(* Re-rolls.                                                                *)

Asks(j) == PlayTurn(j) \/ Reroll(j)

(* Only who was asked for and is not over has a step to take.               *)
LEMMA Started ==
  ASSUME NEW j \in Job, Step(j), ~Asks(j)
  PROVE  job[j].pc \notin Over
<1> USE DEF At, Over
<1>1. CASE RerollRequest(j)
  BY <1>1 DEF RerollRequest, RerollCommits, RerollQueued, RerollRefused
<1>2. CASE Start(j) \/ OpenGenerate(j) \/ OpenReroll(j)
  BY <1>2 DEF Start, OpenGenerate, OpenReroll
<1>3. CASE WriteFiles(j) \/ MarkReady(j) \/ MarkFailed(j)
  BY <1>3 DEF WriteFiles, MarkReady, MarkFailed
<1>4. CASE LockMovie(j) \/ Scan(j) \/ Plan(j) BY <1>4 DEF LockMovie, Scan, Plan
<1>5. CASE AppendOne(j) \/ Rebuild(j) \/ ConcatFails(j)
  BY <1>5 DEF AppendOne, Rebuild, ConcatFails
<1>6. CASE WriteState(j) \/ UnlockMovie(j) \/ Die(j)
  BY <1>6 DEF WriteState, UnlockMovie, Die
<1> QED BY <1>1, <1>2, <1>3, <1>4, <1>5, <1>6 DEF Step, JobStep, Asks

(* Who is asked for, and did not overlap, is alone with its turn.           *)
LEMMA AskedAlone ==
  ASSUME Base, NEW j \in Job, Asks(j), Spared({"overlap"})'
  PROVE  /\ \A i \in Job : job[i].turn = job'[j].turn => job[i].pc \in Over
         /\ At(j, "idle") /\ rows' = rows /\ files' = files
         /\ job'[j].pc \in {"queued", "over", "asked"}
<1>1. PICK k \in {"generate", "reroll"}, t \in Turn, where \in {"queued", "over", "asked"} :
        Ask(j, k, t, where)
  BY DEF Asks, PlayTurn, Reroll
<1>2. job'[j].turn = t /\ job'[j].pc = where BY <1>1 DEF Ask, Base, TypeOK, Idle
<1>3. "overlap" \notin mishaps' BY DEF Spared
<1>4. \A i \in Job : ~(job[i].turn = t /\ job[i].pc \notin Over) BY <1>1, <1>3 DEF Ask
<1>5. At(j, "idle") BY <1>1 DEF Ask
<1>6. rows' = rows /\ files' = files BY DEF Asks, PlayTurn, Reroll
<1> QED BY <1>2, <1>4, <1>5, <1>6

(* A job for a turn that has one is an overlap, and no other step starts a  *)
(* job.                                                                     *)
LEMMA OneJobStep == Base /\ OneJobPerTurn /\ [Next]_vars => OneJobPerTurn'
<1>1. SUFFICES ASSUME Base, OneJobPerTurn, [Next]_vars, Spared({"overlap"})'
               PROVE  OneJobPerTurn'
  BY DEF OneJobPerTurn
<1>2. ASSUME NEW j \in Job, Step(j) PROVE OneJobPerTurn'
  <2>1. Spared({"overlap"}) BY <1>1, <1>2, Frame DEF Spared
  <2>2. \A i, k \in Job : i # k /\ job[i].pc \notin Over /\ job[k].pc \notin Over
          => job[i].turn # job[k].turn
    BY <1>1, <2>1 DEF OneJobPerTurn
  <2>3. \A i \in Job \ {j} : job'[i] = job[i] BY <1>1, <1>2, Frame
  <2>4. CASE Asks(j)
    <3>1. \A i \in Job : job[i].turn = job'[j].turn => job[i].pc \in Over
      BY <1>1, <2>4, AskedAlone
    <3> QED BY <2>2, <2>3, <3>1 DEF OneJobPerTurn
  <2>5. CASE ~Asks(j)
    <3>1. job[j].pc \notin Over BY <1>2, <2>5, Started
    <3>2. job'[j].turn = job[j].turn BY <1>1, <1>2, <3>1, Frame DEF At, Over
    <3> QED BY <2>2, <2>3, <3>1, <3>2 DEF OneJobPerTurn
  <2> QED BY <2>4, <2>5
<1>3. CASE LockExpires \/ UNCHANGED vars
  BY <1>1, <1>3 DEF LockExpires, vars, OneJobPerTurn, Spared
<1> QED BY <1>1, <1>2, <1>3 DEF Next, Step

NoTrouble == Spared({"overlap", "dbfail", "crash"})

\* What a job that is alone with its turn t knows of row and files.
SeedsOf(j, t) ==
  /\ files[t].seed = rows[t].seed \/ At(j, "written")
  /\ At(j, "open") => job[j].read.seed = rows[t].seed
  /\ At(j, "pipeline") /\ job[j].kind = "reroll" => job[j].clip.seed # rows[t].seed
  /\ At(j, "written") => files[t].seed = job[j].clip.seed

(* A job's own step keeps what it knows of the row and the files of its     *)
(* turn.                                                                    *)
LEMMA SeedsOne ==
  ASSUME Base, NEW j \in Job, Step(j), ~Asks(j), NoTrouble', SeedsOf(j, job[j].turn)
  PROVE  SeedsOf(j, job[j].turn)'
<1> DEFINE t == job[j].turn
<1>0. /\ DOMAIN job = Job /\ DOMAIN rows = Turn /\ DOMAIN files = Turn /\ t \in Turn
      /\ job[j].kind \in {"generate", "reroll"} /\ rows[t] \in Row /\ job[j].read \in Row
      /\ job[j] \in MediaJob
  BY DEF Base, TypeOK, MediaJob
<1>a. job'[j].turn = t /\ job'[j].kind = job[j].kind
  <2>1. job[j].pc \notin Over BY Started
  <2> QED BY <2>1, Frame DEF At, Over
<1>b. "dbfail" \notin mishaps' /\ "crash" \notin mishaps' BY DEF NoTrouble, Spared
<1>c. Pending(j, rows[t]) \in Row /\ Pending(j, rows[t]).seed = rows[t].seed
  BY <1>0, PendingType
<1> USE DEF At, SeedsOf
<1>1. CASE RerollCommits(j)
  <2>1. rows' = [rows EXCEPT ![t] = Pending(j, rows[t])] BY <1>1 DEF RerollCommits
  <2>2. rows'[t].seed = rows[t].seed BY <1>0, <1>c, <2>1
  <2> QED BY <1>0, <1>a, <1>1, <2>2 DEF RerollCommits
<1>2. CASE RerollQueued(j) BY <1>0, <1>a, <1>b, <1>2 DEF RerollQueued
<1>3. CASE RerollRefused(j) BY <1>0, <1>a, <1>b, <1>3 DEF RerollRefused
<1>4. CASE Start(j) BY <1>0, <1>a, <1>b, <1>4 DEF Start
<1>5. CASE OpenGenerate(j)
  <2>a. \/ job' = [job EXCEPT ![j].pc = "over"]
        \/ job' = [job EXCEPT ![j].pc = "pipeline",
                              ![j].clip = [text |-> j, seed |-> StableSeed]]
    BY <1>5 DEF OpenGenerate
  <2>b. job'[j].pc \in {"over", "pipeline"} BY <1>0, <2>a DEF MediaJob
  <2>0. /\ At(j, "open") /\ job[j].kind = "generate" /\ files' = files
        /\ job'[j].pc \in {"over", "pipeline"}
    BY <1>5, <2>b DEF OpenGenerate
  <2>1. rows'[t].seed = rows[t].seed
    <3>1. CASE rows' = rows BY <3>1
    <3>2. CASE rows' = [rows EXCEPT ![t] = [Pending(j, rows[t]) EXCEPT !.text = j]]
      <4>1. [Pending(j, rows[t]) EXCEPT !.text = j].seed = rows[t].seed BY <1>c DEF Row
      <4> QED BY <1>0, <3>2, <4>1
    <3> QED BY <1>5, <3>1, <3>2 DEF OpenGenerate
  <2> QED BY <1>0, <1>a, <2>0, <2>1
<1>6. CASE OpenReroll(j)
  <2>1. rows' = [rows EXCEPT ![t] = Pending(j, rows[t])] BY <1>6 DEF OpenReroll
  <2>2. rows'[t].seed = rows[t].seed BY <1>0, <1>c, <2>1
  <2>3. NewSeed(job[j].read.seed) # job[j].read.seed
    BY <1>0 DEF NewSeed, RerollSeed, NoSeed, Row
  <2>4. job'[j].pc = "pipeline" /\ job'[j].clip.seed = NewSeed(job[j].read.seed)
    BY <1>0, <1>6 DEF OpenReroll, MediaJob
  <2>5. At(j, "open") /\ files' = files BY <1>6 DEF OpenReroll
  <2> QED BY <1>a, <2>2, <2>3, <2>4, <2>5
<1>7. CASE WriteFiles(j) BY <1>0, <1>a, <1>b, <1>7 DEF WriteFiles
<1>8. CASE MarkReady(j) BY <1>0, <1>a, <1>b, <1>8 DEF MarkReady
<1>9. CASE MarkFailed(j) BY <1>0, <1>a, <1>b, <1>9 DEF MarkFailed
<1>10. CASE LockMovie(j)
  <2>0. \E p \in {"scan", "over"} : job' = [job EXCEPT ![j].pc = p] BY <1>10 DEF LockMovie
  <2>1. job'[j].pc \in {"scan", "over"} BY <1>0, <2>0
  <2>2. At(j, "movie") /\ rows' = rows /\ files' = files BY <1>10 DEF LockMovie
  <2> QED BY <1>a, <2>1, <2>2
<1>11. CASE Scan(j) BY <1>0, <1>a, <1>b, <1>11 DEF Scan
<1>12. CASE Plan(j) BY <1>0, <1>a, <1>b, <1>12 DEF Plan
<1>13. CASE AppendOne(j) BY <1>0, <1>a, <1>b, <1>13 DEF AppendOne
<1>14. CASE Rebuild(j) BY <1>0, <1>a, <1>b, <1>14 DEF Rebuild
<1>15. CASE ConcatFails(j) BY <1>0, <1>a, <1>b, <1>15 DEF ConcatFails
<1>16. CASE WriteState(j) BY <1>0, <1>a, <1>b, <1>16 DEF WriteState
<1>17. CASE UnlockMovie(j) BY <1>0, <1>a, <1>b, <1>17 DEF UnlockMovie
<1>18. CASE Die(j) BY <1>b, <1>18 DEF Die
<1> QED BY <1>1, <1>2, <1>3, <1>4, <1>5, <1>6, <1>7, <1>8, <1>9, <1>10, <1>11, <1>12, <1>13, <1>14, <1>15, <1>16, <1>17, <1>18
        DEF Asks, Step, JobStep, RerollRequest

(* A step of a job touches its own turn only, of which it is the only job.  *)
LEMMA SeedsStep ==
  Base /\ OneJobPerTurn /\ SeedsAgree /\ [Next]_vars => SeedsAgree'
<1>1. SUFFICES ASSUME Base, OneJobPerTurn, SeedsAgree, [Next]_vars, NoTrouble'
               PROVE  SeedsAgree'
  BY DEF SeedsAgree, NoTrouble
<1>2. ASSUME NEW j \in Job, Step(j) PROVE SeedsAgree'
  <2>1. NoTrouble /\ Spared({"overlap"})
    BY <1>1, <1>2, Frame DEF Spared, NoTrouble
  <2>2. \A i, k \in Job : i # k /\ job[i].pc \notin Over /\ job[k].pc \notin Over
          => job[i].turn # job[k].turn
    BY <1>1, <2>1 DEF OneJobPerTurn
  <2>3. /\ \A t \in Turn : \/ files[t].seed = rows[t].seed
                           \/ \E i \in Job : job[i].turn = t /\ At(i, "written")
        /\ \A i \in Job :
             /\ At(i, "open") => job[i].read.seed = rows[job[i].turn].seed
             /\ At(i, "pipeline") /\ job[i].kind = "reroll"
                  => job[i].clip.seed # rows[job[i].turn].seed
             /\ At(i, "written") => files[job[i].turn].seed = job[i].clip.seed
    BY <1>1, <2>1 DEF SeedsAgree, NoTrouble
  <2>4. /\ \A i \in Job \ {j} : job'[i] = job[i]
        /\ \A t \in Turn \ {job[j].turn} : rows'[t] = rows[t] /\ files'[t] = files[t]
    BY <1>1, <1>2, Frame
  <2>5. \A i \in Job : job[i].turn \in Turn BY <1>1 DEF Base, TypeOK, MediaJob
  <2>6. CASE Asks(j)
    <3>1. /\ At(j, "idle") /\ rows' = rows /\ files' = files
          /\ job'[j].pc \in {"queued", "over", "asked"}
      <4>1. Spared({"overlap"})' BY <1>1 DEF NoTrouble, Spared
      <4> QED BY <1>1, <2>6, <4>1, AskedAlone
    <3>2. \A t \in Turn : \/ files'[t].seed = rows'[t].seed
                          \/ \E i \in Job : job'[i].turn = t /\ At(i, "written")'
      BY <2>3, <2>4, <3>1 DEF At
    <3> QED BY <2>3, <2>4, <3>1, <3>2 DEF SeedsAgree, At
  <2>7. CASE ~Asks(j)
    <3>1. job[j].pc \notin Over BY <1>2, <2>7, Started
    <3>2. job'[j].turn = job[j].turn BY <1>1, <1>2, <3>1, Frame DEF At, Over
    <3>3. \A i \in Job \ {j} : job[i].pc \notin Over => job[i].turn # job[j].turn
      BY <2>2, <3>1
    <3>4. SeedsOf(j, job[j].turn) BY <2>3, <2>5, <3>3 DEF SeedsOf, At, Over
    <3>5. SeedsOf(j, job[j].turn)' BY <1>1, <1>2, <2>7, <3>4, SeedsOne
    <3>6. ASSUME NEW t \in Turn
          PROVE  \/ files'[t].seed = rows'[t].seed
                 \/ \E i \in Job : job'[i].turn = t /\ At(i, "written")'
      <4>1. CASE t = job[j].turn BY <3>2, <3>5, <4>1 DEF SeedsOf
      <4>2. CASE t # job[j].turn BY <2>3, <2>4, <4>2 DEF At
      <4> QED BY <4>1, <4>2
    <3>7. ASSUME NEW i \in Job
          PROVE  /\ At(i, "open")' => job'[i].read.seed = rows'[job'[i].turn].seed
                 /\ At(i, "pipeline")' /\ job'[i].kind = "reroll"
                      => job'[i].clip.seed # rows'[job'[i].turn].seed
                 /\ At(i, "written")' => files'[job'[i].turn].seed = job'[i].clip.seed
      <4>1. CASE i = j BY <3>2, <3>5, <4>1 DEF SeedsOf
      <4>2. CASE i # j
        <5>1. CASE job[i].pc \in Over BY <2>4, <4>2, <5>1 DEF At, Over
        <5>2. CASE job[i].pc \notin Over
          <6>1. rows'[job[i].turn] = rows[job[i].turn] /\ files'[job[i].turn] = files[job[i].turn]
            BY <2>4, <2>5, <3>3, <4>2, <5>2
          <6> QED BY <2>3, <2>4, <4>2, <6>1 DEF At
        <5> QED BY <5>1, <5>2
      <4> QED BY <4>1, <4>2
    <3> QED BY <3>6, <3>7 DEF SeedsAgree
  <2> QED BY <2>6, <2>7
<1>3. CASE LockExpires \/ UNCHANGED vars
  BY <1>1, <1>3 DEF LockExpires, vars, SeedsAgree, NoTrouble, Spared, At
<1> QED BY <1>1, <1>2, <1>3 DEF Next, Step

(* A re-roll never writes the clip the turn had, for any number of jobs, as *)
(* long as none overlap and none is lost on its way.                        *)
THEOREM RerollIsNew == Spec => RerollDiffers
<1> DEFINE Known == Base /\ OneJobPerTurn /\ SeedsAgree
           A == \A j \in Job : At(j, "pipeline") /\ job'[j].pc = "written"
                     /\ job[j].kind = "reroll" /\ Spared({"overlap", "dbfail", "crash"})
                  => files[job[j].turn] # job[j].clip
<1>1. Init => Known
  BY InitBase DEF Init, OneJobPerTurn, SeedsAgree, NoRow, NoClip, Idle, Over, At
<1>2. Known /\ [Next]_vars => Known' BY TypeStep, OneJobStep, SeedsStep
<1>3. Known => A
  <2>1. SUFFICES ASSUME Known, NEW j \in Job, At(j, "pipeline"), job[j].kind = "reroll",
                        Spared({"overlap", "dbfail", "crash"})
                 PROVE  files[job[j].turn].seed # job[j].clip.seed
    OBVIOUS
  <2>2. job[j].turn \in Turn BY <2>1 DEF Base, TypeOK, MediaJob
  <2>3. Spared({"overlap"}) BY <2>1 DEF Spared
  <2>4. \A i \in Job : ~(job[i].turn = job[j].turn /\ At(i, "written"))
    BY <2>1, <2>3 DEF OneJobPerTurn, At, Over
  <2>5. files[job[j].turn].seed = rows[job[j].turn].seed BY <2>1, <2>2, <2>4 DEF SeedsAgree
  <2> QED BY <2>1, <2>5 DEF SeedsAgree
<1>4. Known /\ [Next]_vars => [A]_vars BY <1>3
<1> QED BY <1>1, <1>2, <1>4, PTL DEF Spec, RerollDiffers

-----------------------------------------------------------------------------
(* The movie.                                                               *)

(* A step takes the lock when it is free, or belongs to who works on the    *)
(* movie.                                                                   *)
LEMMA LockFrame ==
  ASSUME Base, NEW j \in Job, Step(j)
  PROVE  /\ job'[j].pc \in InMovie => \/ job[j].pc \in InMovie /\ lock' = lock
                                      \/ lock = None /\ lock' = j
         /\ lock' # lock => (lock = None /\ lock' = j) \/ job[j].pc \in InMovie
<1>0. DOMAIN job = Job /\ job[j] \in MediaJob BY DEF Base, TypeOK
<1> USE DEF At, InMovie
<1>1. CASE Asks(j)
  <2>1. PICK k \in {"generate", "reroll"}, t \in Turn, where \in {"queued", "over", "asked"} :
          Ask(j, k, t, where)
    BY <1>1 DEF Asks, PlayTurn, Reroll
  <2>2. job'[j].pc = where BY <1>0, <2>1 DEF Ask, Idle
  <2>3. lock' = lock BY <1>1 DEF Asks, PlayTurn, Reroll
  <2> QED BY <2>2, <2>3
<1>2. CASE RerollCommits(j) BY <1>0, <1>2 DEF RerollCommits
<1>3. CASE RerollQueued(j) BY <1>0, <1>3 DEF RerollQueued
<1>4. CASE RerollRefused(j) BY <1>0, <1>4 DEF RerollRefused
<1>5. CASE Start(j) BY <1>0, <1>5 DEF Start
<1>6. CASE OpenGenerate(j)
  <2>1. \/ job' = [job EXCEPT ![j].pc = "over"]
        \/ job' = [job EXCEPT ![j].pc = "pipeline",
                              ![j].clip = [text |-> j, seed |-> StableSeed]]
    BY <1>6 DEF OpenGenerate
  <2>2. job'[j].pc \in {"over", "pipeline"} BY <1>0, <2>1 DEF MediaJob
  <2> QED BY <1>6, <2>2 DEF OpenGenerate
<1>7. CASE OpenReroll(j) BY <1>0, <1>7 DEF OpenReroll
<1>8. CASE WriteFiles(j) BY <1>0, <1>8 DEF WriteFiles
<1>9. CASE MarkReady(j) BY <1>0, <1>9 DEF MarkReady
<1>10. CASE MarkFailed(j) BY <1>0, <1>10 DEF MarkFailed
<1>11. CASE LockMovie(j)
  <2>1. CASE lock = None BY <1>11, <2>1 DEF LockMovie
  <2>2. CASE lock # None
    <3>1. job' = [job EXCEPT ![j].pc = "over"] /\ lock' = lock BY <1>11, <2>2 DEF LockMovie
    <3> QED BY <1>0, <3>1
  <2> QED BY <2>1, <2>2
<1>12. CASE Scan(j) BY <1>0, <1>12 DEF Scan
<1>13. CASE Plan(j) BY <1>0, <1>13 DEF Plan
<1>14. CASE AppendOne(j) BY <1>0, <1>14 DEF AppendOne
<1>15. CASE Rebuild(j) BY <1>0, <1>15 DEF Rebuild
<1>16. CASE ConcatFails(j) BY <1>0, <1>16 DEF ConcatFails
<1>17. CASE WriteState(j) BY <1>0, <1>17 DEF WriteState
<1>18. CASE UnlockMovie(j) BY <1>0, <1>18 DEF UnlockMovie
<1>19. CASE Die(j) BY <1>0, <1>19 DEF Die
<1> QED BY <1>1, <1>2, <1>3, <1>4, <1>5, <1>6, <1>7, <1>8, <1>9, <1>10, <1>11, <1>12, <1>13, <1>14, <1>15, <1>16, <1>17, <1>18, <1>19
        DEF Asks, Step, JobStep, RerollRequest

(* The lock is taken when it is free, and given up by its holder, or by its *)
(* TTL when the holder is gone.                                             *)
LEMMA LockStep ==
  ASSUME "lease" \notin Faults
  PROVE  Base /\ HoldsLock /\ [Next]_vars => HoldsLock'
<1>1. SUFFICES ASSUME Base, HoldsLock, [Next]_vars PROVE HoldsLock' OBVIOUS
<1>2. ASSUME NEW j \in Job, Step(j) PROVE HoldsLock'
  <2>1. \A i \in Job \ {j} : job'[i] = job[i] BY <1>1, <1>2, Frame
  <2>2. j # None BY NoneAssumption
  <2> QED BY <1>1, <1>2, <2>1, <2>2, LockFrame, NoneAssumption DEF HoldsLock
<1>3. CASE LockExpires
  <2>1. job[lock].pc = "dead" /\ job' = job BY <1>3 DEF LockExpires
  <2>2. \A i \in Job : job[i].pc \notin InMovie BY <1>1, <2>1 DEF HoldsLock, InMovie
  <2> QED BY <2>1, <2>2 DEF HoldsLock
<1>4. CASE UNCHANGED vars BY <1>1, <1>4 DEF vars, HoldsLock
<1> QED BY <1>1, <1>2, <1>3, <1>4 DEF Next, Step

Segments == [turn : Turn, clip : Clip]

(* The turns of a movie.                                                    *)
LEMMA TurnsType ==
  ASSUME NEW m \in Seq(Segments)
  PROVE  /\ Turns(m) \in Seq(Turn) /\ Len(Turns(m)) = Len(m)
         /\ \A i \in 1..Len(m) : Turns(m)[i] = m[i].turn
<1>1. Len(m) \in Nat /\ \A i \in 1..Len(m) : m[i] \in Segments
  BY LenProperties, ElementOfSeq
<1>2. \A i \in 1..Len(m) : m[i].turn \in Turn BY <1>1 DEF Segments
<1>3. Turns(m) \in Seq(Turn) BY <1>1, <1>2, IsASeq DEF Turns
<1>4. DOMAIN Turns(m) = 1..Len(m) BY DEF Turns
<1>5. Len(Turns(m)) \in Nat /\ DOMAIN Turns(m) = 1..Len(Turns(m)) BY <1>3, LenProperties
<1>6. Len(Turns(m)) = Len(m) BY <1>1, <1>4, <1>5
<1> QED BY <1>3, <1>6 DEF Turns

\* The steps that work on the movie file or its state file, or may die of it.
Works(j) ==
  Plan(j) \/ AppendOne(j) \/ Rebuild(j) \/ ConcatFails(j) \/ WriteState(j) \/ Die(j)

(* The others leave both alone.                                             *)
LEMMA MovieFrame ==
  ASSUME Base, NEW j \in Job, Step(j), ~Works(j)
  PROVE  /\ movie' = movie /\ state' = state
         /\ job[j].pc \notin Extending /\ (job'[j].pc \in Extending => At(j, "scan"))
         /\ job[j].pc \notin {"append", "state"} /\ job'[j].pc \notin {"append", "state"}
<1>0. DOMAIN job = Job /\ job[j] \in MediaJob BY DEF Base, TypeOK
<1> USE DEF At, Extending
<1>1. CASE Asks(j)
  <2>1. PICK k \in {"generate", "reroll"}, t \in Turn, where \in {"queued", "over", "asked"} :
          Ask(j, k, t, where)
    BY <1>1 DEF Asks, PlayTurn, Reroll
  <2>2. job'[j].pc = where /\ At(j, "idle") BY <1>0, <2>1 DEF Ask, Idle
  <2>3. movie' = movie /\ state' = state BY <1>1 DEF Asks, PlayTurn, Reroll
  <2> QED BY <2>2, <2>3
<1>2. CASE RerollCommits(j) BY <1>0, <1>2 DEF RerollCommits
<1>3. CASE RerollQueued(j) BY <1>0, <1>3 DEF RerollQueued
<1>4. CASE RerollRefused(j) BY <1>0, <1>4 DEF RerollRefused
<1>5. CASE Start(j) BY <1>0, <1>5 DEF Start
<1>6. CASE OpenGenerate(j)
  <2>1. \/ job' = [job EXCEPT ![j].pc = "over"]
        \/ job' = [job EXCEPT ![j].pc = "pipeline",
                              ![j].clip = [text |-> j, seed |-> StableSeed]]
    BY <1>6 DEF OpenGenerate
  <2>2. job'[j].pc \in {"over", "pipeline"} BY <1>0, <2>1 DEF MediaJob
  <2> QED BY <1>6, <2>2 DEF OpenGenerate
<1>7. CASE OpenReroll(j) BY <1>0, <1>7 DEF OpenReroll
<1>8. CASE WriteFiles(j) BY <1>0, <1>8 DEF WriteFiles
<1>9. CASE MarkReady(j) BY <1>0, <1>9 DEF MarkReady
<1>10. CASE MarkFailed(j) BY <1>0, <1>10 DEF MarkFailed
<1>11. CASE LockMovie(j)
  <2>1. \E p \in {"scan", "over"} : job' = [job EXCEPT ![j].pc = p] BY <1>11 DEF LockMovie
  <2>2. job'[j].pc \in {"scan", "over"} BY <1>0, <2>1
  <2> QED BY <1>11, <2>2 DEF LockMovie
<1>12. CASE Scan(j)
  <2>1. \/ job' = [job EXCEPT ![j].pc = "unlock"]
        \/ job' = [job EXCEPT ![j].pc = "plan", ![j].want = Contiguous(ReadyTurns)]
    BY <1>12 DEF Scan
  <2>2. job'[j].pc \in {"unlock", "plan"} BY <1>0, <2>1 DEF MediaJob
  <2> QED BY <1>12, <2>2 DEF Scan
<1>13. CASE UnlockMovie(j) BY <1>0, <1>13 DEF UnlockMovie
<1> QED BY <1>1, <1>2, <1>3, <1>4, <1>5, <1>6, <1>7, <1>8, <1>9, <1>10, <1>11, <1>12, <1>13
        DEF Asks, Step, JobStep, RerollRequest, Works

NoMess == Spared({"ffmpeg", "crash"})

\* What a job that works on the movie knows of it.
MovieOf(j) ==
  /\ At(j, "append") =>
       /\ Len(job[j].want) = Len(movie) + Len(job[j].left)
       /\ \A i \in 1..Len(movie) : job[j].want[i] = movie[i].turn
       /\ \A i \in 1..Len(job[j].left) : job[j].want[Len(movie) + i] = job[j].left[i]
  /\ At(j, "state") => job[j].want = Turns(movie)
  /\ ~At(j, "append") /\ ~At(j, "state") => state = Turns(movie)

(* The turns of two movies, compared one by one.                            *)
LEMMA SameTurns ==
  ASSUME NEW m \in Seq(Segments), NEW want \in Seq(Turn), Len(want) = Len(m),
         \A i \in 1..Len(m) : want[i] = m[i].turn
  PROVE  want = Turns(m)
BY TurnsType, SeqEqual

(* One segment more in the movie, one less to append: together they stay    *)
(* what is wanted.                                                          *)
LEMMA AppendKnows ==
  ASSUME Base, NEW j \in Job, AppendOne(j), MovieOf(j)
  PROVE  MovieOf(j)'
<1> DEFINE want == job[j].want
           left == job[j].left
           new == Segment(Head(left))
           longer == Append(movie, new)
           n == Len(movie)
<1>1. /\ DOMAIN job = Job /\ job[j] \in MediaJob /\ movie \in Seq(Segments)
      /\ want \in Seq(Turn) /\ left \in Seq(Turn) /\ left # <<>>
  BY DEF Base, TypeOK, AppendsSome, MediaJob, AppendOne, Segments
<1>2. /\ Head(left) = left[1] /\ Head(left) \in Turn /\ Tail(left) \in Seq(Turn)
      /\ Len(Tail(left)) = Len(left) - 1 /\ \A i \in 1..Len(Tail(left)) : Tail(left)[i] = left[i + 1]
  BY <1>1, HeadTailProperties
<1>3. n \in Nat /\ Len(left) \in Nat /\ Len(left) > 0
  BY <1>1, LenProperties, EmptySeq
<1>4. new \in Segments /\ new.turn = left[1]
  BY <1>2 DEF Segment, Segments, Base, TypeOK
<1>5. /\ longer \in Seq(Segments) /\ Len(longer) = n + 1
      /\ \A i \in 1..n : longer[i] = movie[i] /\ longer[n + 1] = new
  BY <1>1, <1>4, AppendProperties
<1>6. /\ Len(want) = n + Len(left)
      /\ \A i \in 1..n : want[i] = movie[i].turn
      /\ \A i \in 1..Len(left) : want[n + i] = left[i]
  BY DEF MovieOf, AppendOne, At
<1>7. longer[n + 1] = new BY <1>1, <1>4, AppendProperties
<1>8. movie' = longer /\ state' = state BY DEF AppendOne
<1>9. \A i \in 1..(n + 1) : want[i] = longer[i].turn
  <2> TAKE i \in 1..(n + 1)
  <2> HIDE DEF want, left, new, longer, n
  <2>1. CASE i = n + 1
    <3>1. want[n + 1] = left[1] BY <1>3, <1>6
    <3> QED BY <1>4, <1>7, <2>1, <3>1
  <2>2. CASE i # n + 1
    <3>1. i \in 1..n BY <1>3, <2>2
    <3> QED BY <1>5, <1>6, <3>1
  <2> QED BY <2>1, <2>2
<1>10. CASE Len(left) = 1
  <2>1. job'[j].pc = "state" /\ job'[j].want = want
    BY <1>1, <1>10 DEF AppendOne, MediaJob
  <2>2. want = Turns(longer)
    <3> HIDE DEF want, left, new, longer, n
    <3>1. Len(want) = Len(longer) BY <1>3, <1>5, <1>6, <1>10
    <3> QED BY <1>1, <1>5, <1>9, <3>1, SameTurns
  <2> QED BY <1>8, <2>1, <2>2 DEF MovieOf, At
<1>11. CASE Len(left) # 1
  <2>1. job'[j].pc = "append" /\ job'[j].want = want /\ job'[j].left = Tail(left)
    BY <1>1, <1>11 DEF AppendOne, MediaJob, At
  <2>2. Len(want) = Len(longer) + Len(Tail(left))
    <3> HIDE DEF want, left, new, longer, n
    <3> QED BY <1>2, <1>3, <1>5, <1>6
  <2>3. \A i \in 1..Len(longer) : want[i] = longer[i].turn
    <3> HIDE DEF want, left, new, longer, n
    <3> QED BY <1>5, <1>9
  <2>4. \A i \in 1..Len(Tail(left)) : want[Len(longer) + i] = Tail(left)[i]
    <3> TAKE i \in 1..Len(Tail(left))
    <3> HIDE DEF want, left, new, longer, n
    <3>1. i + 1 \in 1..Len(left) BY <1>2, <1>3
    <3>2. want[n + (i + 1)] = left[i + 1] BY <1>6, <3>1
    <3>3. i \in Nat /\ n + (i + 1) = (n + 1) + i BY <1>2, <1>3
    <3> QED BY <1>2, <1>5, <3>2, <3>3
  <2> QED BY <1>8, <2>1, <2>2, <2>3, <2>4 DEF MovieOf, At
<1> QED BY <1>10, <1>11

(* Each step of the lock's holder keeps movie, state file and what is       *)
(* wanted in agreement.                                                     *)
LEMMA WorksKnows ==
  ASSUME Base, NEW j \in Job, Works(j), MovieOf(j), NoMess'
  PROVE  MovieOf(j)'
<1> DEFINE want == job[j].want
<1>1. /\ DOMAIN job = Job /\ job[j] \in MediaJob /\ movie \in Seq(Segments)
      /\ want \in Seq(Turn) /\ state \in Seq(Turn)
  BY DEF Base, TypeOK, MediaJob, Segments
<1>2. CASE Plan(j)
  <2>0. state = Turns(movie) /\ movie' = movie /\ state' = state
    BY <1>2 DEF MovieOf, Plan, At
  <2>1. CASE state = want
    <3>1. job' = [job EXCEPT ![j].pc = "unlock"] BY <1>2, <2>1 DEF Plan
    <3>2. job'[j].pc = "unlock" BY <1>1, <3>1 DEF MediaJob
    <3> QED BY <2>0, <3>2 DEF MovieOf, At
  <2>2. CASE state # want /\ IsExtension(want)
    <3>1. job' = [job EXCEPT ![j].pc = "append", ![j].left = NotBaked(want)]
      BY <1>2, <2>2 DEF Plan
    <3>2. job'[j].pc = "append" /\ job'[j].want = want /\ job'[j].left = NotBaked(want)
      BY <1>1, <3>1 DEF MediaJob
    <3>3. /\ Len(want) = Len(state) + Len(NotBaked(want))
          /\ \A i \in 1..Len(state) : want[i] = state[i]
          /\ \A i \in 1..Len(NotBaked(want)) : want[Len(state) + i] = NotBaked(want)[i]
      BY <1>1, <2>2, ToAppend
    <3>4. Len(state) = Len(movie) /\ \A i \in 1..Len(movie) : state[i] = movie[i].turn
      BY <1>1, <2>0, TurnsType
    <3> QED BY <2>0, <3>2, <3>3, <3>4 DEF MovieOf, At
  <2>3. CASE state # want /\ ~IsExtension(want)
    <3>1. job' = [job EXCEPT ![j].pc = "rebuild"] BY <1>2, <2>3 DEF Plan
    <3>2. job'[j].pc = "rebuild" BY <1>1, <3>1 DEF MediaJob
    <3> QED BY <2>0, <3>2 DEF MovieOf, At
  <2> QED BY <2>1, <2>2, <2>3
<1>3. CASE AppendOne(j) BY <1>3, AppendKnows
<1>4. CASE Rebuild(j)
  <2>1. job'[j].pc = "state" /\ job'[j].want = want BY <1>1, <1>4 DEF Rebuild, MediaJob
  <2>2. movie' \in Seq(Segments) BY <1>4, MovieType DEF Base, TypeOK, Segments
  <2>3. movie' = [i \in 1..Len(want) |-> Segment(want[i])] BY <1>4 DEF Rebuild
  <2>4. Len(want) \in Nat /\ Len(movie') \in Nat /\ DOMAIN movie' = 1..Len(movie')
    BY <1>1, <2>2, LenProperties
  <2>5. Len(movie') = Len(want) BY <2>3, <2>4
  <2>6. \A i \in 1..Len(movie') : want[i] = movie'[i].turn BY <2>3, <2>5 DEF Segment
  <2>7. want = Turns(movie')
    <3> HIDE DEF want
    <3> QED BY <1>1, <2>2, <2>5, <2>6, SameTurns
  <2> QED BY <2>1, <2>7 DEF MovieOf, At, Turns
<1>5. CASE WriteState(j)
  <2>1. job'[j].pc = "unlock" BY <1>1, <1>5 DEF WriteState, MediaJob
  <2>2. state' = Turns(movie) /\ movie' = movie BY <1>5 DEF WriteState, MovieOf, At
  <2> QED BY <2>1, <2>2 DEF MovieOf, At
<1>6. CASE ConcatFails(j) \/ Die(j) BY <1>6 DEF ConcatFails, Die, NoMess, Spared
<1> QED BY <1>2, <1>3, <1>4, <1>5, <1>6 DEF Works

(* Only the lock's holder touches movie and state file, and it knows what   *)
(* they hold.                                                               *)
LEMMA BakingStep ==
  Base /\ HoldsLock /\ Baking /\ [Next]_vars => Baking'
<1>1. SUFFICES ASSUME Base, HoldsLock, Baking, [Next]_vars, NoMess' PROVE Baking'
  BY DEF Baking, NoMess
<1>2. ASSUME NEW j \in Job, Step(j) PROVE Baking'
  <2>1. NoMess BY <1>1, <1>2, Frame DEF NoMess, Spared
  <2>2. /\ (\A i \in Job : job[i].pc \notin {"append", "state"}) => state = Turns(movie)
        /\ \A i \in Job : ~(~At(i, "append") /\ ~At(i, "state")) => MovieOf(i)
    BY <1>1, <2>1 DEF Baking, NoMess, MovieOf, At
  <2>3. \A i \in Job \ {j} : job'[i] = job[i] BY <1>1, <1>2, Frame
  <2>4. CASE ~Works(j)
    <3>1. /\ movie' = movie /\ state' = state
          /\ job[j].pc \notin {"append", "state"} /\ job'[j].pc \notin {"append", "state"}
      BY <1>1, <1>2, <2>4, MovieFrame
    <3>2. \A i \in Job : job'[i].pc \in {"append", "state"} => job'[i] = job[i]
      BY <2>3, <3>1
    <3>3. \A i \in Job : job[i].pc \in {"append", "state"} => job'[i] = job[i]
      BY <2>3, <3>1
    <3>4. Turns(movie)' = Turns(movie) BY <3>1 DEF Turns
    <3>5. (\A i \in Job : job'[i].pc \notin {"append", "state"}) => state' = Turns(movie)'
      BY <2>2, <3>1, <3>3, <3>4
    <3>6. ASSUME NEW i \in Job, job'[i].pc \in {"append", "state"} PROVE MovieOf(i)'
      <4>1. job'[i] = job[i] BY <3>2, <3>6
      <4>2. MovieOf(i) BY <2>2, <3>6, <4>1 DEF At
      <4> QED BY <3>1, <3>4, <3>6, <4>1, <4>2 DEF MovieOf, At
    <3> QED BY <3>5, <3>6 DEF Baking, MovieOf, At
  <2>5. CASE Works(j) /\ Die(j) BY <1>1, <2>5 DEF Die, NoMess, Spared
  <2>6. CASE Works(j) /\ ~Die(j)
    <3>1. job[j].pc \in InMovie
      BY <2>6 DEF Works, Plan, AppendOne, Rebuild, ConcatFails, WriteState, At, InMovie
    <3>2. \A i \in Job \ {j} : job[i].pc \notin InMovie BY <1>1, <3>1 DEF HoldsLock
    <3>3. MovieOf(j)
      <4>1. CASE At(j, "append") \/ At(j, "state") BY <2>2, <4>1
      <4>2. CASE ~At(j, "append") /\ ~At(j, "state")
        BY <2>2, <3>2, <4>2 DEF MovieOf, At, InMovie
      <4> QED BY <4>1, <4>2
    <3>4. MovieOf(j)' BY <1>1, <2>6, <3>3, WorksKnows
    <3>5. \A i \in Job \ {j} : job'[i].pc \notin {"append", "state"}
      BY <2>3, <3>2 DEF InMovie
    <3> QED BY <3>4, <3>5 DEF Baking, MovieOf, At
  <2> QED BY <2>4, <2>5, <2>6
<1>3. CASE LockExpires \/ UNCHANGED vars
  <2>1. movie' = movie /\ state' = state /\ job' = job /\ mishaps' = mishaps
    BY <1>3 DEF LockExpires, vars
  <2>2. Turns(movie)' = Turns(movie) /\ NoMess BY <1>1, <2>1 DEF Turns, NoMess, Spared
  <2> QED BY <1>1, <2>1, <2>2 DEF Baking, NoMess, At
<1> QED BY <1>1, <1>2, <1>3 DEF Next, Step

(* There is no movie, and the state file says so.                           *)
LEMMA InitMovie == Init => HoldsLock /\ Baking
<1>1. <<>> \in Seq(Turn) /\ <<>> \in Seq(Segments) /\ Len(<<>>) = 0 BY EmptySeq
<1>2. Turns(<<>>) \in Seq(Turn) /\ Len(Turns(<<>>)) = 0 BY <1>1, TurnsType
<1>3. <<>> = Turns(<<>>) BY <1>2, EmptySeq
<1> QED BY <1>3 DEF Init, HoldsLock, Baking, InMovie, Idle, At

(* As long as movie_lock does not expire under a running ffmpeg, the state  *)
(* file tells the movie between two extensions, for any number of jobs.     *)
THEOREM MovieState ==
  ASSUME "lease" \notin Faults
  PROVE  Spec => []StateTellsMovie
<1> DEFINE Known == Base /\ HoldsLock /\ Baking
<1>1. Init => Known BY InitBase, InitMovie
<1>2. Known /\ [Next]_vars => Known' BY TypeStep, LockStep, BakingStep
<1>3. Known => StateTellsMovie
  BY NoneAssumption DEF StateTellsMovie, Baking, HoldsLock, InMovie, Turns
<1> QED BY <1>1, <1>2, <1>3, PTL DEF Spec

-----------------------------------------------------------------------------
(* Scenes.                                                                  *)

(* What making a row pending keeps of it.                                   *)
LEMMA PendingKeeps ==
  ASSUME NEW j \in Job, NEW row \in Row
  PROVE  /\ Pending(j, row).seed = row.seed
         /\ Pending(j, row).status \in {row.status, "pending"}
BY DEF Pending, Row

\* The row t after a step that did not make it ready.
KeepsRow(t) ==
  /\ rows'[t].seed = rows[t].seed
  /\ rows'[t].status \in {rows[t].status, "pending", "failed"}
  /\ Spared({"withdrawn"})' /\ rows[t].seed # NoSeed
       => rows'[t].status \in {rows[t].status, "pending"}

(* Only a job that is done makes a row ready and gives it a seed, and a row *)
(* that has one is not failed without a trace.                              *)
LEMMA RowsKept ==
  ASSUME Base, NEW j \in Job, Step(j), ~MarkReady(j), NEW t \in Turn
  PROVE  KeepsRow(t)
<1> DEFINE u == job[j].turn
<1>0. /\ DOMAIN job = Job /\ DOMAIN rows = Turn /\ u \in Turn /\ rows[t] \in Row
      /\ rows[u] \in Row
  BY DEF Base, TypeOK, MediaJob
<1>a. /\ Pending(j, rows[u]).seed = rows[u].seed /\ Pending(j, rows[u]) \in Row
      /\ Pending(j, rows[u]).status \in {rows[u].status, "pending"}
  BY <1>0, PendingKeeps, PendingType
<1>1. CASE rows' = rows BY <1>1 DEF KeepsRow
<1>2. CASE RerollCommits(j) \/ OpenReroll(j)
  <2>1. rows' = [rows EXCEPT ![u] = Pending(j, rows[u])]
    BY <1>2 DEF RerollCommits, OpenReroll
  <2>2. t = u => rows'[t] = Pending(j, rows[u]) BY <1>0, <2>1
  <2>3. t # u => rows'[t] = rows[t] BY <1>0, <2>1
  <2> QED BY <1>a, <2>2, <2>3 DEF KeepsRow
<1>3. CASE rows' # rows /\ OpenGenerate(j)
  <2>1. rows' = [rows EXCEPT ![u] = [Pending(j, rows[u]) EXCEPT !.text = j]]
    BY <1>3 DEF OpenGenerate
  <2>2. t = u => rows'[t] = [Pending(j, rows[u]) EXCEPT !.text = j] BY <1>0, <2>1
  <2>3. t # u => rows'[t] = rows[t] BY <1>0, <2>1
  <2>4. /\ [Pending(j, rows[u]) EXCEPT !.text = j].seed = Pending(j, rows[u]).seed
        /\ [Pending(j, rows[u]) EXCEPT !.text = j].status = Pending(j, rows[u]).status
    BY <1>a DEF Row
  <2> QED BY <1>a, <2>2, <2>3, <2>4 DEF KeepsRow
<1>4. CASE RerollRefused(j) \/ MarkFailed(j)
  <2>1. rows' = [rows EXCEPT ![u].status = "failed"] /\ Withdrawal(u) \subseteq mishaps'
    BY <1>4 DEF RerollRefused, MarkFailed
  <2>3. Spared({"withdrawn"})' => rows[u].seed = NoSeed BY <2>1 DEF Withdrawal, Spared
  <2>4. /\ t = u => rows'[t].status = "failed" /\ rows'[t].seed = rows[t].seed
        /\ t # u => rows'[t] = rows[t]
    BY <1>0, <2>1 DEF Row
  <2> QED BY <2>3, <2>4 DEF KeepsRow
<1>5. rows' = rows \/ RerollCommits(j) \/ OpenReroll(j) \/ OpenGenerate(j)
        \/ RerollRefused(j) \/ MarkFailed(j)
  <2>1. CASE Asks(j) BY <2>1 DEF Asks, PlayTurn, Reroll
  <2>2. CASE RerollQueued(j) \/ Start(j) \/ WriteFiles(j) \/ LockMovie(j) \/ Scan(j)
    BY <2>2 DEF RerollQueued, Start, WriteFiles, LockMovie, Scan
  <2>3. CASE Plan(j) \/ AppendOne(j) \/ Rebuild(j) \/ ConcatFails(j)
    BY <2>3 DEF Plan, AppendOne, Rebuild, ConcatFails
  <2>4. CASE WriteState(j) \/ UnlockMovie(j) \/ Die(j)
    BY <2>4 DEF WriteState, UnlockMovie, Die
  <2> QED BY <2>1, <2>2, <2>3, <2>4 DEF Step, JobStep, RerollRequest, Asks
<1> QED BY <1>1, <1>2, <1>3, <1>4, <1>5

(* What a job brings, and what makes a row ready, has a seed.               *)
LEMMA SeedStep == Base /\ ReadyHasSeed /\ [Next]_vars => ReadyHasSeed'
<1>1. SUFFICES ASSUME Base, ReadyHasSeed, [Next]_vars PROVE ReadyHasSeed' OBVIOUS
<1>2. ASSUME NEW j \in Job, Step(j) PROVE ReadyHasSeed'
  <2> DEFINE Brings(i) == job[i].pc \in {"pipeline", "written"} => job[i].clip.seed # NoSeed
  <2>0. /\ DOMAIN job = Job /\ job[j] \in MediaJob /\ DOMAIN rows = Turn
        /\ job[j].read \in Row /\ \A t \in Turn : rows[t] \in Row
    BY <1>1 DEF Base, TypeOK, MediaJob
  <2>1. \A i \in Job \ {j} : job'[i] = job[i] BY <1>1, <1>2, Frame
  <2>2. Brings(j) BY <1>1 DEF ReadyHasSeed
  <2>3. Brings(j)'
    <3>1. CASE Asks(j)
      <4>1. PICK k \in {"generate", "reroll"}, t \in Turn, where \in {"queued", "over", "asked"} :
              Ask(j, k, t, where)
        BY <3>1 DEF Asks, PlayTurn, Reroll
      <4>2. job'[j].pc = where BY <2>0, <4>1 DEF Ask, Idle
      <4> QED BY <4>2
    <3>2. CASE RerollRequest(j)
      BY <2>0, <3>2 DEF RerollRequest, RerollCommits, RerollQueued, RerollRefused, MediaJob
    <3>3. CASE Start(j) BY <2>0, <3>3 DEF Start, MediaJob
    <3>4. CASE OpenGenerate(j)
      <4>1. \/ job' = [job EXCEPT ![j].pc = "over"]
            \/ job' = [job EXCEPT ![j].pc = "pipeline",
                                  ![j].clip = [text |-> j, seed |-> StableSeed]]
        BY <3>4 DEF OpenGenerate
      <4> QED BY <2>0, <4>1 DEF MediaJob, StableSeed, NoSeed
    <3>5. CASE OpenReroll(j)
      <4>1. NewSeed(job[j].read.seed) # NoSeed
        BY <2>0 DEF NewSeed, NoSeed, RerollSeed, Row
      <4>2. job'[j].clip.seed = NewSeed(job[j].read.seed)
        BY <2>0, <3>5 DEF OpenReroll, MediaJob
      <4> QED BY <4>1, <4>2
    <3>6. CASE WriteFiles(j) BY <2>0, <2>2, <3>6 DEF WriteFiles, MediaJob, At
    <3>7. CASE MarkReady(j) \/ MarkFailed(j)
      BY <2>0, <3>7 DEF MarkReady, MarkFailed, MediaJob
    <3>8. CASE LockMovie(j)
      <4>1. \E p \in {"scan", "over"} : job' = [job EXCEPT ![j].pc = p]
        BY <3>8 DEF LockMovie
      <4> QED BY <2>0, <4>1 DEF MediaJob
    <3>9. CASE Scan(j)
      <4>1. \/ job' = [job EXCEPT ![j].pc = "unlock"]
            \/ job' = [job EXCEPT ![j].pc = "plan", ![j].want = Contiguous(ReadyTurns)]
        BY <3>9 DEF Scan
      <4> QED BY <2>0, <4>1 DEF MediaJob
    <3>10. CASE Plan(j)
      <4>1. \/ \E p \in {"unlock", "rebuild"} : job' = [job EXCEPT ![j].pc = p]
            \/ job' = [job EXCEPT ![j].pc = "append", ![j].left = NotBaked(job[j].want)]
        BY <3>10 DEF Plan
      <4> QED BY <2>0, <4>1 DEF MediaJob
    <3>11. CASE AppendOne(j) BY <2>0, <3>11 DEF AppendOne, MediaJob, At
    <3>12. CASE Rebuild(j) \/ ConcatFails(j) \/ WriteState(j) \/ UnlockMovie(j) \/ Die(j)
      BY <2>0, <3>12 DEF Rebuild, ConcatFails, WriteState, UnlockMovie, Die, MediaJob
    <3> QED BY <1>2, <3>1, <3>2, <3>3, <3>4, <3>5, <3>6, <3>7, <3>8, <3>9, <3>10, <3>11, <3>12
            DEF Asks, Step, JobStep
  <2>4. ASSUME NEW t \in Turn, rows'[t].status = "ready" PROVE rows'[t].seed # NoSeed
    <3>1. CASE MarkReady(j)
      <4>1. rows' = [rows EXCEPT ![job[j].turn].status = "ready",
                                 ![job[j].turn].seed = job[j].clip.seed]
        BY <3>1 DEF MarkReady
      <4>2. t = job[j].turn => rows'[t].seed = job[j].clip.seed BY <2>0, <4>1 DEF Row
      <4>3. t # job[j].turn => rows'[t] = rows[t] BY <2>0, <4>1
      <4>4. job[j].clip.seed # NoSeed BY <2>2, <3>1 DEF MarkReady, At
      <4> QED BY <1>1, <2>4, <4>2, <4>3, <4>4 DEF ReadyHasSeed
    <3>2. CASE ~MarkReady(j)
      <4>1. KeepsRow(t) BY <1>1, <1>2, <3>2, RowsKept
      <4> QED BY <1>1, <2>4, <4>1 DEF KeepsRow, ReadyHasSeed
    <3> QED BY <3>1, <3>2
  <2>5. ASSUME NEW i \in Job PROVE Brings(i)'
    <3>1. CASE i = j BY <2>3, <3>1
    <3>2. CASE i # j BY <1>1, <2>1, <3>2 DEF ReadyHasSeed
    <3> QED BY <3>1, <3>2
  <2> QED BY <2>4, <2>5 DEF ReadyHasSeed
<1>3. CASE LockExpires \/ UNCHANGED vars
  BY <1>1, <1>3 DEF LockExpires, vars, ReadyHasSeed
<1> QED BY <1>1, <1>2, <1>3 DEF Next, Step

(* Only a scan forgets what went wrong before.                              *)
LEMMA MishapsGrow ==
  ASSUME NEW j \in Job, Step(j), ~Scan(j)
  PROVE  mishaps \subseteq mishaps'
<1>1. CASE Asks(j) BY <1>1 DEF Asks, PlayTurn, Reroll, Ask
<1>2. CASE RerollRequest(j)
  BY <1>2 DEF RerollRequest, RerollCommits, RerollQueued, RerollRefused
<1>3. CASE Start(j) \/ OpenGenerate(j) \/ OpenReroll(j)
  BY <1>3 DEF Start, OpenGenerate, OpenReroll
<1>4. CASE WriteFiles(j) \/ MarkReady(j) \/ MarkFailed(j)
  BY <1>4 DEF WriteFiles, MarkReady, MarkFailed
<1>5. CASE LockMovie(j)
  <2>1. mishaps' = mishaps \/ mishaps' = mishaps \union {"skipped"} BY <1>5 DEF LockMovie
  <2> QED BY <2>1
<1>6. CASE Plan(j) \/ AppendOne(j) \/ Rebuild(j) BY <1>6 DEF Plan, AppendOne, Rebuild
<1>7. CASE ConcatFails(j) \/ WriteState(j) \/ UnlockMovie(j) \/ Die(j)
  BY <1>7 DEF ConcatFails, WriteState, UnlockMovie, Die
<1> QED BY <1>1, <1>2, <1>3, <1>4, <1>5, <1>6, <1>7 DEF Asks, Step, JobStep

(* Where a job that got to its turn with the movie goes next.               *)
LEMMA FromMovie ==
  ASSUME NEW j \in Job, Step(j), job[j].pc \in {"movie", "scan"}
  PROVE  LockMovie(j) \/ Scan(j) \/ Die(j)
<1> USE DEF At
<1>1. ~PlayTurn(j) /\ ~Reroll(j) BY DEF PlayTurn, Reroll, Ask
<1>2. ~RerollRequest(j)
  BY DEF RerollRequest, RerollCommits, RerollQueued, RerollRefused
<1>3. ~Start(j) /\ ~OpenGenerate(j) /\ ~OpenReroll(j)
  BY DEF Start, OpenGenerate, OpenReroll
<1>4. ~WriteFiles(j) /\ ~MarkReady(j) /\ ~MarkFailed(j)
  BY DEF WriteFiles, MarkReady, MarkFailed
<1>5. ~Plan(j) /\ ~AppendOne(j) /\ ~Rebuild(j) BY DEF Plan, AppendOne, Rebuild
<1>6. ~ConcatFails(j) /\ ~WriteState(j) /\ ~UnlockMovie(j)
  BY DEF ConcatFails, WriteState, UnlockMovie
<1> QED BY <1>1, <1>2, <1>3, <1>4, <1>5, <1>6 DEF Step, JobStep

Undisturbed == Spared({"skipped", "withdrawn", "ffmpeg", "crash"})
NoneToScan == \A j \in Job : job[j].pc \notin {"movie", "scan"}

\* The scenes of S are still there, or are being made again.
Standing(S) ==
  /\ ReadyTurns \subseteq S
  /\ \A t \in S : rows[t].status \in {"ready", "pending"} /\ rows[t].seed # NoSeed

(* A job that extends the movie brings the scenes of its scan into it.      *)
LEMMA ExtendsStep ==
  ASSUME Base, HoldsLock, Baking, NEW j \in Job, Step(j), Works(j), Undisturbed',
         Undisturbed, NEW S \in SUBSET Turn, InOrComing(S)
  PROVE  InOrComing(S)'
<1> DEFINE want == job[j].want
<1>0. DOMAIN job = Job /\ job[j] \in MediaJob /\ movie \in Seq(Segments)
  BY DEF Base, TypeOK, Segments
<1>1. ~ConcatFails(j) /\ ~Die(j) BY DEF ConcatFails, Die, Undisturbed, Spared
<1>2. job[j].pc \in Extending
  BY <1>1 DEF Works, Plan, AppendOne, Rebuild, WriteState, At, Extending
<1>3. \A i \in Job \ {j} : job[i].pc \notin Extending /\ job'[i] = job[i]
  BY <1>2, Frame DEF HoldsLock, InMovie, Extending
<1>4. S # {} /\ want = Contiguous(S) BY <1>2, <1>3 DEF InOrComing
<1>5. CASE job'[j].pc \in Extending /\ job'[j].want = want
  BY <1>4, <1>5 DEF InOrComing
<1>6. CASE job'[j].pc \notin Extending /\ movie' = movie /\ want = Turns(movie)
  <2>1. \A i \in Job : job'[i].pc \notin Extending BY <1>3, <1>6
  <2>2. Len(want) = Len(movie) /\ \A i \in 1..Len(movie) : want[i] = movie[i].turn
    BY <1>0, <1>6, TurnsType
  <2>3. \A i \in 1..Len(want) : \E k \in 1..Len(movie') : movie'[k].turn = want[i]
    BY <1>6, <2>2
  <2> QED BY <1>4, <2>1, <2>3 DEF InOrComing
<1>7. CASE Plan(j)
  <2>1. CASE state = want
    <3>1. job' = [job EXCEPT ![j].pc = "unlock"] /\ movie' = movie BY <1>7, <2>1 DEF Plan
    <3>2. job'[j].pc \notin Extending BY <1>0, <3>1 DEF MediaJob, Extending
    <3>3. \A i \in Job : job[i].pc \notin {"append", "state"}
      BY <1>3, <1>7 DEF Plan, At, Extending
    <3>4. state = Turns(movie) BY <3>3 DEF Baking, Undisturbed, Spared
    <3> QED BY <1>6, <2>1, <3>1, <3>2, <3>4
  <2>2. CASE state # want
    <3>1. \/ job' = [job EXCEPT ![j].pc = "append", ![j].left = NotBaked(want)]
          \/ job' = [job EXCEPT ![j].pc = "rebuild"]
      BY <1>7, <2>2 DEF Plan
    <3>2. job'[j].pc \in Extending /\ job'[j].want = want
      BY <1>0, <3>1 DEF MediaJob, Extending
    <3> QED BY <1>5, <3>2
  <2> QED BY <2>1, <2>2
<1>8. CASE AppendOne(j)
  <2>1. job'[j].pc \in Extending /\ job'[j].want = want
    BY <1>0, <1>8 DEF AppendOne, MediaJob, Extending, At
  <2> QED BY <1>5, <2>1
<1>9. CASE Rebuild(j)
  <2>1. job'[j].pc \in Extending /\ job'[j].want = want
    BY <1>0, <1>9 DEF Rebuild, MediaJob, Extending
  <2> QED BY <1>5, <2>1
<1>10. CASE WriteState(j)
  <2>1. job'[j].pc \notin Extending /\ movie' = movie
    BY <1>0, <1>10 DEF WriteState, MediaJob, Extending
  <2>2. want = Turns(movie) BY <1>10 DEF WriteState, Baking, Undisturbed, Spared, At
  <2> QED BY <1>6, <2>1, <2>2
<1> QED BY <1>1, <1>7, <1>8, <1>9, <1>10 DEF Works

(* A scan finds the scenes there are.                                       *)
LEMMA ScanFinds ==
  ASSUME Base, HoldsLock, ReadyHasSeed, NEW j \in Job, Step(j), Scan(j)
  PROVE  Standing(ReadyTurns)' /\ InOrComing(ReadyTurns)' /\ ReadyTurns' = ReadyTurns
<1>0. DOMAIN job = Job /\ job[j] \in MediaJob BY DEF Base, TypeOK
<1>1. rows' = rows BY DEF Scan
<1>2. ReadyTurns' = ReadyTurns BY <1>1 DEF ReadyTurns
<1>3. Standing(ReadyTurns)' BY <1>1, <1>2 DEF Standing, ReadyTurns, ReadyHasSeed
<1>4. \A i \in Job \ {j} : job'[i] = job[i] /\ job[i].pc \notin Extending
  BY Frame DEF HoldsLock, Scan, At, InMovie, Extending
<1>5. CASE ReadyTurns = {}
  <2>1. job' = [job EXCEPT ![j].pc = "unlock"] BY <1>5 DEF Scan
  <2>2. job'[j].pc \notin Extending BY <1>0, <2>1 DEF MediaJob, Extending
  <2> QED BY <1>2, <1>3, <1>4, <1>5, <2>2 DEF InOrComing
<1>6. CASE ReadyTurns # {}
  <2>1. job' = [job EXCEPT ![j].pc = "plan", ![j].want = Contiguous(ReadyTurns)]
    BY <1>6 DEF Scan
  <2>2. job'[j].pc \in Extending /\ job'[j].want = Contiguous(ReadyTurns)
    BY <1>0, <2>1 DEF MediaJob, Extending
  <2> QED BY <1>2, <1>3, <1>6, <2>2 DEF InOrComing
<1> QED BY <1>5, <1>6

(* A scene that becomes ready has a scan to come; the last scan finds them  *)
(* all, and no step takes one of them away.                                 *)
LEMMA ScanStep ==
  Base /\ HoldsLock /\ Baking /\ ReadyHasSeed /\ LastScan /\ [Next]_vars => LastScan'
<1>1. SUFFICES ASSUME Base, HoldsLock, Baking, ReadyHasSeed, LastScan, [Next]_vars,
                      Undisturbed', NoneToScan'
               PROVE  \E S \in SUBSET Turn : Standing(S)' /\ InOrComing(S)'
  BY DEF LastScan, Undisturbed, NoneToScan, Standing
<1>2. ASSUME NEW j \in Job, Step(j)
      PROVE  \E S \in SUBSET Turn : Standing(S)' /\ InOrComing(S)'
  <2>1. CASE Scan(j)
    <3>1. Standing(ReadyTurns)' /\ InOrComing(ReadyTurns)' /\ ReadyTurns' = ReadyTurns
      BY <1>1, <1>2, <2>1, ScanFinds
    <3>2. ReadyTurns \in SUBSET Turn BY DEF ReadyTurns
    <3> QED BY <3>1, <3>2
  <2>2. CASE ~Scan(j)
    <3>1. Undisturbed BY <1>1, <1>2, <2>2, MishapsGrow DEF Undisturbed, Spared
    <3>2. \A i \in Job \ {j} : job'[i] = job[i] BY <1>1, <1>2, Frame
    <3>3. ~Die(j) BY <1>1 DEF Die, Undisturbed, Spared
    <3>4. ~LockMovie(j)
      <4>1. SUFFICES ASSUME LockMovie(j) PROVE FALSE OBVIOUS
      <4>2. DOMAIN job = Job /\ job[j] \in MediaJob BY <1>1 DEF Base, TypeOK
      <4>3. job' = [job EXCEPT ![j].pc = "scan"] \/ "skipped" \in mishaps'
        BY <4>1 DEF LockMovie
      <4>4. job' # [job EXCEPT ![j].pc = "scan"] BY <1>1, <4>2 DEF NoneToScan, MediaJob
      <4> QED BY <1>1, <4>3, <4>4 DEF Undisturbed, Spared
    <3>5. job[j].pc \notin {"movie", "scan"} BY <1>2, <2>2, <3>3, <3>4, FromMovie
    <3>6. ~MarkReady(j)
      <4>1. DOMAIN job = Job /\ job[j] \in MediaJob BY <1>1 DEF Base, TypeOK
      <4> QED BY <1>1, <4>1 DEF MarkReady, NoneToScan, MediaJob
    <3>7. NoneToScan BY <1>1, <3>2, <3>5 DEF NoneToScan
    <3>8. PICK S \in SUBSET Turn : Standing(S) /\ InOrComing(S)
      BY <1>1, <3>1, <3>7 DEF LastScan, Undisturbed, NoneToScan, Standing
    <3>9. Standing(S)'
      <4>1. \A t \in Turn : KeepsRow(t) BY <1>1, <1>2, <3>6, RowsKept
      <4>2. Spared({"withdrawn"})' BY <1>1 DEF Undisturbed, Spared
      <4>3. ReadyTurns' \subseteq ReadyTurns BY <4>1 DEF KeepsRow, ReadyTurns
      <4> QED BY <3>8, <4>1, <4>2, <4>3 DEF Standing, KeepsRow
    <3>10. InOrComing(S)'
      <4>1. CASE Works(j) BY <1>1, <1>2, <3>1, <3>8, <4>1, ExtendsStep
      <4>2. CASE ~Works(j)
        <5>1. /\ movie' = movie /\ job[j].pc \notin Extending /\ job'[j].pc \notin Extending
          BY <1>1, <1>2, <3>5, <4>2, MovieFrame DEF At
        <5> QED BY <3>2, <3>8, <5>1 DEF InOrComing
      <4> QED BY <4>1, <4>2
    <3> QED BY <3>9, <3>10
  <2> QED BY <2>1, <2>2
<1>3. CASE LockExpires \/ UNCHANGED vars
  <2>1. rows' = rows /\ movie' = movie /\ job' = job /\ mishaps' = mishaps
    BY <1>3 DEF LockExpires, vars
  <2>2. PICK S \in SUBSET Turn : Standing(S) /\ InOrComing(S)
    BY <1>1, <2>1 DEF LastScan, Undisturbed, NoneToScan, Standing, Spared
  <2> QED BY <2>1, <2>2 DEF Standing, InOrComing, ReadyTurns
<1> QED BY <1>1, <1>2, <1>3 DEF Next, Step

(* As long as movie_lock does not expire under a running ffmpeg, a scene    *)
(* that joins on to the first one is in the movie when nothing runs any     *)
(* more, for any number of jobs and turns.                                  *)
THEOREM Scenes ==
  ASSUME "lease" \notin Faults
  PROVE  Spec => []SceneNotLost
<1> DEFINE Known == /\ Base /\ HoldsLock /\ Baking
                    /\ PendingSettles /\ ReadyHasSeed /\ LastScan
<1>1. Init => Known
  <2>1. SUFFICES ASSUME Init
                 PROVE  HoldsLock /\ Baking /\ PendingSettles /\ ReadyHasSeed /\ LastScan
    BY InitBase
  <2>2. HoldsLock /\ Baking BY <2>1, InitMovie
  <2>3. PendingSettles /\ ReadyHasSeed
    BY <2>1 DEF Init, PendingSettles, ReadyHasSeed, NoRow, Idle
  <2>4. Standing({}) BY <2>1 DEF Init, Standing, ReadyTurns, NoRow
  <2>5. InOrComing({}) BY <2>1 DEF Init, InOrComing, Idle, Extending
  <2> QED BY <2>2, <2>3, <2>4, <2>5 DEF LastScan, Standing
<1>2. Known /\ [Next]_vars => Known'
  BY TypeStep, LockStep, BakingStep, PendingStep, SeedStep, ScanStep
<1>3. Known => SceneNotLost
  <2>1. SUFFICES ASSUME Known, AtRest, Undisturbed, ReadyTurns # {}
                 PROVE  \A i \in 1..Len(Contiguous(ReadyTurns)) :
                          \E k \in 1..Len(movie) : movie[k].turn = Contiguous(ReadyTurns)[i]
    BY DEF SceneNotLost, Undisturbed
  <2>2. \A i \in Job : job[i].pc \in Over BY <2>1 DEF AtRest
  <2>3. PICK S \in SUBSET Turn : Standing(S) /\ InOrComing(S)
    BY <2>1, <2>2 DEF LastScan, Undisturbed, Standing, Over
  <2>4. \A t \in Turn : rows[t].status # "pending"
    BY <2>1, <2>2 DEF PendingSettles, Settles, At, Over, Undisturbed, Spared
  <2>5. S = ReadyTurns BY <2>3, <2>4 DEF Standing, ReadyTurns
  <2> QED BY <2>1, <2>2, <2>3, <2>5 DEF InOrComing, Extending, Over
<1> QED BY <1>1, <1>2, <1>3, PTL DEF Spec
=============================================================================
