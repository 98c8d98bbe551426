------------------------------ MODULE Storyline ------------------------------
(***************************************************************************)
(* What an engine promises about the story of its session, and no more     *)
(* (backend/engine/engine.py: Engine.step and Engine.regenerate, each of   *)
(* them in one step, and only those that give back a result).              *)
(*                                                                         *)
(* The story grows by a turn at a time: an input and its answer, numbered  *)
(* one after the other.  Nothing told before ever changes, but the last    *)
(* answer may be told again.  The player is shown all of it except the     *)
(* inputs that stand for a continuation.  An answer wears a character's    *)
(* boundary by one step at most, and a voice that was given stays.         *)
(***************************************************************************)
EXTENDS Naturals, Sequences

CONSTANTS FullResolve, \* a boundary that nothing has worn
          NoVoice      \* no voice was given yet

VARIABLES turn,     \* the number of the last turn
          told,     \* the messages of the story
          display,  \* those of them that the player is shown
          boundary, \* what is left of a character's boundary
          voice     \* the voice of the narration, or NoVoice

lineVars == <<turn, told, display, boundary, voice>>

Said(by, n) == [by |-> by, turn |-> n, take |-> 1]

Init ==
  /\ turn = 0 /\ told = <<Said("opening", 0)>> /\ display = told
  /\ boundary = FullResolve /\ voice = NoVoice

\* What a new answer leaves behind.
Leaves ==
  /\ boundary' <= boundary /\ boundary <= boundary' + 1
  /\ voice # NoVoice => voice' = voice

\* The player says something and is answered.
Play ==
  /\ turn' = turn + 1
  /\ told' = Append(Append(told, Said("player", turn')), Said("narrator", turn'))
  /\ display' = Append(Append(display, Said("player", turn')), Said("narrator", turn'))
  /\ Leaves

\* The narrator goes on by itself.
Continue ==
  /\ turn' = turn + 1
  /\ told' = Append(Append(told, Said("continue", turn')), Said("narrator", turn'))
  /\ display' = Append(display, Said("narrator", turn'))
  /\ Leaves

\* The last answer is told in another way.
Retell ==
  /\ turn > 0 /\ UNCHANGED turn
  /\ told' = [told EXCEPT ![Len(told)].take = @ + 1]
  /\ display' = [display EXCEPT ![Len(display)].take = @ + 1]
  /\ Leaves

Next == Play \/ Continue \/ Retell

Spec == Init /\ [][Next]_lineVars
=============================================================================
