---------------------------- MODULE LoginsProofs ----------------------------
(***************************************************************************)
(* What the runs check of tokens, for any number of tabs and requests and  *)
(* whatever faults: a login has at most one refresh token that can be      *)
(* exchanged, a logout leaves none of it, and no request fails without a   *)
(* cause.                                                                  *)
(*                                                                         *)
(* The first is not inductive: between GETDEL and SET the token of a login *)
(* is in nobody's hands but the rotation's, which will make another.  So a *)
(* rotation that has spent its token stands for its login until then, and  *)
(* no other token or rotation of the same login exists.                    *)
(*                                                                         *)
(* The others are not, because a logout ends a login by its last token and *)
(* a request goes on with the one that is stored: the invariant tells      *)
(* which pair is the last of its login, and who knows of it.               *)
(***************************************************************************)
EXTENDS Logins, TLAPS

Spent(t) == refresh[t].pc = "spent"

\* What a rotation under way holds is a pair of its own login ...
SpentIsKnown == \A t \in Tab : Spent(t) => refresh[t].pair \in 1..Len(login)

\* ... of which there is no other token ...
SpentIsOnly ==
  \A t \in Tab : Spent(t) => \A p \in live : login[p] # login[refresh[t].pair]

\* ... and no other rotation.
SpentOnce ==
  \A t, u \in Tab : Spent(t) /\ Spent(u) /\ t # u
    => login[refresh[t].pair] # login[refresh[u].pair]

IInv == TypeOK /\ OneTokenPerLogin /\ SpentIsKnown /\ SpentIsOnly /\ SpentOnce

-----------------------------------------------------------------------------
(* In the initial state there is one token at most.                        *)
LEMMA InitHolds == Init => IInv
<1> SUFFICES ASSUME Init PROVE IInv OBVIOUS
<1>1. PICK p \in {0, 1} : /\ stored = p /\ login = [i \in 1..p |-> i]
                          /\ live = 1..p
  BY DEF Init, NoPair
<1>2. /\ login \in Seq(Nat) /\ Len(login) = p /\ stored \in Nat
      /\ \A i \in 1..p : login[i] = i
  BY <1>1
<1>3. req \in [Req -> Requests]
  BY DEF Init, NewReq, NoPair, Requests, Kinds
<1>4. /\ refresh \in [Tab -> Refreshes]
      /\ \A t \in Tab : ~Spent(t)
  BY DEF Init, NoRefresh, NoPair, Refreshes, Spent
<1>5. TypeOK BY <1>1, <1>2, <1>3, <1>4 DEF TypeOK
<1>6. OneTokenPerLogin BY <1>1, <1>2 DEF OneTokenPerLogin
<1> QED
  BY <1>4, <1>5, <1>6 DEF IInv, SpentIsKnown, SpentIsOnly, SpentOnce

\* A step that makes no token and spends none; rotations may be given up.
Quiet ==
  /\ login' = login /\ live' \subseteq live
  /\ stored' \in Nat /\ req' \in [Req -> Requests] /\ refresh' \in [Tab -> Refreshes]
  /\ \A t \in Tab : Spent(t)' => refresh'[t] = refresh[t]

(* Such a step preserves the invariant.                                     *)
LEMMA QuietStep == IInv /\ Quiet => IInv'
BY DEF Quiet, IInv, TypeOK, OneTokenPerLogin, SpentIsKnown, SpentIsOnly, SpentOnce, Spent

(* What a refresh's end does to the requests that wait keeps their type.    *)
LEMMA WakeType ==
  ASSUME req \in [Req -> Requests], NEW t \in Tab, NEW pair \in Nat,
         NEW pc \in {"sent", "failed"}, Wake(t, pc, pair)
  PROVE  req' \in [Req -> Requests]
BY DEF Wake, Waiting, Requests

(* All steps but a login and the two halves of a rotation are quiet.        *)
LEMMA RequestsAreQuiet ==
  ASSUME TypeOK, NEW r \in Req,
         Serve(r) \/ Send(r) \/ Receive(r) \/ GiveUp(r) \/ AwaitRefresh(r)
  PROVE  Quiet
<1> USE DEF TypeOK, Quiet, Spent
<1>1. CASE Serve(r) BY <1>1 DEF Serve, Requests
<1>2. CASE Send(r)
  <2>1. PICK k \in KindsOf[r] :
          req' = [req EXCEPT ![r].pc = "sent", ![r].kind = k, ![r].pair = stored]
    BY <1>2 DEF Send
  <2>2. k \in Kinds BY ReqAssumption
  <2>3. req' \in [Req -> Requests] BY <2>1, <2>2 DEF Requests
  <2> QED BY <1>2, <2>3 DEF Send
<1>3. CASE Receive(r) BY <1>3 DEF Receive, Requests
<1>4. CASE GiveUp(r)
  <2>1. stored' \in Nat BY <1>4 DEF GiveUp, NoPair
  <2> QED BY <1>4, <2>1 DEF GiveUp, Requests
<1>5. CASE AwaitRefresh(r)
  <2>1. TabOf[r] \in Tab BY ReqAssumption
  <2>2. req' \in [Req -> Requests] BY <1>5 DEF AwaitRefresh, Requests
  <2>3. refresh' \in [Tab -> Refreshes]
    BY <1>5, <2>1 DEF AwaitRefresh, Refreshes, NoPair
  <2>4. \A t \in Tab : Spent(t)' => refresh'[t] = refresh[t]
    BY <1>5, <2>1 DEF AwaitRefresh
  <2> QED BY <1>5, <2>2, <2>3, <2>4 DEF AwaitRefresh
<1> QED BY <1>1, <1>2, <1>3, <1>4, <1>5

(* A refresh that ends only hands out or forgets a pair that was there.     *)
LEMMA EndsAreQuiet ==
  ASSUME TypeOK, NEW t \in Tab, RefreshSucceeds(t) \/ RefreshRefused(t)
  PROVE  Quiet
<1>1. refresh[t] \in Refreshes /\ refresh[t].new \in Nat
  BY DEF TypeOK, Refreshes
<1>2. req' \in [Req -> Requests]
  <2>1. CASE RefreshSucceeds(t) BY <1>1, <2>1, WakeType DEF TypeOK, RefreshSucceeds
  <2>2. CASE RefreshRefused(t)
    <3>1. Wake(t, "failed", NoPair) BY <2>2 DEF RefreshRefused, Rejected
    <3> QED BY <3>1, WakeType DEF TypeOK, NoPair
  <2> QED BY <2>1, <2>2
<1>3. refresh' = [refresh EXCEPT ![t] = NoRefresh]
  BY DEF RefreshSucceeds, RefreshRefused
<1>4. stored' \in Nat
  BY <1>1 DEF RefreshSucceeds, RefreshRefused, Kept, NoPair
<1> QED
  BY <1>2, <1>3, <1>4
  DEF TypeOK, Quiet, Spent, RefreshSucceeds, RefreshRefused, NoRefresh, Refreshes, NoPair

(* A logout, a revocation, a deleted account, an expiry and a lost answer   *)
(* make no token and spend none.                                            *)
LEMMA OthersAreQuiet ==
  ASSUME TypeOK,
         \/ DeleteAccount \/ Logout \/ Lose
         \/ \E p \in 1..Len(login) : Revoke(p) \/ AccessExpires(p)
  PROVE  Quiet
<1> USE DEF TypeOK, Quiet, Spent
<1>1. CASE DeleteAccount BY <1>1 DEF DeleteAccount
<1>2. CASE Logout BY <1>2 DEF Logout, NoPair
<1>3. CASE Lose
  <2>1. UNCHANGED <<live, login>> /\ stored' \in Nat
    <3>1. UNCHANGED <<live, login>> /\ stored' \in {stored, NoPair}
      BY <1>3 DEF Lose, StoredAfter
    <3> QED BY <3>1 DEF NoPair
  <2>2. CASE UNCHANGED req /\ UNCHANGED refresh BY <2>1, <2>2
  <2>3. ASSUME NEW r \in Req, req' = [req EXCEPT ![r].pc = "failed"], UNCHANGED refresh
        PROVE  Quiet
    <3>1. req' \in [Req -> Requests] BY <2>3 DEF Requests
    <3> QED BY <2>1, <2>3, <3>1
  <2>4. ASSUME NEW t \in Tab, refresh' = [refresh EXCEPT ![t] = NoRefresh],
               Wake(t, "failed", NoPair)
        PROVE  Quiet
    <3>1. req' \in [Req -> Requests] BY <2>4, WakeType DEF NoPair
    <3> QED BY <2>1, <2>4, <3>1 DEF NoRefresh, Refreshes, NoPair
  <2> QED BY <1>3, <2>2, <2>3, <2>4 DEF Lose
<1>4. ASSUME NEW p \in 1..Len(login), Revoke(p) PROVE Quiet BY <1>4 DEF Revoke
<1>5. ASSUME NEW p \in 1..Len(login), AccessExpires(p) PROVE Quiet
  BY <1>5 DEF AccessExpires
<1> QED BY <1>1, <1>2, <1>3, <1>4, <1>5

-----------------------------------------------------------------------------
(* A login is a new one: its token is the only one.                         *)
LEMMA LogInStep ==
  ASSUME IInv, NEW r \in Req, LogIn(r)
  PROVE  IInv'
<1> DEFINE new == Len(login) + 1
<1>1. /\ login' = Append(login, new) /\ live' = live \union {new}
      /\ req' = [req EXCEPT ![r].pc = "ok", ![r].pair = new]
      /\ UNCHANGED <<stored, refresh>>
  BY DEF LogIn, Mint
<1>2. /\ login' \in Seq(Nat) /\ Len(login') = new /\ new \in Nat
      /\ \A p \in 1..Len(login) : login'[p] = login[p] /\ login[p] # new
      /\ login'[new] = new
  BY <1>1 DEF IInv, TypeOK
<1>3. TypeOK'
  <2>1. req \in [Req -> Requests] BY DEF IInv, TypeOK
  <2>2. new \in Nat /\ req' = [req EXCEPT ![r].pc = "ok", ![r].pair = new]
    BY <1>1, <1>2
  <2> HIDE DEF new
  <2>3. req' \in [Req -> Requests] BY <2>1, <2>2 DEF Requests
  <2> USE DEF new
  <2> QED BY <1>1, <1>2, <2>3 DEF IInv, TypeOK
<1>4. OneTokenPerLogin' BY <1>1, <1>2 DEF IInv, TypeOK, OneTokenPerLogin
<1>5. (SpentIsKnown /\ SpentIsOnly /\ SpentOnce)'
  BY <1>1, <1>2 DEF IInv, TypeOK, SpentIsKnown, SpentIsOnly, SpentOnce, Spent
<1> QED BY <1>3, <1>4, <1>5 DEF IInv

(* GETDEL takes the login's token: from now on the rotation stands for it.  *)
LEMMA RotateStep ==
  ASSUME IInv, NEW t \in Tab, Rotate(t)
  PROVE  IInv'
<1>1. /\ refresh[t].pair \in live /\ live' = live \ {refresh[t].pair}
      /\ refresh' = [refresh EXCEPT ![t].pc = "spent"]
      /\ UNCHANGED <<stored, login, req>>
  BY DEF Rotate
<1>2. TypeOK' BY <1>1 DEF IInv, TypeOK, Refreshes
<1>3. \A u \in Tab : /\ refresh'[u].pair = refresh[u].pair
                     /\ u # t => refresh'[u] = refresh[u]
  BY <1>1 DEF IInv, TypeOK, Refreshes
<1>4. OneTokenPerLogin' BY <1>1 DEF IInv, OneTokenPerLogin
<1>5. SpentIsKnown' BY <1>1, <1>3 DEF IInv, TypeOK, SpentIsKnown, Spent
<1>6. SpentIsOnly' BY <1>1, <1>3 DEF IInv, OneTokenPerLogin, SpentIsOnly, Spent
<1>7. SpentOnce' BY <1>1, <1>3 DEF IInv, SpentIsOnly, SpentOnce, Spent
<1> QED BY <1>2, <1>4, <1>5, <1>6, <1>7 DEF IInv

(* SET makes the login's next token; the rotation holds none any more.      *)
LEMMA IssueStep ==
  ASSUME IInv, NEW t \in Tab, Issue(t)
  PROVE  IInv'
<1> DEFINE new == Len(login) + 1
           old == refresh[t].pair
<1>1. /\ Spent(t) /\ old \in 1..Len(login)
      /\ login' = Append(login, login[old]) /\ live' = (live \ {old}) \union {new}
      /\ refresh' = [refresh EXCEPT ![t].pc = IF account THEN "yes" ELSE "no", ![t].new = new]
      /\ UNCHANGED <<stored, req>>
  BY DEF Issue, Mint, IInv, SpentIsKnown, Spent
<1>2. /\ login' \in Seq(Nat) /\ Len(login') = new /\ new \in Nat
      /\ \A p \in 1..Len(login) : login'[p] = login[p]
      /\ login'[new] = login[old]
  BY <1>1 DEF IInv, TypeOK
<1>3. /\ refresh' \in [Tab -> Refreshes] /\ ~Spent(t)'
      /\ \A u \in Tab : u # t => refresh'[u] = refresh[u]
  <2> DEFINE pc == IF account THEN "yes" ELSE "no"
  <2>1. pc \in {"yes", "no"} OBVIOUS
  <2>2. refresh \in [Tab -> Refreshes] BY DEF IInv, TypeOK
  <2>3. refresh' = [refresh EXCEPT ![t] = [refresh[t] EXCEPT !.pc = pc, !.new = new]]
    BY <1>1, <2>2 DEF Refreshes
  <2> HIDE DEF pc
  <2>4. [refresh[t] EXCEPT !.pc = pc, !.new = new] \in Refreshes
    BY <1>2, <2>1, <2>2 DEF Refreshes
  <2>5. refresh'[t].pc = pc BY <2>2, <2>3 DEF Refreshes
  <2>6. ~Spent(t)' BY <2>1, <2>5 DEF Spent
  <2> QED BY <2>2, <2>3, <2>4, <2>6
<1>4. TypeOK' BY <1>1, <1>2, <1>3 DEF IInv, TypeOK
<1>5. OneTokenPerLogin'
  BY <1>1, <1>2 DEF IInv, TypeOK, OneTokenPerLogin, SpentIsOnly
<1>6. SpentIsKnown' BY <1>1, <1>2, <1>3 DEF IInv, SpentIsKnown, Spent
<1>7. SpentIsOnly'
  BY <1>1, <1>2, <1>3 DEF IInv, TypeOK, SpentIsKnown, SpentIsOnly, SpentOnce, Spent
<1>8. SpentOnce' BY <1>1, <1>2, <1>3 DEF IInv, SpentIsKnown, SpentOnce, Spent
<1> QED BY <1>4, <1>5, <1>6, <1>7, <1>8 DEF IInv

(* Every step preserves the invariant.                                      *)
LEMMA NextStep == IInv /\ [Next]_vars => IInv'
<1> SUFFICES ASSUME IInv, [Next]_vars PROVE IInv' OBVIOUS
<1> TypeOK BY DEF IInv
<1>1. ASSUME NEW r \in Req, LogIn(r) PROVE IInv' BY <1>1, LogInStep
<1>2. ASSUME NEW t \in Tab, Rotate(t) PROVE IInv' BY <1>2, RotateStep
<1>3. ASSUME NEW t \in Tab, Issue(t) PROVE IInv' BY <1>3, IssueStep
<1>4. ASSUME NEW r \in Req,
             Serve(r) \/ Send(r) \/ Receive(r) \/ GiveUp(r) \/ AwaitRefresh(r)
      PROVE  IInv'
  BY <1>4, RequestsAreQuiet, QuietStep
<1>5. ASSUME NEW t \in Tab, RefreshSucceeds(t) \/ RefreshRefused(t) PROVE IInv'
  BY <1>5, EndsAreQuiet, QuietStep
<1>6. ASSUME \/ DeleteAccount \/ Logout \/ Lose
             \/ \E p \in 1..Len(login) : Revoke(p) \/ AccessExpires(p)
      PROVE  IInv'
  BY <1>6, OthersAreQuiet, QuietStep
<1>7. CASE UNCHANGED vars
  BY <1>7
  DEF vars, IInv, TypeOK, OneTokenPerLogin, SpentIsKnown, SpentIsOnly, SpentOnce, Spent
<1> QED
  BY <1>1, <1>2, <1>3, <1>4, <1>5, <1>6, <1>7 DEF Next, ReqStep, RefreshStep

(* In every state of the tokens, of any number of tabs, requests and        *)
(* logins, the strengthened invariant holds.                                *)
LEMMA Invariance == Spec => []IInv
BY InitHolds, NextStep, PTL DEF Spec

(* Every state is well typed.                                               *)
THEOREM Types == Spec => []TypeOK
BY Invariance, PTL DEF IInv

(* However many tabs exchange a login's refresh token at the same time, and *)
(* wherever a rotation stops, no two tokens of that login can be exchanged. *)
THEOREM OneToken == Spec => []OneTokenPerLogin
BY Invariance, PTL DEF IInv

-----------------------------------------------------------------------------
(* What a logout ends, and what an expiry may not end.  Both ask which     *)
(* pairs of a login are left, and where: a pair is heard of when it is     *)
(* stored or somebody refreshes it, and the pairs that a login or a        *)
(* rotation has just made are heard of by nobody before they arrive.       *)

Running(t) == refresh[t].pc # "none"
Minted(t) == refresh[t].pc \in {"yes", "no"}
Won(t) == refresh[t].pc = "yes"
Granted(r) == req[r].pc = "ok"

\* Pairs that somebody holds were made.
Known ==
  /\ stored \in 0..Len(login) /\ ended \subseteq 1..Len(login)
  /\ \A t \in Tab : /\ Running(t) => refresh[t].pair \in 1..Len(login)
                    /\ Minted(t) => refresh[t].new \in 1..Len(login)
  /\ \A r \in Req : Granted(r) => req[r].pair \in 1..Len(login) /\ req[r].kind = "login"

Heard(p) == p = stored \/ \E t \in Tab : Running(t) /\ refresh[t].pair = p

\* A pair under way is nobody else's.
Unheard ==
  /\ \A t \in Tab : Minted(t) =>
       /\ ~Heard(refresh[t].new)
       /\ \A u \in Tab : Minted(u) /\ refresh[u].new = refresh[t].new => u = t
       /\ \A r \in Req : Granted(r) => req[r].pair # refresh[t].new
  /\ \A r \in Req : Granted(r) =>
       /\ ~Heard(req[r].pair)
       /\ \A s \in Req : Granted(s) /\ req[s].pair = req[r].pair => s = r

Peace == "lost" \notin causes
Same(p, q) == login[p] = login[q]

\* While nothing is lost: the stored pair is the last of its login, or its
\* successor is on its way to the tab that asked for it ...
StoredIsLast ==
  Peace /\ stored # NoPair =>
    /\ \A q \in live : Same(q, stored) =>
         \/ q = stored
         \/ \E t \in Tab : Minted(t) /\ refresh[t].pair = stored /\ refresh[t].new = q
    /\ \A t \in Tab : Spent(t) /\ Same(refresh[t].pair, stored) => refresh[t].pair = stored
    /\ \A t \in Tab : Won(t) /\ Same(refresh[t].new, stored) => refresh[t].pair = stored

\* ... the pair a rotation gave is the last of its login ...
WonIsLast ==
  Peace => \A t \in Tab : Won(t) =>
    /\ \A q \in live : Same(q, refresh[t].new) => q = refresh[t].new
    /\ \A u \in Tab : Spent(u) => ~Same(refresh[u].pair, refresh[t].new)
    /\ \A u \in Tab : Won(u) /\ Same(refresh[u].new, refresh[t].new) => u = t

\* ... and the pair a login gave is the only one of its login.
Only(r) ==
  /\ \A q \in live : Same(q, req[r].pair) => q = req[r].pair
  /\ \A u \in Tab : Spent(u) => ~Same(refresh[u].pair, req[r].pair)
  /\ \A u \in Tab : Won(u) => ~Same(refresh[u].new, req[r].pair)
  /\ stored # NoPair => ~Same(stored, req[r].pair)
  /\ \A s \in Req : Granted(s) /\ Same(req[s].pair, req[r].pair) => s = r

GrantedIsOnly == Peace => \A r \in Req : Granted(r) => Only(r)

\* Of a login that was logged out, nothing is left that could come back.
Gone ==
  Peace =>
    /\ stored # NoPair => login[stored] \notin ended
    /\ \A q \in live : login[q] \in ended => q \in revoking
    /\ \A t \in Tab :
         /\ refresh[t].pc = "sent" /\ refresh[t].pair \in live
              => login[refresh[t].pair] \notin ended
         /\ Spent(t) => login[refresh[t].pair] \notin ended
         /\ Won(t) => login[refresh[t].new] \notin ended
    /\ \A r \in Req : Granted(r) => login[req[r].pair] \notin ended

Lines == Known /\ Unheard /\ StoredIsLast /\ WonIsLast /\ GrantedIsOnly
LInv == IInv /\ Lines /\ Gone

(* Nothing is under way and nobody logged out at first.                     *)
LEMMA InitLines == Init => Lines /\ Gone
<1> SUFFICES ASSUME Init PROVE Lines /\ Gone OBVIOUS
<1>1. PICK p \in {0, 1} : stored = p /\ login = [i \in 1..p |-> i] /\ live = 1..p
  BY DEF Init, NoPair
<1>2. Len(login) = p /\ \A i \in 1..p : login[i] = i BY <1>1
<1>3. /\ ended = {}
      /\ \A t \in Tab : refresh[t].pc = "none" /\ ~Spent(t) /\ ~Running(t) /\ ~Minted(t) /\ ~Won(t)
      /\ \A r \in Req : ~Granted(r)
  BY DEF Init, NoRefresh, NewReq, Spent, Running, Minted, Won, Granted
<1>4. Known /\ Unheard BY <1>1, <1>2, <1>3 DEF Known, Unheard
<1>5. StoredIsLast BY <1>1, <1>3 DEF StoredIsLast, NoPair
<1> QED
  BY <1>1, <1>3, <1>4, <1>5 DEF Lines, WonIsLast, GrantedIsOnly, Only, Gone

\* The logins' answers that wait to be stored are those that waited.
GrantsKept ==
  \A r \in Req : Granted(r)' =>
    Granted(r) /\ req'[r].pair = req[r].pair /\ req'[r].kind = req[r].kind

\* A step that only ends what there is.
Fades ==
  /\ login' = login /\ live' \subseteq live /\ stored' \in {stored, NoPair}
  /\ ended' \subseteq 1..Len(login)
  /\ \A t \in Tab : Running(t)' => refresh'[t] = refresh[t]
  /\ GrantsKept
  /\ Peace' => Peace
  /\ Peace' /\ stored' # NoPair => stored' = stored /\ UNCHANGED refresh

(* Such a step leaves the lines of the logins as they are.                  *)
LEMMA FadingStep ==
  ASSUME IInv, Lines, Fades
  PROVE  Lines'
<1> USE DEF Lines, Fades, GrantsKept
<1>1. \A t \in Tab : /\ Minted(t)' => Running(t)' /\ Minted(t)
                     /\ Won(t)' => Running(t)' /\ Won(t)
                     /\ Spent(t)' => Running(t)' /\ Spent(t)
                     /\ Running(t)' => Running(t)
  BY DEF Minted, Won, Spent, Running
<1>2. Known'
  <2>1. Len(login) \in Nat BY DEF IInv, TypeOK
  <2> QED BY <2>1 DEF Known, NoPair, Running, Minted, Granted
<1>3. \A p \in 1..Len(login) : Heard(p)' => Heard(p) BY DEF Heard, NoPair, Running
<1>4. Unheard' BY <1>1, <1>3 DEF Known, Unheard, Minted, Running, Granted
<1>5. StoredIsLast' BY DEF StoredIsLast, Same, Minted, Spent, Won
<1>6. WonIsLast' BY DEF WonIsLast, Same, Spent, Won, Running
<1>7. GrantedIsOnly'
  BY DEF GrantedIsOnly, Only, Same, NoPair, Spent, Won, Running, Granted
<1> QED BY <1>2, <1>4, <1>5, <1>6, <1>7

(* ... and what it ends of a login that was logged out stays ended.         *)
LEMMA FadingGone ==
  ASSUME LInv, Fades, Peace' => UNCHANGED ended /\ live' \intersect revoking \subseteq revoking'
  PROVE  Gone'
<1> SUFFICES ASSUME Peace' PROVE Gone' BY DEF Gone
<1>1. /\ login' = login /\ live' \subseteq live /\ ended' = ended
      /\ live' \intersect revoking \subseteq revoking'
      /\ stored' \in {stored, NoPair} /\ Gone /\ Peace
  BY DEF Fades, LInv
<1>2. \A t \in Tab : refresh'[t].pc \in {"sent", "spent", "yes"} => refresh'[t] = refresh[t]
  BY DEF Fades, Running
<1>3. \A t \in Tab :
       /\ refresh'[t].pc = "sent" /\ refresh'[t].pair \in live'
            => login'[refresh'[t].pair] \notin ended'
       /\ refresh'[t].pc = "spent" => login'[refresh'[t].pair] \notin ended'
       /\ refresh'[t].pc = "yes" => login'[refresh'[t].new] \notin ended'
  BY <1>1, <1>2 DEF Gone, Spent, Won
<1>4. \A r \in Req : req'[r].pc = "ok" => login'[req'[r].pair] \notin ended'
  BY <1>1 DEF Gone, Fades, GrantsKept, Granted
<1>5. /\ stored' # NoPair => login'[stored'] \notin ended'
      /\ \A q \in live' : login'[q] \in ended' => q \in revoking'
  BY <1>1 DEF Gone
<1> QED BY <1>3, <1>4, <1>5 DEF Gone, Spent, Won, Granted

-----------------------------------------------------------------------------
(* The steps that only end things.                                         *)

(* A request or an expiry changes no pair's place.                          *)
LEMMA RequestsFade ==
  ASSUME LInv,
         \/ \E r \in Req : Serve(r) \/ Send(r) \/ GiveUp(r)
         \/ \E p \in 1..Len(login) : AccessExpires(p)
         \/ DeleteAccount
  PROVE  Fades /\ UNCHANGED <<ended, revoking>>
<1> USE DEF Fades, Peace
<1>1. ended \subseteq 1..Len(login) BY DEF LInv, Lines, Known
<1>2. ASSUME NEW r \in Req, Serve(r) PROVE Fades /\ UNCHANGED <<ended, revoking>>
  <2>1. GrantsKept BY <1>2 DEF Serve, GrantsKept, Granted, LInv, IInv, TypeOK, Requests
  <2> QED BY <1>1, <1>2, <2>1 DEF Serve
<1>3. ASSUME NEW r \in Req, Send(r) PROVE Fades /\ UNCHANGED <<ended, revoking>>
  <2>1. PICK k : req' = [req EXCEPT ![r].pc = "sent", ![r].kind = k, ![r].pair = stored]
    BY <1>3 DEF Send
  <2>2. GrantsKept BY <2>1 DEF GrantsKept, Granted, LInv, IInv, TypeOK, Requests
  <2> QED BY <1>1, <1>3, <2>2 DEF Send
<1>4. ASSUME NEW r \in Req, GiveUp(r) PROVE Fades /\ UNCHANGED <<ended, revoking>>
  <2>1. GrantsKept BY <1>4 DEF GiveUp, GrantsKept, Granted, LInv, IInv, TypeOK, Requests
  <2> QED BY <1>1, <1>4, <2>1 DEF GiveUp
<1>5. ASSUME NEW p \in 1..Len(login), AccessExpires(p)
      PROVE  Fades /\ UNCHANGED <<ended, revoking>>
  BY <1>1, <1>5 DEF AccessExpires, GrantsKept, Granted
<1>6. CASE DeleteAccount BY <1>1, <1>6 DEF DeleteAccount, GrantsKept, Granted
<1> QED BY <1>2, <1>3, <1>4, <1>5, <1>6

(* Waking what waits for a refresh gives nobody a login's answer.           *)
LEMMA WakeKeeps ==
  ASSUME TypeOK, NEW t \in Tab, NEW pc \in {"sent", "failed"}, NEW pair \in Nat,
         Wake(t, pc, pair)
  PROVE  GrantsKept
BY DEF Wake, Waiting, GrantsKept, Granted, TypeOK, Requests

(* A refused refresh ends, and nothing is stored any more.                  *)
LEMMA RefusedFades ==
  ASSUME LInv, NEW t \in Tab, RefreshRefused(t)
  PROVE  Fades /\ UNCHANGED <<ended, revoking>>
<1>1. GrantsKept
  <2>1. Wake(t, "failed", NoPair) BY DEF RefreshRefused, Rejected
  <2> QED BY <2>1, WakeKeeps DEF LInv, IInv, NoPair
<1>2. /\ stored' = NoPair /\ refresh' = [refresh EXCEPT ![t] = NoRefresh]
      /\ UNCHANGED <<login, live, ended, revoking>>
      /\ Peace' => Peace
  BY DEF RefreshRefused, Peace
<1>3. ended \subseteq 1..Len(login) BY DEF LInv, Lines, Known
<1>4. \A u \in Tab : Running(u)' => refresh'[u] = refresh[u]
  BY <1>2 DEF Running, NoRefresh, LInv, IInv, TypeOK
<1> QED BY <1>1, <1>2, <1>3, <1>4 DEF Fades

(* What is lost ends, too; what was promised for peace is over.             *)
LEMMA LostFades ==
  ASSUME LInv, Lose
  PROVE  Fades /\ ~Peace'
<1>1. UNCHANGED <<login, live, ended>> /\ ~Peace' /\ stored' \in {stored, NoPair}
  BY DEF Lose, Peace, StoredAfter
<1>2. GrantsKept /\ \A u \in Tab : Running(u)' => refresh'[u] = refresh[u]
  <2>1. CASE UNCHANGED <<req, refresh>> BY <2>1 DEF GrantsKept, Granted
  <2>2. ASSUME NEW r \in Req, req' = [req EXCEPT ![r].pc = "failed"], UNCHANGED refresh
        PROVE  GrantsKept /\ \A u \in Tab : Running(u)' => refresh'[u] = refresh[u]
    BY <2>2 DEF GrantsKept, Granted, LInv, IInv, TypeOK, Requests
  <2>3. ASSUME NEW t \in Tab, refresh' = [refresh EXCEPT ![t] = NoRefresh],
               Wake(t, "failed", NoPair)
        PROVE  GrantsKept /\ \A u \in Tab : Running(u)' => refresh'[u] = refresh[u]
    <3>1. GrantsKept BY <2>3, WakeKeeps DEF LInv, IInv, NoPair
    <3> QED BY <2>3, <3>1 DEF Running, NoRefresh, LInv, IInv, TypeOK
  <2> QED BY <2>1, <2>2, <2>3 DEF Lose
<1>3. ended \subseteq 1..Len(login) BY DEF LInv, Lines, Known
<1> QED BY <1>1, <1>2, <1>3 DEF Fades

(* A revocation arrives.                                                    *)
LEMMA RevokeFades ==
  ASSUME LInv, NEW p \in 1..Len(login), Revoke(p)
  PROVE  Fades /\ UNCHANGED ended /\ live' \intersect revoking \subseteq revoking'
BY DEF Revoke, Fades, GrantsKept, Granted, Peace, LInv, Lines, Known

(* A logout clears the stored pair, the last of its login: what it does not *)
(* revoke is on its way to a tab that refreshes that pair, and then the     *)
(* logout is not counted as peaceful.                                       *)
LEMMA LogoutStep ==
  ASSUME LInv, Logout
  PROVE  Lines' /\ Gone'
<1>1. /\ stored \in 1..Len(login) /\ stored # NoPair /\ stored' = NoPair
      /\ UNCHANGED <<login, live, req, refresh>>
      /\ revoking' = revoking \union {stored}
      /\ ended' = IF Refreshing(stored) THEN ended ELSE ended \union {login[stored]}
      /\ Peace' = Peace
  BY DEF Logout, RevokedAtLogout, Peace, LInv, Lines, Known, NoPair, IInv, TypeOK
<1>2. login[stored] \in 1..Len(login) BY <1>1 DEF LInv, IInv, TypeOK
<1>3. Lines'
  <2>1. GrantsKept BY <1>1 DEF GrantsKept, Granted
  <2>2. Fades BY <1>1, <1>2, <2>1 DEF Fades, LInv, Lines, Known
  <2> QED BY <2>2, FadingStep DEF LInv
<1>4. CASE Refreshing(stored)
  <2>1. Gone' BY <1>1, <1>4 DEF Gone, LInv, Spent, Won, Granted
  <2> QED BY <1>3, <2>1
<1>5. CASE ~Refreshing(stored)
  <2>0. SUFFICES ASSUME Peace PROVE Lines' /\ Gone' BY <1>1, <1>3 DEF Gone
  <2>1. \A t \in Tab : Running(t) => refresh[t].pair # stored
    BY <1>5 DEF Refreshing, Running
  <2>2. \A q \in live : Same(q, stored) => q = stored
    BY <1>1, <2>0, <2>1 DEF LInv, Lines, StoredIsLast, Minted, Running
  <2>3. \A t \in Tab : /\ refresh[t].pc = "sent" /\ refresh[t].pair \in live
                           => ~Same(refresh[t].pair, stored)
                       /\ Spent(t) => ~Same(refresh[t].pair, stored)
                       /\ Won(t) => ~Same(refresh[t].new, stored)
    BY <1>1, <2>0, <2>1, <2>2 DEF LInv, Lines, StoredIsLast, Spent, Won, Running
  <2>4. \A r \in Req : Granted(r) => ~Same(stored, req[r].pair)
    BY <1>1, <2>0 DEF LInv, Lines, GrantedIsOnly, Only, Same
  <2>5. Gone /\ ended' = ended \union {login[stored]} BY <1>1, <1>5 DEF LInv
  <2>6. \A q \in live : login[q] \in ended' => q \in revoking'
    BY <1>1, <2>0, <2>2, <2>5 DEF Gone, Same
  <2>7. \A t \in Tab :
         /\ refresh[t].pc = "sent" /\ refresh[t].pair \in live
              => login[refresh[t].pair] \notin ended'
         /\ Spent(t) => login[refresh[t].pair] \notin ended'
         /\ Won(t) => login[refresh[t].new] \notin ended'
    <3> TAKE t \in Tab
    <3>1. /\ refresh[t].pc = "sent" /\ refresh[t].pair \in live
               => login[refresh[t].pair] \notin ended
          /\ Spent(t) => login[refresh[t].pair] \notin ended
          /\ Won(t) => login[refresh[t].new] \notin ended
      BY <2>0, <2>5 DEF Gone
    <3>2. \A p : ~Same(p, stored) /\ login[p] \notin ended => login[p] \notin ended'
      BY <2>5 DEF Same
    <3> QED BY <2>3, <3>1, <3>2 DEF Same, Spent, Won
  <2>8. \A r \in Req : Granted(r) => login[req[r].pair] \notin ended'
    BY <2>0, <2>4, <2>5 DEF Gone, Same
  <2>9. Gone' BY <1>1, <2>6, <2>7, <2>8 DEF Gone, Spent, Won, Granted
  <2> QED BY <1>3, <2>9
<1> QED BY <1>4, <1>5

-----------------------------------------------------------------------------
(* The steps that move a pair.                                             *)

(* A login's pair is new to everybody.                                      *)
LEMMA LogInLines ==
  ASSUME LInv, NEW r \in Req, LogIn(r)
  PROVE  Lines' /\ Gone'
<1> DEFINE new == Len(login) + 1
<1>1. /\ login' = Append(login, new) /\ live' = live \union {new}
      /\ req' = [req EXCEPT ![r].pc = "ok", ![r].pair = new]
      /\ req[r].kind = "login" /\ req[r].pc = "sent"
      /\ UNCHANGED <<stored, refresh, revoking, ended, causes>>
  BY DEF LogIn, Mint
<1>2. /\ login' \in Seq(Nat) /\ Len(login') = new /\ new \in Nat /\ Len(login) \in Nat
      /\ \A p \in 1..Len(login) : login'[p] = login[p] /\ login[p] # new /\ p # new
      /\ login'[new] = new /\ new \notin ended /\ new \notin 0..Len(login)
      /\ 1..new = (1..Len(login)) \union {new} /\ 0..new = (0..Len(login)) \union {new}
  BY <1>1 DEF LInv, Lines, Known, IInv, TypeOK
<1>3. /\ req'[r].pc = "ok" /\ req'[r].pair = new /\ req'[r].kind = "login"
      /\ \A s \in Req \ {r} : req'[s] = req[s]
  BY <1>1 DEF LInv, IInv, TypeOK, Requests
<1>4. /\ live \subseteq 1..Len(login) /\ stored \in 0..Len(login)
      /\ \A t \in Tab : /\ Running(t) => refresh[t].pair \in 1..Len(login)
                        /\ Minted(t) => refresh[t].new \in 1..Len(login)
      /\ \A s \in Req : Granted(s) => req[s].pair \in 1..Len(login)
  BY DEF LInv, Lines, Known, IInv, TypeOK
<1>5. ~Granted(r) /\ \A t \in Tab : /\ Won(t) => Minted(t) /\ Running(t)
                                    /\ Spent(t) => Running(t)
                                    /\ Minted(t) => Running(t)
  BY <1>1 DEF Granted, Won, Minted, Running, Spent
<1>12. \A p, q \in 1..Len(login) :
         (login'[p] = login'[q] <=> Same(p, q)) /\ login'[p] # login'[new]
  BY <1>2 DEF Same
<1> HIDE DEF new
<1>6. Known' BY <1>1, <1>2, <1>3 DEF LInv, Lines, Known, Running, Minted, Granted
<1>7. Unheard'
  <2>1. \A p : Heard(p)' = Heard(p) BY <1>1 DEF Heard, Running
  <2>2. ~Heard(new) BY <1>2, <1>4 DEF Heard, Running
  <2>3. \A s \in Req : Granted(s)' => s = r \/ (Granted(s) /\ req'[s] = req[s])
    BY <1>3 DEF Granted
  <2>4. ASSUME NEW t \in Tab, Minted(t)'
        PROVE  /\ ~Heard(refresh[t].new)
               /\ \A u \in Tab : Minted(u) /\ refresh[u].new = refresh[t].new => u = t
               /\ \A s \in Req : Granted(s)' => req'[s].pair # refresh[t].new
    <3>1. Minted(t) /\ refresh[t].new # new BY <1>1, <1>2, <1>4, <2>4 DEF Minted
    <3> QED BY <1>3, <2>3, <3>1 DEF LInv, Lines, Unheard
  <2>5. ASSUME NEW s \in Req, Granted(s)'
        PROVE  /\ ~Heard(req'[s].pair)
               /\ \A q \in Req : Granted(q)' /\ req'[q].pair = req'[s].pair => q = s
    <3>1. \A q \in Req : Granted(q) => req'[r].pair # req[q].pair BY <1>2, <1>3, <1>4
    <3> QED BY <1>3, <2>2, <2>3, <2>5, <3>1 DEF LInv, Lines, Unheard
  <2> QED BY <1>1, <2>1, <2>4, <2>5 DEF Unheard, Minted
<1>8. StoredIsLast'
  BY <1>1, <1>2, <1>4, <1>5
  DEF LInv, Lines, StoredIsLast, Same, Peace, NoPair, Minted, Spent, Won
<1>9. WonIsLast'
  BY <1>1, <1>2, <1>4, <1>5 DEF LInv, Lines, WonIsLast, Same, Peace, Spent, Won
<1>10. GrantedIsOnly'
  <2>0. stored # NoPair => stored \in 1..Len(login) BY <1>4 DEF NoPair
  <2>1. ASSUME Peace PROVE Only(r)'
    <3>1. \A s \in Req : Granted(s)' => s = r \/ (Granted(s) /\ req'[s] = req[s])
      BY <1>3 DEF Granted
    <3>2. /\ \A q \in live' : login'[q] = login'[new] => q = new
          /\ \A u \in Tab : Spent(u) => login'[refresh[u].pair] # login'[new]
          /\ \A u \in Tab : Won(u) => login'[refresh[u].new] # login'[new]
          /\ stored # NoPair => login'[stored] # login'[new]
      BY <1>1, <1>4, <1>5, <1>12, <2>0
    <3>3. \A q \in Req : Granted(q)' /\ login'[req'[q].pair] = login'[new] => q = r
      BY <1>3, <1>4, <1>12, <3>1
    <3> QED BY <1>1, <1>3, <3>2, <3>3 DEF Only, Same, Spent, Won
  <2>2. ASSUME Peace, NEW s \in Req \ {r}, Granted(s) PROVE Only(s)'
    <3>1. Only(s) /\ req'[s] = req[s] /\ req[s].pair \in 1..Len(login)
      BY <1>3, <1>4, <2>2 DEF LInv, Lines, GrantedIsOnly
    <3>2. \A q \in Req : Granted(q)' => q = r \/ (Granted(q) /\ req'[q] = req[q])
      BY <1>3 DEF Granted
    <3>3. /\ \A q \in live' : login'[q] = login'[req[s].pair] => q = req[s].pair
          /\ \A u \in Tab : Spent(u) => login'[refresh[u].pair] # login'[req[s].pair]
          /\ \A u \in Tab : Won(u) => login'[refresh[u].new] # login'[req[s].pair]
          /\ stored # NoPair => login'[stored] # login'[req[s].pair]
      BY <1>1, <1>4, <1>5, <1>12, <2>0, <3>1 DEF Only
    <3>4. \A q \in Req : Granted(q)' /\ login'[req'[q].pair] = login'[req[s].pair] => q = s
      BY <1>3, <1>4, <1>12, <3>1, <3>2 DEF Only
    <3> QED BY <1>1, <3>1, <3>3, <3>4 DEF Only, Same, Spent, Won
  <2> QED BY <1>1, <1>3, <2>1, <2>2 DEF GrantedIsOnly, Granted, Peace
<1>11. Gone'
  <2> SUFFICES ASSUME Peace PROVE Gone' BY <1>1 DEF Gone, Peace
  <2>1. Gone BY DEF LInv
  <2>2. \A p \in 1..Len(login) : login[p] \notin ended => login'[p] \notin ended'
    BY <1>1, <1>2
  <2>3. stored' # NoPair => login'[stored'] \notin ended'
    BY <1>1, <1>4, <2>1, <2>2 DEF Gone, NoPair
  <2>4. \A q \in live' : login'[q] \in ended' => q \in revoking'
    BY <1>1, <1>2, <1>4, <2>1 DEF Gone
  <2>5. \A t \in Tab :
         /\ refresh[t].pc = "sent" /\ refresh[t].pair \in live'
              => login'[refresh[t].pair] \notin ended'
         /\ Spent(t) => login'[refresh[t].pair] \notin ended'
         /\ Won(t) => login'[refresh[t].new] \notin ended'
    BY <1>1, <1>2, <1>4, <1>5, <2>1, <2>2 DEF Gone, Running
  <2>6. \A s \in Req : Granted(s)' => login'[req'[s].pair] \notin ended'
    <3> TAKE s \in Req
    <3>1. CASE s = r BY <1>1, <1>2, <1>3, <3>1
    <3>2. CASE s # r
      <4>1. Granted(s)' => Granted(s) /\ req'[s].pair = req[s].pair BY <1>3, <3>2 DEF Granted
      <4> QED BY <1>4, <2>1, <2>2, <4>1 DEF Gone
    <3> QED BY <3>1, <3>2
  <2> QED BY <1>1, <2>3, <2>4, <2>5, <2>6 DEF Gone, Spent, Won
<1> QED BY <1>6, <1>7, <1>8, <1>9, <1>10, <1>11 DEF Lines

(* A login's answer arrives: its pair is stored, the only one of its login. *)
LEMMA ReceiveLines ==
  ASSUME LInv, NEW r \in Req, Receive(r)
  PROVE  Lines' /\ Gone'
<1>1. /\ Granted(r) /\ stored' = req[r].pair /\ req[r].pair \in 1..Len(login)
      /\ req' = [req EXCEPT ![r].pc = "done"]
      /\ UNCHANGED <<live, login, refresh, revoking, ended, causes>>
  BY DEF Receive, LInv, Lines, Known, Granted
<1>2. /\ req'[r].pc = "done"
      /\ \A s \in Req : s # r => req'[s] = req[s]
      /\ \A s \in Req : Granted(s)' => s # r /\ Granted(s) /\ req'[s] = req[s]
  BY <1>1 DEF Granted, LInv, IInv, TypeOK, Requests
<1>3. Len(login) \in Nat /\ stored' # NoPair BY <1>1 DEF LInv, IInv, TypeOK, NoPair
<1>4. \A t \in Tab : Minted(t) => Running(t)  BY DEF Minted, Running
<1>5. Known' BY <1>1, <1>2, <1>3 DEF LInv, Lines, Known, Running, Minted
<1>6. Unheard'
  <2>1. \A p : Heard(p)' => Heard(p) \/ p = req[r].pair BY <1>1 DEF Heard, Running
  <2> QED BY <1>1, <1>2, <2>1 DEF LInv, Lines, Unheard, Minted
<1>7. StoredIsLast'
  BY <1>1, <1>3 DEF LInv, Lines, GrantedIsOnly, Only, StoredIsLast, Same, Peace, Spent, Won
<1>8. WonIsLast' BY <1>1 DEF LInv, Lines, WonIsLast, Same, Peace, Spent, Won
<1>9. GrantedIsOnly'
  BY <1>1, <1>2 DEF LInv, Lines, GrantedIsOnly, Only, Same, Peace, Spent, Won
<1>10. Gone' BY <1>1, <1>2 DEF LInv, Gone, Peace, Spent, Won
<1> QED BY <1>5, <1>6, <1>7, <1>8, <1>9, <1>10 DEF Lines

(* A tab asks for the successor of the stored pair.                         *)
LEMMA AwaitLines ==
  ASSUME LInv, NEW r \in Req, AwaitRefresh(r)
  PROVE  Lines' /\ Gone'
<1> DEFINE t == TabOf[r]
<1>1. /\ t \in Tab /\ stored # NoPair
      /\ req' = [req EXCEPT ![r].pc = "waiting"]
      /\ Peace' => Peace
      /\ UNCHANGED <<stored, live, login, revoking, ended>>
  BY ReqAssumption DEF AwaitRefresh, Peace, Final
<1>2. \A s \in Req : Granted(s)' => Granted(s) /\ req'[s] = req[s]
  BY <1>1 DEF Granted, LInv, IInv, TypeOK, Requests
<1>3. CASE UNCHANGED refresh
  <2>1. GrantsKept BY <1>2 DEF GrantsKept
  <2>2. Fades BY <1>1, <1>3, <2>1 DEF Fades, LInv, Lines, Known
  <2> QED BY <1>1, <2>2, FadingStep, FadingGone DEF LInv
<1>4. CASE /\ refresh[t].pc = "none"
           /\ refresh' = [refresh EXCEPT ![t] = [pc |-> "sent", pair |-> stored, new |-> NoPair]]
  <2>1. /\ refresh'[t].pc = "sent" /\ refresh'[t].pair = stored
        /\ \A u \in Tab : u # t => refresh'[u] = refresh[u]
    BY <1>1, <1>4 DEF LInv, IInv, TypeOK
  <2>2. \A u \in Tab : /\ Minted(u)' <=> Minted(u)
                       /\ Won(u)' <=> Won(u)
                       /\ Spent(u)' <=> Spent(u)
                       /\ Minted(u) \/ Won(u) \/ Spent(u) => refresh'[u] = refresh[u]
    BY <1>4, <2>1 DEF Minted, Won, Spent
  <2>3. Known' BY <1>1, <1>2, <2>1, <2>2 DEF LInv, Lines, Known, Running, NoPair, IInv, TypeOK
  <2>4. Unheard'
    <3>1. \A p : Heard(p)' => Heard(p) BY <1>1, <2>1 DEF Heard, Running
    <3> QED BY <1>2, <2>2, <3>1 DEF LInv, Lines, Unheard
  <2>5. StoredIsLast' BY <1>1, <2>2 DEF LInv, Lines, StoredIsLast, Same
  <2>6. WonIsLast' BY <1>1, <2>2 DEF LInv, Lines, WonIsLast, Same
  <2>7. GrantedIsOnly' BY <1>1, <1>2, <2>2 DEF LInv, Lines, GrantedIsOnly, Only, Same
  <2>8. Gone' BY <1>1, <1>2, <2>1, <2>2 DEF LInv, Gone
  <2> QED BY <2>3, <2>4, <2>5, <2>6, <2>7, <2>8 DEF Lines
<1> QED BY <1>3, <1>4 DEF AwaitRefresh, Starts

(* A rotation spends a pair that somebody heard of, so none that is on its  *)
(* way, and there is no other of its login.                                 *)
LEMMA RotateLines ==
  ASSUME LInv, NEW t \in Tab, Rotate(t)
  PROVE  Lines' /\ Gone'
<1> DEFINE old == refresh[t].pair
<1>1. /\ refresh[t].pc = "sent" /\ old \in live /\ live' = live \ {old}
      /\ refresh' = [refresh EXCEPT ![t].pc = "spent"]
      /\ UNCHANGED <<stored, login, req, revoking, ended, causes>>
  BY DEF Rotate
<1>2. /\ refresh'[t].pc = "spent" /\ refresh'[t].pair = old
      /\ \A u \in Tab : u # t => refresh'[u] = refresh[u]
  BY <1>1 DEF LInv, IInv, TypeOK, Refreshes
<1>3. \A u \in Tab : /\ Running(u)' = Running(u) /\ refresh'[u].pair = refresh[u].pair
                     /\ Minted(u)' => Minted(u) /\ refresh'[u] = refresh[u]
                     /\ Won(u)' => Won(u) /\ refresh'[u] = refresh[u]
                     /\ Spent(u)' => u = t \/ (Spent(u) /\ refresh'[u] = refresh[u])
                     /\ Minted(u) => Minted(u)' /\ refresh'[u] = refresh[u]
  BY <1>1, <1>2 DEF Running, Minted, Won, Spent
<1>4. Heard(old) BY <1>1 DEF Heard, Running
<1>5. Lines BY DEF LInv
<1> HIDE DEF old
<1>6. Known' BY <1>1, <1>3, <1>5 DEF Lines, Known, Granted
<1>7. Unheard'
  <2>1. \A p : Heard(p)' = Heard(p) BY <1>1, <1>3 DEF Heard
  <2> QED BY <1>1, <1>3, <1>5, <2>1 DEF Lines, Unheard, Granted
<1>8. StoredIsLast'
  <2> SUFFICES ASSUME Peace, stored # NoPair PROVE StoredIsLast'
    BY <1>1 DEF StoredIsLast, Peace
  <2>1. Same(old, stored) => old = stored
    BY <1>1, <1>4, <1>5 DEF Lines, StoredIsLast, Unheard
  <2>2. \A q \in live' : Same(q, stored) =>
          \/ q = stored
          \/ \E u \in Tab : Minted(u)' /\ refresh'[u].pair = stored /\ refresh'[u].new = q
    BY <1>1, <1>3, <1>5 DEF Lines, StoredIsLast
  <2>3. \A u \in Tab : /\ Spent(u)' /\ Same(refresh'[u].pair, stored) => refresh'[u].pair = stored
                       /\ Won(u)' /\ Same(refresh'[u].new, stored) => refresh'[u].pair = stored
    BY <1>2, <1>3, <1>5, <2>1 DEF Lines, StoredIsLast
  <2> QED BY <1>1, <2>2, <2>3 DEF StoredIsLast, Same
<1>9. WonIsLast'
  <2> SUFFICES ASSUME Peace, NEW u \in Tab, Won(u)'
               PROVE  /\ \A q \in live' : Same(q, refresh'[u].new) => q = refresh'[u].new
                      /\ \A v \in Tab : Spent(v)' => ~Same(refresh'[v].pair, refresh'[u].new)
                      /\ \A v \in Tab : Won(v)' /\ Same(refresh'[v].new, refresh'[u].new)
                                          => v = u
    BY <1>1 DEF WonIsLast, Peace, Same
  <2>1. Won(u) /\ Minted(u) /\ refresh'[u] = refresh[u] BY <1>3 DEF Won, Minted
  <2>2. old # refresh[u].new BY <1>4, <1>5, <2>1 DEF Lines, Unheard
  <2>3. ~Same(old, refresh[u].new) BY <1>1, <1>5, <2>1, <2>2 DEF Lines, WonIsLast
  <2> QED BY <1>1, <1>2, <1>3, <1>5, <2>1, <2>3 DEF Lines, WonIsLast
<1>10. GrantedIsOnly'
  <2> SUFFICES ASSUME Peace, NEW r \in Req, Granted(r) PROVE Only(r)'
    BY <1>1 DEF GrantedIsOnly, Peace, Granted
  <2>1. Only(r) BY <1>5 DEF Lines, GrantedIsOnly
  <2>2. old # req[r].pair BY <1>4, <1>5 DEF Lines, Unheard
  <2>3. ~Same(old, req[r].pair) BY <1>1, <2>1, <2>2 DEF Only
  <2>4. \A u \in Tab : /\ Spent(u)' => ~Same(refresh'[u].pair, req[r].pair)
                       /\ Won(u)' => ~Same(refresh'[u].new, req[r].pair)
    BY <1>2, <1>3, <2>1, <2>3 DEF Only
  <2> QED BY <1>1, <2>1, <2>4 DEF Only, Same, Granted
<1>11. Gone'
  <2> SUFFICES ASSUME Peace PROVE Gone' BY <1>1 DEF Gone, Peace
  <2>1. Gone BY DEF LInv
  <2>2. login[old] \notin ended BY <1>1, <2>1 DEF Gone, old
  <2>3. \A u \in Tab : /\ refresh'[u].pc = "sent" /\ refresh'[u].pair \in live'
                            => login[refresh'[u].pair] \notin ended
                       /\ Spent(u)' => login[refresh'[u].pair] \notin ended
                       /\ Won(u)' => login[refresh'[u].new] \notin ended
    <3> TAKE u \in Tab
    <3>1. CASE u = t BY <1>2, <2>2, <3>1 DEF Won
    <3>2. CASE u # t BY <1>1, <1>2, <1>3, <2>1, <3>2 DEF Gone
    <3> QED BY <3>1, <3>2
  <2> QED BY <1>1, <2>1, <2>3 DEF Gone, Granted
<1> QED BY <1>6, <1>7, <1>8, <1>9, <1>10, <1>11 DEF Lines

(* The pair that a rotation makes takes the place of the one it spent: it   *)
(* is the last of its login, and nobody has heard of it.                    *)
LEMMA IssueLines ==
  ASSUME LInv, NEW t \in Tab, Issue(t)
  PROVE  Lines' /\ Gone'
<1> DEFINE new == Len(login) + 1
           old == refresh[t].pair
<1>1. /\ Spent(t) /\ old \in 1..Len(login)
      /\ login' = Append(login, login[old]) /\ live' = (live \ {old}) \union {new}
      /\ refresh' = [refresh EXCEPT ![t].pc = IF account THEN "yes" ELSE "no", ![t].new = new]
      /\ UNCHANGED <<stored, req, revoking, ended, causes>>
  BY DEF Issue, Mint, LInv, IInv, SpentIsKnown, Spent
<1>2. /\ Len(login') = new /\ new \in Nat /\ new \notin 0..Len(login)
      /\ 1..new = (1..Len(login)) \union {new} /\ 0..new = (0..Len(login)) \union {new}
      /\ \A p \in 1..Len(login) : login'[p] = login[p]
      /\ login'[new] = login[old]
  BY <1>1 DEF LInv, IInv, TypeOK
<1>3. /\ refresh'[t].pc \in {"yes", "no"} /\ refresh'[t].pair = old /\ refresh'[t].new = new
      /\ \A u \in Tab : u # t => refresh'[u] = refresh[u]
  BY <1>1 DEF LInv, IInv, TypeOK, Refreshes
<1>4. \A u \in Tab : /\ Running(u)' => Running(u) /\ refresh'[u].pair = refresh[u].pair
                     /\ Minted(u)' => u = t \/ (Minted(u) /\ refresh'[u] = refresh[u])
                     /\ Minted(u) => Minted(u)' /\ refresh'[u] = refresh[u]
                     /\ Won(u)' => u = t \/ (Won(u) /\ refresh'[u] = refresh[u])
                     /\ Spent(u)' => u # t /\ Spent(u) /\ refresh'[u] = refresh[u]
  BY <1>1, <1>3 DEF Running, Minted, Won, Spent
<1>5. /\ live \subseteq 1..Len(login) /\ (stored # NoPair => stored \in 1..Len(login))
      /\ \A u \in Tab : /\ Running(u) => refresh[u].pair \in 1..Len(login)
                        /\ Minted(u) => refresh[u].new \in 1..Len(login)
                        /\ Spent(u) => refresh[u].pair \in 1..Len(login)
                        /\ Won(u) => refresh[u].new \in 1..Len(login)
      /\ \A r \in Req : Granted(r) => req[r].pair \in 1..Len(login)
      /\ stored \in 0..Len(login)
  BY DEF LInv, Lines, Known, IInv, TypeOK, Running, Minted, Spent, Won, NoPair
<1>6. Lines BY DEF LInv
<1>7. /\ \A p \in live : ~Same(p, old)
      /\ \A u \in Tab : Spent(u) /\ u # t => ~Same(refresh[u].pair, old)
  BY <1>1 DEF LInv, IInv, SpentIsOnly, SpentOnce, Same
<1>8. \A p, q \in 1..Len(login) :
        (login'[p] = login'[q] <=> Same(p, q)) /\ (login'[p] = login'[new] <=> Same(p, old))
  BY <1>1, <1>2 DEF Same
<1> HIDE DEF new, old
<1>9. Known'
  BY <1>1, <1>2, <1>3, <1>4, <1>5, <1>6 DEF Lines, Known, Granted
<1>10. Unheard'
  <2>1. \A p : Heard(p)' => Heard(p) BY <1>1, <1>4 DEF Heard
  <2>2. ~Heard(new) BY <1>2, <1>5 DEF Heard
  <2>3. ASSUME NEW u \in Tab, Minted(u)'
        PROVE  /\ ~Heard(refresh'[u].new)
               /\ \A v \in Tab : Minted(v)' /\ refresh'[v].new = refresh'[u].new => v = u
               /\ \A r \in Req : Granted(r) => req[r].pair # refresh'[u].new
    <3>1. CASE u = t BY <1>2, <1>3, <1>4, <1>5, <2>2, <3>1
    <3>2. CASE u # t
      <4>1. Minted(u) /\ refresh'[u] = refresh[u] BY <1>4, <2>3, <3>2
      <4>2. refresh[u].new # new BY <1>2, <1>5, <4>1
      <4> QED BY <1>3, <1>4, <1>6, <4>1, <4>2 DEF Lines, Unheard
    <3> QED BY <3>1, <3>2
  <2> QED BY <1>1, <1>6, <2>1, <2>3 DEF Lines, Unheard, Granted
<1>11. StoredIsLast'
  <2> SUFFICES ASSUME Peace, stored # NoPair PROVE StoredIsLast'
    BY <1>1 DEF StoredIsLast, Peace
  <2>1. Same(old, stored) => old = stored
    BY <1>1, <1>6 DEF Lines, StoredIsLast, old
  <2>2. \A q \in live' : login'[q] = login'[stored] =>
          \/ q = stored
          \/ \E u \in Tab : Minted(u)' /\ refresh'[u].pair = stored /\ refresh'[u].new = q
    <3> TAKE q \in live'
    <3>1. CASE q = new
      <4>1. Minted(t)' BY <1>3 DEF Minted
      <4> QED BY <1>3, <1>5, <1>8, <2>1, <3>1, <4>1 DEF Same
    <3>2. CASE q \in live
      BY <1>4, <1>5, <1>6, <1>8, <3>2 DEF Lines, StoredIsLast
    <3> QED BY <1>1, <3>1, <3>2
  <2>3. \A u \in Tab : /\ Spent(u)' /\ login'[refresh'[u].pair] = login'[stored]
                            => refresh'[u].pair = stored
                       /\ Won(u)' /\ login'[refresh'[u].new] = login'[stored]
                            => refresh'[u].pair = stored
    <3> TAKE u \in Tab
    <3>1. CASE u = t BY <1>3, <1>4, <1>5, <1>8, <2>1, <3>1 DEF Same
    <3>2. CASE u # t BY <1>4, <1>5, <1>6, <1>8, <3>2 DEF Lines, StoredIsLast
    <3> QED BY <3>1, <3>2
  <2> QED BY <1>1, <2>2, <2>3 DEF StoredIsLast, Same
<1>12. WonIsLast'
  <2> SUFFICES ASSUME Peace, NEW u \in Tab, Won(u)'
               PROVE  /\ \A q \in live' : login'[q] = login'[refresh'[u].new]
                                          => q = refresh'[u].new
                      /\ \A v \in Tab : Spent(v)'
                           => login'[refresh'[v].pair] # login'[refresh'[u].new]
                      /\ \A v \in Tab :
                           Won(v)' /\ login'[refresh'[v].new] = login'[refresh'[u].new]
                             => v = u
    BY <1>1 DEF WonIsLast, Peace, Same
  <2>1. \A v \in Tab : Won(v) => ~Same(old, refresh[v].new)
    BY <1>1, <1>6 DEF Lines, WonIsLast, old
  <2>2. CASE u = t
    <3>1. \A q \in live' : login'[q] = login'[new] => q = new
      BY <1>1, <1>5, <1>7, <1>8
    <3>2. \A v \in Tab : Spent(v)' => login'[refresh'[v].pair] # login'[new]
      BY <1>4, <1>5, <1>7, <1>8
    <3>3. \A v \in Tab : Won(v)' /\ login'[refresh'[v].new] = login'[new] => v = t
      BY <1>4, <1>5, <1>8, <2>1 DEF Same
    <3> QED BY <1>3, <2>2, <3>1, <3>2, <3>3
  <2>3. CASE u # t
    <3>1. Won(u) /\ refresh'[u] = refresh[u] BY <1>4, <2>3
    <3>2. \A q \in live' : login'[q] = login'[refresh[u].new] => q = refresh[u].new
      <4> TAKE q \in live'
      <4>1. CASE q = new BY <1>5, <1>8, <2>1, <3>1, <4>1 DEF Same
      <4>2. CASE q \in live BY <1>5, <1>6, <1>8, <3>1, <4>2 DEF Lines, WonIsLast
      <4> QED BY <1>1, <4>1, <4>2
    <3>3. \A v \in Tab : Spent(v)' => login'[refresh'[v].pair] # login'[refresh[u].new]
      BY <1>4, <1>5, <1>6, <1>8, <3>1 DEF Lines, WonIsLast
    <3>4. \A v \in Tab : Won(v)' /\ login'[refresh'[v].new] = login'[refresh[u].new] => v = u
      <4> TAKE v \in Tab
      <4>1. CASE v = t BY <1>3, <1>5, <1>8, <2>1, <3>1, <4>1 DEF Same
      <4>2. CASE v # t BY <1>4, <1>5, <1>6, <1>8, <3>1, <4>2 DEF Lines, WonIsLast
      <4> QED BY <4>1, <4>2
    <3> QED BY <3>1, <3>2, <3>3, <3>4
  <2> QED BY <2>2, <2>3
<1>13. GrantedIsOnly'
  <2> SUFFICES ASSUME Peace, NEW r \in Req, Granted(r) PROVE Only(r)'
    BY <1>1 DEF GrantedIsOnly, Peace, Granted
  <2>1. Only(r) /\ req[r].pair \in 1..Len(login) BY <1>5, <1>6 DEF Lines, GrantedIsOnly
  <2>2. ~Same(old, req[r].pair) BY <1>1, <2>1 DEF Only, old
  <2>3. \A q \in live' : login'[q] = login'[req[r].pair] => q = req[r].pair
    BY <1>1, <1>5, <1>8, <2>1, <2>2 DEF Only, Same
  <2>4. \A u \in Tab : /\ Spent(u)' => login'[refresh'[u].pair] # login'[req[r].pair]
                       /\ Won(u)' => login'[refresh'[u].new] # login'[req[r].pair]
    <3> TAKE u \in Tab
    <3>1. CASE u = t BY <1>3, <1>4, <1>8, <2>1, <2>2, <3>1 DEF Same
    <3>2. CASE u # t BY <1>4, <1>5, <1>8, <2>1, <3>2 DEF Only
    <3> QED BY <3>1, <3>2
  <2>5. /\ stored # NoPair => login'[stored] # login'[req[r].pair]
        /\ \A s \in Req : Granted(s) /\ login'[req[s].pair] = login'[req[r].pair] => s = r
    BY <1>5, <1>8, <2>1 DEF Only
  <2> QED BY <1>1, <2>3, <2>4, <2>5 DEF Only, Same, Granted
<1>14. Gone'
  <2> SUFFICES ASSUME Peace PROVE Gone' BY <1>1 DEF Gone, Peace
  <2>1. Gone BY DEF LInv
  <2>2. login[old] \notin ended BY <1>1, <2>1 DEF Gone, old
  <2>3. /\ stored' # NoPair => login'[stored'] \notin ended'
        /\ \A q \in live' : login'[q] \in ended' => q \in revoking'
        /\ \A r \in Req : Granted(r)' => login'[req'[r].pair] \notin ended'
    BY <1>1, <1>2, <1>5, <2>1, <2>2 DEF Gone, Granted
  <2>4. \A u \in Tab : /\ refresh'[u].pc = "sent" /\ refresh'[u].pair \in live'
                            => login'[refresh'[u].pair] \notin ended'
                       /\ Spent(u)' => login'[refresh'[u].pair] \notin ended'
                       /\ Won(u)' => login'[refresh'[u].new] \notin ended'
    <3> TAKE u \in Tab
    <3>1. CASE u = t BY <1>1, <1>2, <1>3, <2>2, <3>1 DEF Won, Spent
    <3>2. CASE u # t
      <4>1. refresh'[u] = refresh[u] /\ (refresh[u].pc = "sent" => Running(u))
        BY <1>3, <3>2 DEF Running
      <4>2. \A p \in 1..Len(login) : p \in live' => p \in live BY <1>1, <1>2
      <4> QED BY <1>1, <1>2, <1>4, <1>5, <2>1, <3>2, <4>1, <4>2 DEF Gone
    <3> QED BY <3>1, <3>2
  <2> QED BY <2>3, <2>4 DEF Gone
<1> QED BY <1>9, <1>10, <1>11, <1>12, <1>13, <1>14 DEF Lines

(* The pair that a rotation gave arrives and is stored.                     *)
LEMMA SucceedsLines ==
  ASSUME LInv, NEW t \in Tab, RefreshSucceeds(t)
  PROVE  Lines' /\ Gone'
<1> DEFINE new == refresh[t].new
<1>1. /\ Won(t) /\ Minted(t) /\ stored' = new /\ new \in 1..Len(login) /\ new # NoPair
      /\ refresh' = [refresh EXCEPT ![t] = NoRefresh]
      /\ Wake(t, "sent", new)
      /\ UNCHANGED <<live, login, revoking, ended, causes>>
  BY DEF RefreshSucceeds, Kept, Won, Minted, LInv, Lines, Known, NoPair
<1>2. GrantsKept
  <2>1. new \in Nat BY <1>1 DEF LInv, IInv, TypeOK
  <2> QED BY <1>1, <2>1, WakeKeeps DEF LInv, IInv
<1>3. /\ ~Running(t)'
      /\ \A u \in Tab : u # t => refresh'[u] = refresh[u]
  BY <1>1 DEF LInv, IInv, TypeOK, NoRefresh, Running
<1>4. \A u \in Tab : /\ Running(u)' => u # t /\ Running(u) /\ refresh'[u] = refresh[u]
                     /\ Minted(u)' => u # t /\ Minted(u) /\ refresh'[u] = refresh[u]
                     /\ Won(u)' => u # t /\ Won(u) /\ refresh'[u] = refresh[u]
                     /\ Spent(u)' => u # t /\ Spent(u) /\ refresh'[u] = refresh[u]
  BY <1>3 DEF Running, Minted, Won, Spent
<1>5. Lines /\ Len(login) \in Nat BY DEF LInv, IInv, TypeOK
<1> HIDE DEF new
<1>6. Known' BY <1>1, <1>2, <1>4, <1>5 DEF Lines, Known, GrantsKept
<1>7. Unheard'
  <2>1. \A p : Heard(p)' => Heard(p) \/ p = new BY <1>1, <1>4 DEF Heard
  <2>2. \A u \in Tab : Minted(u)' => refresh[u].new # new
    BY <1>1, <1>4, <1>5 DEF Lines, Unheard, new
  <2>3. \A r \in Req : Granted(r) => req[r].pair # new
    BY <1>1, <1>5 DEF Lines, Unheard, new
  <2> QED BY <1>2, <1>4, <1>5, <2>1, <2>2, <2>3 DEF Lines, Unheard, GrantsKept
<1>8. StoredIsLast'
  BY <1>1, <1>4, <1>5 DEF Lines, WonIsLast, StoredIsLast, Same, Peace, new
<1>9. WonIsLast' BY <1>1, <1>4, <1>5 DEF Lines, WonIsLast, Same, Peace
<1>10. GrantedIsOnly'
  BY <1>1, <1>2, <1>4, <1>5 DEF Lines, GrantedIsOnly, Only, Same, Peace, GrantsKept, new
<1>11. Gone'
  <2> SUFFICES ASSUME Peace PROVE Gone' BY <1>1 DEF Gone, Peace
  <2>1. Gone BY DEF LInv
  <2>2. login[new] \notin ended BY <1>1, <2>1 DEF Gone, new
  <2>3. \A u \in Tab : refresh'[u].pc = "sent" => refresh'[u] = refresh[u]
    BY <1>3, <1>4 DEF Running
  <2> QED BY <1>1, <1>2, <1>4, <2>1, <2>2, <2>3 DEF Gone, GrantsKept
<1> QED BY <1>6, <1>7, <1>8, <1>9, <1>10, <1>11 DEF Lines

(* Every step keeps the lines of the logins, and the ended ones ended.      *)
LEMMA LinesStep == LInv /\ [Next]_vars => LInv'
<1> SUFFICES ASSUME LInv, [Next]_vars PROVE Lines' /\ Gone' BY NextStep DEF LInv
<1>1. ASSUME NEW r \in Req, LogIn(r) PROVE Lines' /\ Gone' BY <1>1, LogInLines
<1>2. ASSUME NEW r \in Req, Receive(r) PROVE Lines' /\ Gone' BY <1>2, ReceiveLines
<1>3. ASSUME NEW r \in Req, AwaitRefresh(r) PROVE Lines' /\ Gone' BY <1>3, AwaitLines
<1>4. ASSUME \/ \E r \in Req : Serve(r) \/ Send(r) \/ GiveUp(r)
             \/ \E p \in 1..Len(login) : AccessExpires(p)
             \/ DeleteAccount
      PROVE  Lines' /\ Gone'
  <2>1. Fades /\ UNCHANGED <<ended, revoking>> BY <1>4, RequestsFade
  <2> QED BY <2>1, FadingStep, FadingGone DEF LInv
<1>5. ASSUME NEW t \in Tab, Rotate(t) PROVE Lines' /\ Gone' BY <1>5, RotateLines
<1>6. ASSUME NEW t \in Tab, Issue(t) PROVE Lines' /\ Gone' BY <1>6, IssueLines
<1>7. ASSUME NEW t \in Tab, RefreshSucceeds(t) PROVE Lines' /\ Gone'
  BY <1>7, SucceedsLines
<1>8. ASSUME NEW t \in Tab, RefreshRefused(t) PROVE Lines' /\ Gone'
  <2>1. Fades /\ UNCHANGED <<ended, revoking>> BY <1>8, RefusedFades
  <2> QED BY <2>1, FadingStep, FadingGone DEF LInv
<1>9. ASSUME NEW p \in 1..Len(login), Revoke(p) PROVE Lines' /\ Gone'
  BY <1>9, RevokeFades, FadingStep, FadingGone DEF LInv
<1>10. CASE Logout BY <1>10, LogoutStep
<1>11. CASE Lose
  <2>1. Fades /\ ~Peace' BY <1>11, LostFades
  <2> QED BY <2>1, FadingStep, FadingGone DEF LInv
<1>12. CASE UNCHANGED vars
  <2>1. /\ Fades /\ UNCHANGED <<ended, revoking>>
    BY <1>12 DEF vars, Fades, GrantsKept, Granted, Peace, LInv, Lines, Known
  <2> QED BY <2>1, FadingStep, FadingGone DEF LInv
<1> QED
  BY <1>1, <1>2, <1>3, <1>4, <1>5, <1>6, <1>7, <1>8, <1>9, <1>10, <1>11, <1>12
  DEF Next, ReqStep, RefreshStep

(* In every state the lines of the logins are as stated.                    *)
LEMMA LinesInvariance == Spec => []LInv
<1>1. Init => LInv BY InitHolds, InitLines DEF LInv
<1> QED BY <1>1, LinesStep, PTL DEF Spec

(* Whatever tabs refresh and requests run, and wherever rotations fail:     *)
(* once the logout of a login has reached the server, no token of it can be *)
(* exchanged and none comes back into the browser, if no message was lost   *)
(* and no refresh of the pair was running when the user logged out.         *)
THEOREM Logouts == Spec => []LogoutIsFinal
<1>1. LInv => LogoutIsFinal BY DEF LInv, Gone, Peace, LogoutIsFinal
<1> QED BY <1>1, LinesInvariance, PTL

-----------------------------------------------------------------------------
(* Expiry.  As long as nothing is to blame, the stored pair can be          *)
(* exchanged, or its tab is exchanging it, or the browser has none; so that *)
(* every refresh is answered with a pair, and every retry is authorised.    *)

RefreshesWin ==
  /\ \A t \in Tab : /\ refresh[t].pc # "no"
                    /\ refresh[t].pc = "sent" => refresh[t].pair \in live
                    /\ Won(t) => refresh[t].new \in live \intersect fresh
  /\ \A t, u \in Tab :
       Running(t) /\ Running(u) /\ refresh[t].pair = refresh[u].pair => t = u

StoredIsGood ==
  stored # NoPair =>
    \/ stored \in live
    \/ \E t \in Tab : refresh[t].pc \in {"spent", "yes"} /\ refresh[t].pair = stored

RequestsWin ==
  \A r \in Req :
    /\ Granted(r) => req[r].pair \in live
    /\ req[r].pc = "new" => ~req[r].retry
    /\ req[r].pc = "sent" /\ req[r].retry => req[r].pair \in fresh
    /\ req[r].kind \in Calls /\ req[r].pc # "new" => stored # NoPair /\ req[r].pc # "failed"

Untroubled ==
  causes = {} => account /\ revoking = {} /\ RefreshesWin /\ StoredIsGood /\ RequestsWin

(* There is nothing under way at first, and the stored pair is good.        *)
LEMMA InitUntroubled == Init => Untroubled
BY DEF Init, Untroubled, RefreshesWin, StoredIsGood, RequestsWin, NewReq, NoRefresh,
       Running, Won, Granted, NoPair

(* Requests, in a time without trouble.                                     *)
LEMMA RequestsUntroubled ==
  ASSUME LInv, Untroubled, causes = {}, NEW r \in Req,
         Serve(r) \/ Send(r) \/ GiveUp(r) \/ LogIn(r) \/ Receive(r)
  PROVE  Untroubled'
<1> USE DEF Untroubled
<1>0. /\ req \in [Req -> Requests] /\ live \subseteq 1..Len(login)
      /\ \A s \in Req : Granted(s) => req[s].pair \in 1..Len(login) /\ req[s].kind = "login"
  BY DEF LInv, Lines, Known, IInv, TypeOK
<1>1. CASE Serve(r)
  BY <1>0, <1>1 DEF Serve, RefreshesWin, StoredIsGood, RequestsWin, Running, Won, Granted,
                    Requests
<1>2. CASE Send(r)
  <2>1. PICK k \in KindsOf[r] :
          /\ k \in Calls => stored # NoPair
          /\ req' = [req EXCEPT ![r].pc = "sent", ![r].kind = k, ![r].pair = stored]
    BY <1>2 DEF Send
  <2>2. /\ req'[r].pc = "sent" /\ req'[r].kind = k /\ ~req'[r].retry
        /\ \A s \in Req : s # r => req'[s] = req[s]
    BY <1>0, <1>2, <2>1 DEF Send, Requests, RequestsWin
  <2>3. UNCHANGED <<stored, live, fresh, account, refresh, revoking, causes>>
    BY <1>2 DEF Send
  <2>4. RequestsWin'
    <3> SUFFICES ASSUME NEW s \in Req
                 PROVE  /\ Granted(s)' => req'[s].pair \in live
                        /\ req'[s].pc = "new" => ~req'[s].retry
                        /\ req'[s].pc = "sent" /\ req'[s].retry => req'[s].pair \in fresh
                        /\ req'[s].kind \in Calls /\ req'[s].pc # "new"
                             => stored # NoPair /\ req'[s].pc # "failed"
      BY <2>3 DEF RequestsWin
    <3>1. CASE s = r BY <2>1, <2>2, <3>1 DEF Granted
    <3>2. CASE s # r BY <2>2, <3>2 DEF Granted, RequestsWin
    <3> QED BY <3>1, <3>2
  <2> QED BY <2>3, <2>4 DEF RefreshesWin, StoredIsGood, Running, Won
<1>3. CASE GiveUp(r)
  <2>1. req[r].kind \notin Calls
    BY <1>3 DEF GiveUp, Unauthorised, Authorised, Final, Calls, RequestsWin
  <2> QED
    BY <1>0, <1>3, <2>1
    DEF GiveUp, Loads, Calls, RefreshesWin, StoredIsGood, RequestsWin, Running, Won, Granted, Requests
<1>4. CASE LogIn(r)
  <2>1. req[r].kind = "login" BY <1>4 DEF LogIn
  <2> QED
    BY <1>0, <1>4, <2>1
    DEF LogIn, Mint, Calls, RefreshesWin, StoredIsGood, RequestsWin, Running, Won, Granted, Requests
<1>5. CASE Receive(r)
  <2>1. Granted(r) /\ stored' = req[r].pair /\ stored' # NoPair /\ stored' \in live
    BY <1>0, <1>5 DEF Receive, Granted, RequestsWin, NoPair
  <2> QED
    BY <1>0, <1>5, <2>1
    DEF Receive, RefreshesWin, StoredIsGood, RequestsWin, Running, Won, Granted, Requests
<1> QED BY <1>1, <1>2, <1>3, <1>4, <1>5

(* A tab that asks for a successor asks for one of a pair that can be       *)
(* exchanged; had another tab asked before, that would be to blame.         *)
LEMMA AwaitUntroubled ==
  ASSUME LInv, Untroubled, causes' = {}, NEW r \in Req, AwaitRefresh(r)
  PROVE  Untroubled'
<1> DEFINE t == TabOf[r]
<1>0. req \in [Req -> Requests] /\ refresh \in [Tab -> Refreshes]
  BY DEF LInv, IInv, TypeOK
<1>1. /\ t \in Tab /\ stored # NoPair /\ req[r].pc = "sent"
      /\ req' = [req EXCEPT ![r].pc = "waiting"]
      /\ causes = {}
      /\ UNCHANGED <<stored, live, fresh, login, account, revoking>>
  BY ReqAssumption DEF AwaitRefresh, Final, Unauthorised
<1>2. account /\ revoking = {} /\ RefreshesWin /\ StoredIsGood /\ RequestsWin
  BY <1>1 DEF Untroubled
<1>3. RequestsWin' BY <1>0, <1>1, <1>2 DEF RequestsWin, Granted, Requests
<1>4. CASE UNCHANGED refresh
  BY <1>1, <1>2, <1>3, <1>4 DEF Untroubled, RefreshesWin, StoredIsGood, Running, Won
<1>5. CASE ~Starts(t) BY <1>4, <1>5 DEF AwaitRefresh
<1>6. CASE Starts(t)
  <2>1. /\ refresh[t].pc = "none" /\ ~RacesOtherTab(t)
        /\ refresh' = [refresh EXCEPT ![t] = [pc |-> "sent", pair |-> stored, new |-> NoPair]]
    BY <1>1, <1>6 DEF AwaitRefresh, Starts
  <2>2. /\ refresh'[t].pc = "sent" /\ refresh'[t].pair = stored
        /\ \A u \in Tab : u # t => refresh'[u] = refresh[u]
    BY <1>0, <1>1, <2>1
  <2>3. \A u \in Tab : Running(u) => refresh[u].pair # stored
    BY <2>1 DEF RacesOtherTab, Running
  <2>4. stored \in live BY <1>1, <1>2, <2>3 DEF StoredIsGood, Running
  <2>5. RefreshesWin' BY <1>1, <1>2, <2>2, <2>3, <2>4 DEF RefreshesWin, Running, Won
  <2> QED BY <1>1, <1>2, <1>3, <2>4, <2>5 DEF Untroubled, StoredIsGood
<1> QED BY <1>5, <1>6

(* The server's half of a refresh gives the pair that was promised.         *)
LEMMA RotateUntroubled ==
  ASSUME LInv, Untroubled, causes = {}, NEW t \in Tab, Rotate(t)
  PROVE  Untroubled'
<1> DEFINE old == refresh[t].pair
<1>0. refresh \in [Tab -> Refreshes] /\ Unheard BY DEF LInv, Lines, IInv, TypeOK
<1>1. /\ refresh[t].pc = "sent" /\ old \in live /\ live' = live \ {old}
      /\ refresh' = [refresh EXCEPT ![t].pc = "spent"]
      /\ UNCHANGED <<stored, fresh, login, account, req, revoking, causes>>
  BY DEF Rotate
<1>2. /\ refresh'[t].pc = "spent" /\ refresh'[t].pair = old
      /\ \A u \in Tab : u # t => refresh'[u] = refresh[u]
  BY <1>0, <1>1 DEF Refreshes
<1>3. Heard(old) /\ Running(t) BY <1>1 DEF Heard, Running
<1>4. account /\ revoking = {} /\ RefreshesWin /\ StoredIsGood /\ RequestsWin
  BY DEF Untroubled
<1> HIDE DEF old
<1>5. RefreshesWin'
  <2>1. \A u \in Tab : u # t /\ Running(u) => refresh[u].pair # old
    BY <1>3, <1>4 DEF RefreshesWin, old
  <2>2. \A u \in Tab : Won(u) => refresh[u].new # old
    BY <1>0, <1>3 DEF Unheard, Minted, Won
  <2> QED BY <1>1, <1>2, <1>3, <1>4, <2>1, <2>2 DEF RefreshesWin, Running, Won, old
<1>6. StoredIsGood' BY <1>1, <1>2, <1>4 DEF StoredIsGood
<1>7. RequestsWin'
  <2>1. \A r \in Req : Granted(r) => req[r].pair # old BY <1>0, <1>3 DEF Unheard
  <2> QED BY <1>1, <1>4, <2>1 DEF RequestsWin, Granted
<1> QED BY <1>1, <1>4, <1>5, <1>6, <1>7 DEF Untroubled

(* A rotation that stores its pair leaves its tab with a refresh that wins. *)
LEMMA IssueUntroubled ==
  ASSUME LInv, Untroubled, causes = {}, NEW t \in Tab, Issue(t)
  PROVE  Untroubled'
<1> DEFINE new == Len(login) + 1
           old == refresh[t].pair
<1>0. /\ refresh \in [Tab -> Refreshes] /\ Unheard /\ Len(login) \in Nat
      /\ SpentIsOnly
  BY DEF LInv, Lines, IInv, TypeOK
<1>1. account /\ revoking = {} /\ RefreshesWin /\ StoredIsGood /\ RequestsWin
  BY DEF Untroubled
<1>2. /\ refresh[t].pc = "spent" /\ live' = (live \ {old}) \union {new}
      /\ fresh' = fresh \union {new}
      /\ refresh' = [refresh EXCEPT ![t].pc = "yes", ![t].new = new]
      /\ UNCHANGED <<stored, account, req, revoking, causes>>
  BY <1>1 DEF Issue, Mint
<1>3. /\ refresh'[t].pc = "yes" /\ refresh'[t].pair = old /\ refresh'[t].new = new
      /\ \A u \in Tab : u # t => refresh'[u] = refresh[u]
  BY <1>0, <1>2 DEF Refreshes
<1>4. old \notin live BY <1>0, <1>2 DEF SpentIsOnly, Spent
<1>5. live' = live \union {new} BY <1>2, <1>4
<1> HIDE DEF new, old
<1>6. RefreshesWin'
  <2>1. \A u \in Tab : /\ refresh'[u].pc # "no"
                       /\ refresh'[u].pc = "sent" => refresh'[u].pair \in live'
                       /\ Won(u)' => refresh'[u].new \in live' \intersect fresh'
    <3> TAKE u \in Tab
    <3>1. CASE u = t
      <4>1. new \in live' \intersect fresh' BY <1>2, <1>5
      <4> QED BY <1>3, <3>1, <4>1
    <3>2. CASE u # t
      <4>1. live \subseteq live' /\ fresh \subseteq fresh' BY <1>2, <1>5
      <4>2. refresh'[u] = refresh[u] BY <1>3, <3>2
      <4> QED BY <1>1, <4>1, <4>2 DEF RefreshesWin, Won
    <3> QED BY <3>1, <3>2
  <2>2. \A u \in Tab : Running(u)' => Running(u) /\ refresh'[u].pair = refresh[u].pair
    BY <1>2, <1>3 DEF Running, old
  <2>3. \A u, v \in Tab :
          Running(u)' /\ Running(v)' /\ refresh'[u].pair = refresh'[v].pair => u = v
    BY <1>1, <2>2 DEF RefreshesWin
  <2> QED BY <2>1, <2>3 DEF RefreshesWin
<1>7. StoredIsGood' BY <1>1, <1>2, <1>3, <1>5 DEF StoredIsGood, old
<1>8. RequestsWin' BY <1>1, <1>2, <1>5 DEF RequestsWin, Granted
<1> QED BY <1>1, <1>2, <1>6, <1>7, <1>8 DEF Untroubled

(* Its answer is stored, and each request is sent once more, authorised.    *)
LEMMA SucceedsUntroubled ==
  ASSUME LInv, Untroubled, causes = {}, NEW t \in Tab, RefreshSucceeds(t)
  PROVE  Untroubled'
<1> DEFINE new == refresh[t].new
<1>0. /\ refresh \in [Tab -> Refreshes] /\ req \in [Req -> Requests]
      /\ live \subseteq 1..Len(login)
  BY DEF LInv, Lines, IInv, TypeOK
<1>1. account /\ revoking = {} /\ RefreshesWin /\ StoredIsGood /\ RequestsWin
  BY DEF Untroubled
<1>2. /\ Won(t) /\ stored' = new /\ Wake(t, "sent", new)
      /\ refresh' = [refresh EXCEPT ![t] = NoRefresh]
      /\ UNCHANGED <<live, fresh, login, account, revoking, causes>>
  BY DEF RefreshSucceeds, Kept, Won
<1>3. /\ refresh'[t].pc = "none"
      /\ \A u \in Tab : u # t => refresh'[u] = refresh[u]
  BY <1>0, <1>2 DEF NoRefresh
<1>4. new \in live /\ new \in fresh /\ new # NoPair
  BY <1>0, <1>1, <1>2 DEF RefreshesWin, NoPair
<1> HIDE DEF new
<1>5. RefreshesWin' BY <1>1, <1>2, <1>3 DEF RefreshesWin, Running, Won
<1>6. StoredIsGood' BY <1>2, <1>4 DEF StoredIsGood
<1>7. RequestsWin'
  <2> SUFFICES ASSUME NEW r \in Req
               PROVE  /\ Granted(r)' => req'[r].pair \in live
                      /\ req'[r].pc = "new" => ~req'[r].retry
                      /\ req'[r].pc = "sent" /\ req'[r].retry => req'[r].pair \in fresh
                      /\ req'[r].kind \in Calls /\ req'[r].pc # "new"
                           => stored' # NoPair /\ req'[r].pc # "failed"
    BY <1>2 DEF RequestsWin
  <2>1. CASE req'[r] = req[r] BY <1>1, <1>2, <1>4, <2>1 DEF RequestsWin, Granted
  <2>2. CASE /\ req[r].pc = "waiting"
             /\ req'[r] = [req[r] EXCEPT !.pc = "sent", !.pair = new, !.retry = TRUE]
    BY <1>0, <1>2, <1>4, <2>2 DEF Requests, Granted
  <2> QED BY <1>2, <2>1, <2>2 DEF Wake, Waiting
<1> QED BY <1>1, <1>2, <1>5, <1>6, <1>7 DEF Untroubled

(* Whatever else happens is harmless, impossible or to blame.               *)
LEMMA UntroubledStep == LInv /\ Untroubled /\ [Next]_vars => Untroubled'
<1> SUFFICES ASSUME LInv, Untroubled, [Next]_vars, causes' = {} PROVE Untroubled'
  BY DEF Untroubled
<1>0. causes = {}
  BY DEF Next, vars, Send, ReqStep, LogIn, Serve, Receive, GiveUp, AwaitRefresh, RefreshStep,
         Rotate, Issue, RefreshSucceeds, RefreshRefused, Revoke, AccessExpires,
         DeleteAccount, Logout, Lose
<1>1. ASSUME NEW r \in Req,
             Serve(r) \/ Send(r) \/ GiveUp(r) \/ LogIn(r) \/ Receive(r)
      PROVE  Untroubled'
  BY <1>0, <1>1, RequestsUntroubled
<1>2. ASSUME NEW r \in Req, AwaitRefresh(r) PROVE Untroubled' BY <1>2, AwaitUntroubled
<1>3. ASSUME NEW t \in Tab, Rotate(t) PROVE Untroubled' BY <1>0, <1>3, RotateUntroubled
<1>4. ASSUME NEW t \in Tab, Issue(t) PROVE Untroubled' BY <1>0, <1>4, IssueUntroubled
<1>5. ASSUME NEW t \in Tab, RefreshSucceeds(t) PROVE Untroubled'
  BY <1>0, <1>5, SucceedsUntroubled
<1>6. ASSUME NEW t \in Tab, RefreshRefused(t) PROVE Untroubled'
  <2>1. Refused(t) BY <1>6 DEF RefreshRefused
  <2> QED BY <1>0, <2>1 DEF Untroubled, RefreshesWin, Refused
<1>7. ASSUME NEW p \in 1..Len(login), Revoke(p) PROVE Untroubled'
  BY <1>0, <1>7 DEF Revoke, Untroubled
<1>8. ASSUME NEW p \in 1..Len(login), AccessExpires(p) PROVE Untroubled'
  <2>1. /\ fresh' = fresh \ {p}
        /\ UNCHANGED <<stored, live, login, account, req, refresh, revoking, causes>>
        /\ \A r \in Req : ~(req[r].retry /\ req[r].pc = "sent" /\ req[r].pair = p)
        /\ \A t \in Tab : refresh[t].new # p
    BY <1>8 DEF AccessExpires
  <2>2. RefreshesWin' BY <1>0, <2>1 DEF Untroubled, RefreshesWin, Running, Won
  <2>3. RequestsWin' BY <1>0, <2>1 DEF Untroubled, RequestsWin, Granted
  <2> QED BY <1>0, <2>1, <2>2, <2>3 DEF Untroubled, StoredIsGood
<1>9. CASE DeleteAccount \/ Logout \/ Lose BY <1>9 DEF DeleteAccount, Logout, Lose
<1>10. CASE UNCHANGED vars
  BY <1>0, <1>10
  DEF vars, Untroubled, RefreshesWin, StoredIsGood, RequestsWin, Running, Won, Granted
<1> QED
  BY <1>1, <1>2, <1>3, <1>4, <1>5, <1>6, <1>7, <1>8, <1>9, <1>10
  DEF Next, ReqStep, RefreshStep

(* However many requests of however many tabs meet an expired access token  *)
(* at once, and whenever the next one expires: none of them fails for it.   *)
(* Something failed, or was lost, or the user logged out or was deleted, or *)
(* two tabs refreshed at the same time.                                     *)
THEOREM Expiry == Spec => []ExpiryIsInvisible
<1>1. Untroubled => ExpiryIsInvisible BY DEF Untroubled, RequestsWin, ExpiryIsInvisible
<1> QED BY <1>1, LinesInvariance, InitUntroubled, UntroubledStep, PTL DEF Spec
=============================================================================
