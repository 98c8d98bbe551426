------------------------------- MODULE Logins -------------------------------
(***************************************************************************)
(* The tokens of one browser (frontend/app/src/api.js, AuthContext.jsx) and *)
(* of the account it is logged in to (backend/refresh_tokens.py,           *)
(* backend/auth.py and the /auth routes of backend/main.py).               *)
(*                                                                         *)
(* A login gives a pair of tokens: an access token, which nobody can take  *)
(* back before it expires, and a refresh token, which can be exchanged     *)
(* once for the next pair.  The tabs of a browser share the stored pair    *)
(* (localStorage); the requests of one tab share its running refresh       *)
(* (_refreshInFlight).  A pair is named by its number here.                *)
(***************************************************************************)
EXTENDS Naturals, Sequences, FiniteSets

CONSTANTS Tab,
          Req,       \* requests, each sent at most once
          TabOf,     \* the tab of each
          KindsOf,   \* what each may be for
          Faults

\* lost   a request or its answer does not arrive, the answer is 429 or 500, or the
\*        page is left
\* dies   the rotation fails after it has spent the token
\* busy   /auth/refresh answers 429 or 500 and has not spent the token
FaultKinds == {"lost", "dies", "busy"}

\* load: the question who is logged in, when a page is loaded; wrong: a login, or a
\* change of the password, with a wrong password.
Kinds == {"call", "load", "login", "wrong"}
Calls == {"call", "load"}

ASSUME ReqAssumption == TabOf \in [Req -> Tab] /\ KindsOf \in [Req -> SUBSET Kinds]
ASSUME FaultsAssumption == Faults \subseteq FaultKinds

NoPair == 0

VARIABLES stored,   \* localStorage: the pair of tokens
          live,     \* Redis: the refresh tokens that can be exchanged
          fresh,    \* the access tokens that have not expired
          login,    \* history: login[p], the first pair of p's login
          account,  \* the row of the user is there
          req,      \* [pc, kind, pair, retry] of each request
          refresh,  \* [pc, pair, new] of each tab's running refresh
          revoking, \* the refresh tokens that sent logouts revoke
          ended,    \* history: the logins that were logged out in peace
          causes    \* history: "lost", "tabs" (two refreshed at once) or "other"

vars == <<stored, live, fresh, login, account, req, refresh, revoking, ended, causes>>

NewReq == [pc |-> "new", kind |-> "call", pair |-> NoPair, retry |-> FALSE]
NoRefresh == [pc |-> "none", pair |-> NoPair, new |-> NoPair]

\* Somebody is logged in since some time, or nobody is.
Init ==
  /\ \E p \in {NoPair, 1} :
       /\ stored = p /\ login = [i \in 1..p |-> i]
       /\ live = 1..p /\ fresh = 1..p
  /\ account = TRUE
  /\ req = [r \in Req |-> NewReq]
  /\ refresh = [t \in Tab |-> NoRefresh]
  /\ revoking = {} /\ ended = {} /\ causes = {}

-----------------------------------------------------------------------------
(* The server.                                                             *)

\* create_refresh_token and create_token: a pair of the login l.
Mint(l) ==
  /\ login' = Append(login, l)
  /\ fresh' = fresh \union {Len(login) + 1}

\* login, or register.
LogIn(r) ==
  /\ req[r].pc = "sent" /\ req[r].kind = "login" /\ account
  /\ Mint(Len(login) + 1)
  /\ live' = live \union {Len(login) + 1}
  /\ req' = [req EXCEPT ![r].pc = "ok", ![r].pair = Len(login) + 1]
  /\ UNCHANGED <<stored, account, refresh, revoking, ended, causes>>

\* get_current_user: the token has not expired, and its user is there.
Authorised(r) == req[r].pair \in fresh /\ account

\* Any other route; its answer changes nothing here.
Serve(r) ==
  /\ req[r].pc = "sent" /\ req[r].kind \in Calls /\ Authorised(r)
  /\ req' = [req EXCEPT ![r].pc = "done"]
  /\ UNCHANGED <<stored, live, fresh, login, account, refresh, revoking, ended, causes>>

\* What is answered with 401 will always be: the tab need not learn it at once.
Unauthorised(r) ==
  /\ req[r].pc = "sent"
  /\ CASE req[r].kind = "wrong" -> TRUE
       [] req[r].kind = "login" -> ~account
       [] OTHER -> ~Authorised(r)

\* delete_account, of this browser or of another; the tokens stay in Redis.
DeleteAccount ==
  /\ account /\ account' = FALSE /\ causes' = causes \union {"other"}
  /\ UNCHANGED <<stored, live, fresh, login, req, refresh, revoking, ended>>

\* Wrong on purpose: GET, and DELETE when the next token is issued.
RotateLater(t) ==
  /\ refresh[t].pc = "sent"
  /\ refresh[t].pair \in live
  /\ refresh' = [refresh EXCEPT ![t].pc = "spent"]
  /\ UNCHANGED <<stored, live, fresh, login, account, req, revoking, ended, causes>>

\* rotate_refresh_token: GETDEL ...
Rotate(t) ==
  /\ refresh[t].pc = "sent" /\ refresh[t].pair \in live
  /\ live' = live \ {refresh[t].pair}
  /\ refresh' = [refresh EXCEPT ![t].pc = "spent"]
  /\ UNCHANGED <<stored, fresh, login, account, req, revoking, ended, causes>>

\* ... and SET of the next token; then the user is looked up.
Issue(t) ==
  /\ refresh[t].pc = "spent"
  /\ Mint(login[refresh[t].pair])
  /\ live' = (live \ {refresh[t].pair}) \union {Len(login) + 1}
  /\ refresh' = [refresh EXCEPT ![t].pc = IF account THEN "yes" ELSE "no",
                                ![t].new = Len(login) + 1]
  /\ UNCHANGED <<stored, account, req, revoking, ended, causes>>

\* The token is unknown, and will always be; the user is; or something failed.
Refused(t) ==
  \/ refresh[t].pc = "no"
  \/ refresh[t].pc = "sent" /\ refresh[t].pair \notin live

Fails(t, fault) ==
  \/ fault = "busy" /\ refresh[t].pc = "sent"
  \/ fault = "dies" /\ refresh[t].pc = "spent"

\* revoke_refresh_token.
Revoke(p) ==
  /\ p \in revoking
  /\ live' = live \ {p} /\ revoking' = revoking \ {p}
  /\ UNCHANGED <<stored, fresh, login, account, req, refresh, ended, causes>>

\* The half hour of an access token that somebody has ends; never under a retry
\* that just got it.
AccessExpires(p) ==
  /\ p \in fresh
  /\ p = stored \/ \E r \in Req : req[r].pc = "sent" /\ req[r].pair = p
  /\ \A r \in Req : ~(req[r].retry /\ req[r].pc = "sent" /\ req[r].pair = p)
  /\ \A t \in Tab : refresh[t].new # p
  /\ fresh' = fresh \ {p}
  /\ UNCHANGED <<stored, live, login, account, req, refresh, revoking, ended, causes>>

-----------------------------------------------------------------------------
(* A tab.                                                                  *)

\* _fetchWithAuth sends what is stored.
Send(r) ==
  /\ req[r].pc = "new"
  /\ \E k \in KindsOf[r] :
       /\ k \in Calls => stored # NoPair
       /\ req' = [req EXCEPT ![r].pc = "sent", ![r].kind = k, ![r].pair = stored]
  /\ UNCHANGED <<stored, live, fresh, login, account, refresh, revoking, ended, causes>>

\* login stores its tokens.
Receive(r) ==
  /\ req[r].pc = "ok"
  /\ stored' = IF req[r].kind = "login" THEN req[r].pair ELSE stored
  /\ req' = [req EXCEPT ![r].pc = "done"]
  /\ UNCHANGED <<live, fresh, login, account, refresh, revoking, ended, causes>>

\* A 401 is final for a retry, and when nothing is stored.
Final(r) == req[r].retry \/ stored = NoPair

\* The failure of a page's first request, whatever it is, removes the tokens.
Loads(rs) == \E r \in rs : req[r].kind = "load"

GiveUp(r) ==
  /\ Unauthorised(r) /\ Final(r)
  /\ req' = [req EXCEPT ![r].pc = "failed"]
  /\ stored' = IF Loads({r}) THEN NoPair ELSE stored
  /\ UNCHANGED <<live, fresh, login, account, refresh, revoking, ended, causes>>

\* Wrong on purpose: each request starts a refresh of its own.
StartsAnyway(t) == TRUE

\* _refreshInFlight is null.
Starts(t) == refresh[t].pc = "none"

\* Two tabs do not know of each other's refresh.
RacesOtherTab(t) == \E u \in Tab \ {t} : refresh[u].pc # "none" /\ refresh[u].pair = stored

\* refreshTokens: wait for the tab's refresh, which may have to be started.
AwaitRefresh(r) ==
  LET t == TabOf[r] IN
  /\ Unauthorised(r) /\ ~Final(r)
  /\ req' = [req EXCEPT ![r].pc = "waiting"]
  /\ IF Starts(t)
       THEN /\ refresh' = [refresh EXCEPT ![t] = [pc |-> "sent", pair |-> stored, new |-> NoPair]]
            /\ causes' = IF RacesOtherTab(t) THEN causes \union {"tabs"} ELSE causes
       ELSE UNCHANGED <<refresh, causes>>
  /\ UNCHANGED <<stored, live, fresh, login, account, revoking, ended>>

Waiting(t) == {r \in Req : TabOf[r] = t /\ req[r].pc = "waiting"}

\* What became of a refresh, for those that wait for it.
Wake(t, pc, pair) ==
  req' = [r \in Req |-> IF r \in Waiting(t)
                          THEN [req[r] EXCEPT !.pc = pc, !.pair = pair, !.retry = TRUE]
                          ELSE req[r]]

\* Wrong on purpose: the new refresh token is not stored.
KeptOnSuccess(t) == stored

\* storeTokens.
Kept(t) == refresh[t].new

\* The promise is fulfilled: each request is sent once more.
RefreshSucceeds(t) ==
  /\ refresh[t].pc = "yes"
  /\ stored' = Kept(t)
  /\ Wake(t, "sent", refresh[t].new)
  /\ refresh' = [refresh EXCEPT ![t] = NoRefresh]
  /\ UNCHANGED <<live, fresh, login, account, revoking, ended, causes>>

\* Wrong on purpose: the promise of a refused refresh is never settled.
Forgotten(t) == UNCHANGED req

\* It is rejected: what waits for it fails.
Rejected(t) == Wake(t, "failed", NoPair)

\* Whatever is answered but success is the end of the session: clearTokens.
RefreshRefused(t) ==
  /\ \/ Refused(t) /\ UNCHANGED causes
     \/ \E f \in Faults : Fails(t, f) /\ causes' = causes \union {"other"}
  /\ stored' = NoPair
  /\ Rejected(t)
  /\ refresh' = [refresh EXCEPT ![t] = NoRefresh]
  /\ UNCHANGED <<live, fresh, login, account, revoking, ended>>

Refreshing(p) == \E t \in Tab : refresh[t].pc # "none" /\ refresh[t].pair = p

\* Wrong on purpose: the token is read when it has been cleared.
RevokedByLogout == {}

RevokedAtLogout == {stored}

\* logout: the tokens are cleared first, and revoked when the server gets it.
Logout ==
  /\ stored # NoPair
  /\ stored' = NoPair
  /\ revoking' = revoking \union RevokedAtLogout
  /\ ended' = IF Refreshing(stored) THEN ended ELSE ended \union {login[stored]}
  /\ causes' = causes \union {"other"}
  /\ UNCHANGED <<live, fresh, login, account, req, refresh>>

\* Those that failed were a page's first request, which removes the tokens unless
\* the page is left.
StoredAfter(rs) == IF Loads(rs) THEN {stored, NoPair} ELSE {stored}

\* A request or its answer is lost; a logout ignores it.  A refresh lost while it is
\* spent is lost once its token is issued, here: nobody ever knows of that token.
Lose ==
  /\ "lost" \in Faults
  /\ \/ \E r \in Req : /\ req[r].pc \in {"sent", "ok"}
                       /\ req' = [req EXCEPT ![r].pc = "failed"]
                       /\ stored' \in StoredAfter({r})
                       /\ UNCHANGED <<refresh, revoking>>
     \/ \E t \in Tab : /\ refresh[t].pc \in {"sent", "yes", "no"}
                       /\ refresh' = [refresh EXCEPT ![t] = NoRefresh]
                       /\ Wake(t, "failed", NoPair)
                       /\ stored' \in StoredAfter(Waiting(t))
                       /\ UNCHANGED revoking
     \/ \E p \in revoking : revoking' = revoking \ {p} /\ UNCHANGED <<stored, req, refresh>>
  /\ causes' = causes \union {"lost"}
  /\ UNCHANGED <<live, fresh, login, account, ended>>

ReqStep(r) == LogIn(r) \/ Serve(r) \/ Receive(r) \/ GiveUp(r) \/ AwaitRefresh(r)

RefreshStep(t) ==
  Rotate(t) \/ Issue(t) \/ RefreshSucceeds(t) \/ RefreshRefused(t)

Next ==
  \/ \E r \in Req : Send(r) \/ ReqStep(r)
  \/ \E t \in Tab : RefreshStep(t)
  \/ \E p \in 1..Len(login) : Revoke(p) \/ AccessExpires(p)
  \/ DeleteAccount \/ Logout \/ Lose

\* The network and the server answer, or fail, in the end.
Spec ==
  /\ Init /\ [][Next]_vars
  /\ \A r \in Req : WF_vars(ReqStep(r))
  /\ \A t \in Tab : WF_vars(RefreshStep(t))

-----------------------------------------------------------------------------
Requests == [pc : {"new", "sent", "ok", "waiting", "done", "failed"}, kind : Kinds,
             pair : Nat, retry : BOOLEAN]
Refreshes == [pc : {"none", "sent", "spent", "yes", "no"}, pair : Nat, new : Nat]

TypeOK ==
  /\ login \in Seq(Nat) /\ stored \in Nat
  /\ \A p \in 1..Len(login) : login[p] \in 1..Len(login)
  /\ live \subseteq 1..Len(login)
  /\ req \in [Req -> Requests] /\ refresh \in [Tab -> Refreshes]

(* A login has one refresh token that can be exchanged, at most, however    *)
(* many tabs exchange one at the same time (refresh_tokens.py: two          *)
(* concurrent calls must not both mint "a new token from one old one").     *)
OneTokenPerLogin == \A p, q \in live : login[p] = login[q] => p = q

(* Nobody notices that an access token expires (api.js: "expiry is          *)
(* invisible to the user"): a request with it fails only if something       *)
(* failed, if the account is gone or was logged out, or if another tab      *)
(* refreshed at the same time.                                              *)
ExpiryIsInvisible ==
  \A r \in Req : req[r].kind \in Calls /\ req[r].pc = "failed" => causes # {}

(* ... whatever the other tabs do.                                          *)
TabsDoNotInterfere ==
  \A r \in Req : req[r].kind \in Calls /\ req[r].pc = "failed" => causes \ {"tabs"} # {}

(* Once a logout has reached the server, nothing of its login is left: no   *)
(* token to exchange, and none is stored again, if no refresh was running   *)
(* when the user logged out.                                                *)
LogoutIsFinal ==
  "lost" \notin causes /\ revoking = {} =>
    \A p \in live \union ({stored} \ {NoPair}) : login[p] \notin ended

(* Tokens that are removed when a page is loaded were of no use any more    *)
(* (AuthContext.jsx: "reaching .catch() here means the refresh token itself *)
(* was also invalid").                                                      *)
LoadRemovesStale ==
  [][\A r \in Req :
       /\ req[r].kind = "load" /\ req[r].pc # "failed" /\ req'[r].pc = "failed"
       /\ stored # NoPair /\ stored' = NoPair
       => stored \notin live]_vars

(* Every request ends, also one that waits for a refresh another started.   *)
RequestsSettle == \A r \in Req : req[r].pc # "new" ~> req[r].pc \in {"done", "failed"}
=============================================================================
