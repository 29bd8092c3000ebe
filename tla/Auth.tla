--------------------------------- MODULE Auth ---------------------------------
(***************************************************************************)
(* packages/auth: login() and logout() of Auth instances in processes that *)
(* share a directory of cache files.  An instance runs one call at a time; *)
(* between two awaits of one the others take steps, processes die, tokens  *)
(* expire and services change their minds.                                 *)
(*                                                                         *)
(* Each user has one account.  A token is the account it is for and what   *)
(* the services think of it.  The four cached session tokens (XBL, XSTS,   *)
(* PlayFab, MC services) are used only if all of them are valid, so they   *)
(* share a status; XSTS and MC services keep their accounts apart, because *)
(* the two requests of a cached login each use one of them.  The key pair  *)
(* is left out: the client of this repository passes a key of its own.     *)
(* Options that lack something login() asks for are left out, too.         *)
(*                                                                         *)
(* A file that is absent, torn or half written is EmptyCache: load() makes *)
(* no difference between them.  writeFileSync truncates and then writes,   *)
(* and other processes run in between.                                     *)
(***************************************************************************)
EXTENDS Naturals, Sequences

CONSTANTS
  User,      \* one process each, with an account of its own
  Case,      \* the users considered: [flow, label], functions of User, where
             \* a label is a username or the local part of an email address
  Lifetime,  \* expires_in of a device code, in polling intervals
  MaxFaults  \* bound: failures, crashes, refusals, revocations, errors of listeners

Flow == {"deviceCode", "password", "xboxToken"}
Label == UNION {{c.label[u] : u \in User} : c \in Case}

ASSUME CaseAssumption == \A c \in Case : c.flow \in [User -> Flow]
ASSUME UserAssumption == "nobody" \notin User
ASSUME BoundAssumption == Lifetime \in Nat \ {0} /\ MaxFaults \in Nat

VARIABLES
  users,    \* the case: flow and label of each user
  file,     \* the cache files, by name
  proc,     \* the call each Auth instance is in
  settled,  \* what the last login() of each came to: events, result, and whether
            \* a listener of "login" threw
  faults

vars == <<users, file, proc, settled, faults>>

Nobody == "nobody"
NoMicrosoft == [account |-> Nobody, refresh |-> "none"]
NoSession == [xsts |-> Nobody, mcServices |-> Nobody, status |-> "none"]
EmptyCache == [microsoft |-> NoMicrosoft, session |-> NoSession]

\* A call at "step" of "path" with the tokens it has got hold of.  A poll has
\* "left" until its deadline and sleeps "interval" each time.
Call(step, path, microsoft, session) ==
  [step |-> step, path |-> path, microsoft |-> microsoft, session |-> session,
   left |-> 0, interval |-> 0]
NoCall == Call("idle", "none", NoMicrosoft, NoSession)

NoResult == [chain |-> Nobody, multiplayer |-> Nobody]
Unsettled == [events |-> <<>>, result |-> NoResult, threw |-> FALSE]

\* The constructor: the file of a user.  The client passes a username only in
\* the device code flow, and an undefined one makes "undefined.json".
CacheName_Default(u) == "undefined"
CacheName(u) == IF users.flow[u] = "xboxToken" THEN "undefined" ELSE users.label[u]

Init ==
  /\ users \in Case
  /\ file = [n \in Label \cup {"undefined"} |-> EmptyCache]
  /\ proc = [u \in User |-> NoCall]
  /\ settled = [u \in User |-> Unsettled]
  /\ faults = 0

-------------------------------------------------------------------------------
(* The steps of a call *)

At(u, step) == proc[u].step = step
Awaits(u) == proc[u].step \notin {"idle", "write"}

Goto(u, step) == proc' = [proc EXCEPT ![u].step = step]
Emits(u, event, result) ==
  settled' = [settled EXCEPT ![u].events = Append(@, event), ![u].result = result]

Fault == faults < MaxFaults /\ faults' = faults + 1

\* The catch of login(): "error" is emitted and the promise rejected.
Fails(u) == proc' = [proc EXCEPT ![u] = NoCall] /\ Emits(u, "error", NoResult)

\* "login" is emitted within the try: an error of a listener leads to the catch.
Succeeds(u, result) ==
  /\ proc' = [proc EXCEPT ![u] = NoCall]
  /\ \/ Emits(u, "login", result) /\ UNCHANGED faults
     \/ /\ settled' = [settled EXCEPT ![u].events = @ \o <<"login", "error">>,
                                      ![u].threw = TRUE]
        /\ Fault

Load(u) == file[CacheName(u)]

IsTokenValid_Always(session) == session.status # "none"
IsTokenValid(session) == session.status \in {"good", "refused"}

-------------------------------------------------------------------------------
(* login(), up to its first await *)

Obtain(u) == IF users.flow[u] = "password" THEN "password" ELSE "deviceCode"

Begins(u, call) ==
  /\ proc' = [proc EXCEPT ![u] = call]
  /\ settled' = [settled EXCEPT ![u] = Unsettled]
  /\ UNCHANGED <<users, file, faults>>

LoginWithXboxToken(u) ==
  /\ At(u, "idle") /\ users.flow[u] = "xboxToken"
  /\ Begins(u, Call("bedrock", "xboxToken", NoMicrosoft, NoSession))

\* tryUseCached
LoginCached(u) ==
  /\ At(u, "idle") /\ users.flow[u] # "xboxToken"
  /\ IsTokenValid(Load(u).session)
  /\ Begins(u, Call("bedrock", "cached", NoMicrosoft, Load(u).session))

LoginRefresh(u) ==
  /\ At(u, "idle") /\ users.flow[u] # "xboxToken"
  /\ ~IsTokenValid(Load(u).session) /\ Load(u).microsoft.refresh # "none"
  /\ Begins(u, Call("refresh", "fresh", Load(u).microsoft, NoSession))

LoginAnew(u) ==
  /\ At(u, "idle") /\ users.flow[u] # "xboxToken"
  /\ ~IsTokenValid(Load(u).session) /\ Load(u).microsoft.refresh = "none"
  /\ Begins(u, Call(Obtain(u), "fresh", NoMicrosoft, NoSession))

Login(u) == LoginWithXboxToken(u) \/ LoginCached(u) \/ LoginRefresh(u) \/ LoginAnew(u)

-------------------------------------------------------------------------------
(* Microsoft tokens *)

GotMicrosoft(u, account, refresh) ==
  proc' = [proc EXCEPT ![u] =
    Call("xbl", "fresh", [account |-> account, refresh |-> refresh], NoSession)]

\* An answer with no refresh_token in it is one of the faults: the token there
\* was before is not kept.
RefreshTokenIn(answer) ==
  IF answer = "none" THEN Fault ELSE UNCHANGED faults

\* refreshMicrosoftToken
Refreshed(u) ==
  /\ At(u, "refresh") /\ proc[u].microsoft.refresh = "good"
  /\ \E refresh \in {"good", "none"} :
       RefreshTokenIn(refresh) /\ GotMicrosoft(u, proc[u].microsoft.account, refresh)
  /\ UNCHANGED <<users, file, settled>>

\* Whatever goes wrong with it, the catch obtains new tokens.
RefreshFails(u) ==
  /\ At(u, "refresh")
  /\ IF proc[u].microsoft.refresh = "good" THEN Fault ELSE UNCHANGED faults
  /\ proc' = [proc EXCEPT ![u] = Call(Obtain(u), "fresh", NoMicrosoft, NoSession)]
  /\ UNCHANGED <<users, file, settled>>

\* authenticateWithPassword: the last redirect may come without refresh_token.
PasswordAccepted(u) ==
  /\ At(u, "password")
  /\ \E refresh \in {"good", "none"} : GotMicrosoft(u, u, refresh)
  /\ UNCHANGED <<users, file, settled, faults>>

\* requestDeviceCode: "deviceCode" asks the user to authorize the login.
DeviceCodeGiven(u) ==
  /\ At(u, "deviceCode")
  /\ proc' = [proc EXCEPT ![u].step = "poll", ![u].left = Lifetime, ![u].interval = 1]
  /\ UNCHANGED <<users, file, settled, faults>>

\* pollDeviceCode, one pass of its loop: it sleeps, asks, and looks at the
\* deadline only before it sleeps again.  slow_down makes the interval longer;
\* longer than the lifetime makes no difference.
Remaining_Restarted(u) == Lifetime
Remaining(u) ==
  IF proc[u].interval < proc[u].left THEN proc[u].left - proc[u].interval ELSE 0

Authorized(u) ==
  /\ At(u, "poll")
  /\ \E refresh \in {"good", "none"} :
       RefreshTokenIn(refresh) /\ GotMicrosoft(u, u, refresh)
  /\ UNCHANGED <<users, file, settled>>

NotYet(u) ==
  /\ At(u, "poll") /\ Remaining(u) > 0
  /\ \E slower \in {0, 1} :
       proc' = [proc EXCEPT ![u].left = Remaining(u),
                            ![u].interval = IF @ < Lifetime THEN @ + slower ELSE @]
  /\ UNCHANGED <<users, file, settled, faults>>

PollTimesOut(u) ==
  /\ At(u, "poll") /\ Remaining(u) = 0
  /\ Fails(u)
  /\ UNCHANGED <<users, file, faults>>

-------------------------------------------------------------------------------
(* authenticateChain and the requests the flows share *)

\* authenticateXbl, authenticateXsts for the game and for PlayFab
XboxAnswers(u) ==
  /\ \/ At(u, "xbl") /\ Goto(u, "xsts")
     \/ At(u, "xsts") /\ Goto(u, "xstsPlayFab")
     \/ At(u, "xstsPlayFab") /\ Goto(u, "playFab")
  /\ UNCHANGED <<users, file, settled, faults>>

PlayFabAnswers(u) ==
  /\ At(u, "playFab") /\ Goto(u, "mcServices")
  /\ UNCHANGED <<users, file, settled, faults>>

\* AuthCache.save: opening the file truncates it.
EventsBeforeSave_Login == <<"login">>
EventsBeforeSave == <<>>

Save(u) ==
  /\ file' = [file EXCEPT ![CacheName(u)] = EmptyCache]
  /\ Goto(u, "write")
  /\ settled' = [settled EXCEPT ![u].events = @ \o EventsBeforeSave]

\* Whether the services refuse the cached tokens that a call uses.
Refused(u) == proc[u].session.status \in {"refused", "expired"}

\* getMinecraftServicesToken, getBedrockChain
ServicesAnswer(u) ==
  /\ \/ At(u, "mcServices") /\ Goto(u, "bedrock") /\ UNCHANGED <<file, settled>>
     \/ /\ At(u, "bedrock") /\ proc[u].path = "xboxToken"
        /\ Save(u)
     \/ /\ At(u, "bedrock") /\ proc[u].path # "xboxToken"
        /\ ~Refused(u)
        /\ Goto(u, "multiplayer") /\ UNCHANGED <<file, settled>>
  /\ UNCHANGED <<users, faults>>

\* The MC services token that tryUseCached uses after it has waited for the
\* chain is still the one it loaded.
McServices_Reloaded(u) == Load(u).session.mcServices
McServices(u) == proc[u].session.mcServices

\* getMultiplayerSessionToken: the last request of both.
MultiplayerAnswers(u) ==
  /\ At(u, "multiplayer")
  /\ \/ /\ proc[u].path = "cached"
        /\ Succeeds(u, [chain |-> proc[u].session.xsts, multiplayer |-> McServices(u)])
        /\ UNCHANGED file
     \/ /\ proc[u].path = "fresh"
        /\ Save(u) /\ UNCHANGED faults
  /\ UNCHANGED users

\* A request that is not answered, or refused.  Cached tokens that the services
\* refuse fail the login: nothing falls back to a refresh.
RequestFails(u) ==
  /\ Awaits(u) /\ ~At(u, "refresh")
  /\ IF At(u, "bedrock") /\ Refused(u) THEN UNCHANGED faults ELSE Fault
  /\ Fails(u)
  /\ UNCHANGED <<users, file>>

-------------------------------------------------------------------------------
(* The end of save() *)

\* What login() and loginWithXboxToken save.  The latter has no MC services and
\* no multiplayer token, and gives them and the PlayFab token expiresAt = 0, so
\* that nothing it saves is ever used.
Account(u) == IF proc[u].path = "fresh" THEN proc[u].microsoft.account ELSE u
McAccount(u) == IF proc[u].path = "fresh" THEN Account(u) ELSE Nobody

Tokens(u) ==
  [microsoft |-> proc[u].microsoft,
   session |-> [xsts |-> Account(u), mcServices |-> McAccount(u),
                status |-> IF proc[u].path = "fresh" THEN "good" ELSE "expired"]]

\* logout() loads and saves without an await.
KeptByLogout_Nothing(u) == NoMicrosoft
KeptByLogout(u) == Load(u).microsoft

Logout(u) ==
  /\ At(u, "idle")
  /\ proc' = [proc EXCEPT ![u] = Call("write", "logout", KeptByLogout(u), NoSession)]
  /\ file' = [file EXCEPT ![CacheName(u)] = EmptyCache]
  /\ UNCHANGED <<users, settled, faults>>

\* If another process has written since this one truncated the file, the two
\* texts overlap and the longer one leaves its end behind.
Written(u, content) ==
  \E after \in {content} \cup IF Load(u) = EmptyCache THEN {} ELSE {EmptyCache} :
    file' = [file EXCEPT ![CacheName(u)] = after]

Write(u) ==
  /\ At(u, "write")
  /\ IF proc[u].path = "logout"
     THEN /\ Written(u, [microsoft |-> proc[u].microsoft, session |-> NoSession])
          /\ proc' = [proc EXCEPT ![u] = NoCall]
          /\ UNCHANGED <<settled, faults>>
     ELSE /\ Written(u, Tokens(u))
          /\ Succeeds(u, [chain |-> Account(u), multiplayer |-> McAccount(u)])
  /\ UNCHANGED users

\* writeFileSync throws, which fails the login.
WriteFails(u) ==
  /\ At(u, "write") /\ Fault
  /\ IF proc[u].path = "logout"
     THEN proc' = [proc EXCEPT ![u] = NoCall] /\ UNCHANGED settled
     ELSE Fails(u)
  /\ UNCHANGED <<users, file>>

-------------------------------------------------------------------------------
(* The world *)

Crash(u) ==
  /\ ~At(u, "idle") /\ Fault
  /\ proc' = [proc EXCEPT ![u] = NoCall]
  /\ settled' = [settled EXCEPT ![u] = Unsettled]
  /\ UNCHANGED <<users, file>>

Expire(n) ==
  /\ file[n].session.status \in {"good", "refused"}
  /\ file' = [file EXCEPT ![n].session.status = "expired"]
  /\ UNCHANGED <<users, proc, settled, faults>>

\* The services refuse cached tokens before they expire.
Refuse(n) ==
  /\ file[n].session.status = "good" /\ Fault
  /\ file' = [file EXCEPT ![n].session.status = "refused"]
  /\ UNCHANGED <<users, proc, settled>>

\* The owner of the account revokes the refresh token.
Revoke(n) ==
  /\ file[n].microsoft.refresh = "good" /\ Fault
  /\ file' = [file EXCEPT ![n].microsoft.refresh = "dead"]
  /\ UNCHANGED <<users, proc, settled>>

-------------------------------------------------------------------------------
Step(u) ==
  \/ Refreshed(u) \/ RefreshFails(u) \/ PasswordAccepted(u) \/ DeviceCodeGiven(u)
  \/ NotYet(u) \/ PollTimesOut(u)
  \/ XboxAnswers(u) \/ PlayFabAnswers(u) \/ ServicesAnswer(u) \/ MultiplayerAnswers(u)
  \/ RequestFails(u) \/ Write(u)

Next ==
  \/ \E u \in User :
       Login(u) \/ Step(u) \/ Authorized(u) \/ Logout(u) \/ WriteFails(u) \/ Crash(u)
  \/ \E n \in DOMAIN file : Expire(n) \/ Refuse(n) \/ Revoke(n)

Spec == Init /\ [][Next]_vars

\* Requests are answered, unless they fail; who wants to log in tries again;
\* tokens grow old.
Fairness ==
  /\ \A u \in User : WF_vars(Step(u) /\ UNCHANGED faults) /\ SF_vars(Login(u))
  /\ \A n \in Label \cup {"undefined"} : WF_vars(Expire(n))

FairSpec == Spec /\ Fairness

-------------------------------------------------------------------------------
(* Properties *)

\* A login announces its end once, as a success or as a failure, and has a
\* result if and only if the promise is not rejected: also when the cache cannot
\* be written.  Only where a listener of "login" throws is a success announced
\* and then a failure; the promise is then rejected although the cache is good.
SettledOnce ==
  \A u \in User :
    /\ IF settled[u].threw THEN settled[u].events = <<"login", "error">>
       ELSE settled[u].events \in {<<>>, <<"login">>, <<"error">>}
    /\ settled[u].events = <<"login">> <=> settled[u].result # NoResult
    /\ ~At(u, "idle") /\ proc[u].path # "logout" => settled[u].events = <<>>

\* The chain and the multiplayer token of one result are for one account,
\* although other processes replace the cached tokens between the requests.
\* (An xboxToken comes without a multiplayer token.)
ResultWhole ==
  \A u \in User :
    users.flow[u] # "xboxToken" => settled[u].result.chain = settled[u].result.multiplayer

\* Who logs in with an email address that no other user of the directory shares
\* the local part of, or with an xboxToken, gets the account asked for.
OwnAccount ==
  \A u \in User :
    \/ users.flow[u] = "deviceCode"
    \/ \E v \in User \ {u} : users.label[v] = users.label[u]
    \/ settled[u].result.chain \in {u, Nobody}

\* login() settles: the device code's deadline ends the polling even if the
\* user does nothing and the service keeps asking to slow down.
LoginSettles == \A u \in User : ~At(u, "idle") ~> At(u, "idle")

\* A user who is asked again and again authorizes a login once.
Authorizes(u) == SF_vars(Authorized(u))

\* Once nothing fails any more, a process that tries again gets in, also when
\* the last crash tore the cache, and when the services refuse tokens that the
\* cache takes for valid.
LoginRecovers ==
  \A u \in User : Authorizes(u) => []<>(settled[u].result # NoResult)

\* Once nothing fails any more, a user whose cache file no other process uses
\* is not asked to authorize again: the refresh token outlives the session
\* tokens and a logout.  (An answer without one is such a failure.)
Alone(u) == \A v \in User \ {u} : CacheName(v) # CacheName(u)
PromptsEnd ==
  \A u \in User : Authorizes(u) /\ Alone(u) => <>[]~At(u, "poll")
===============================================================================
