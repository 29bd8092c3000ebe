------------------------------ MODULE AuthProofs ------------------------------
(***************************************************************************)
(* What login() of an Auth comes to, for any users, flows, cache files,    *)
(* failures, crashes and errors of listeners: it settles once, its two     *)
(* tokens are for one account, and that is the account asked for unless two users share a     *)
(* cache file.                                                             *)
(*                                                                         *)
(* Tokens wander: a login that succeeds writes them to a file, another     *)
(* process loads them and hands them on.  The invariant follows the        *)
(* account they are for through the files, the calls under way and the     *)
(* results: it is always that of a user who logs in with that file.        *)
(***************************************************************************)
EXTENDS Auth, TLAPS

Stage == {"idle", "bedrock", "refresh", "password", "deviceCode", "poll", "xbl", "xsts",
          "xstsPlayFab", "playFab", "mcServices", "multiplayer", "write"}
Path == {"none", "xboxToken", "cached", "fresh", "logout"}
Status == {"none", "good", "refused", "expired"}

MicrosoftTokens == [account : User \cup {Nobody}, refresh : {"none", "good", "dead"}]
SessionTokens == [xsts : User \cup {Nobody}, mcServices : User \cup {Nobody}, status : Status]
Calls == [step : Stage, path : Path, microsoft : MicrosoftTokens, session : SessionTokens,
          left : Nat, interval : Nat]
Results == [chain : User \cup {Nobody}, multiplayer : User \cup {Nobody}]
Ends == [events : Seq({"login", "error"}), result : Results, threw : BOOLEAN]
Content == [microsoft : MicrosoftTokens, session : SessionTokens]

\* The users whose tokens a file may hold.  What loginWithXboxToken saves is
\* expired when it is saved.
Sharers(n) == {u \in User : users.flow[u] # "xboxToken" /\ CacheName(u) = n}

\* A refresh token is always of somebody; session tokens that could be used
\* are all of the same user.
MicrosoftOf(n, m) == m.refresh # "none" => m.account \in Sharers(n)
SessionOf(n, s) ==
  IsTokenValid(s) => s.xsts = s.mcServices /\ s.xsts \in Sharers(n)

FileOK(n, f) == f \in Content /\ MicrosoftOf(n, f.microsoft) /\ SessionOf(n, f.session)

\* The account of a call, from the step on at which the services know it.
CallOK(u, p) ==
  /\ p \in Calls
  /\ p.step = "idle" <=> p.path = "none"
  /\ p.path = "logout" => p.step = "write" /\ MicrosoftOf(CacheName(u), p.microsoft)
  /\ p.path = "xboxToken" =>
       /\ users.flow[u] = "xboxToken" /\ p.step \in {"bedrock", "write"}
       /\ p.microsoft = NoMicrosoft
  /\ p.path = "cached" =>
       /\ users.flow[u] # "xboxToken" /\ p.step \in {"bedrock", "multiplayer"}
       /\ p.session.xsts = p.session.mcServices /\ p.session.xsts \in Sharers(CacheName(u))
  /\ p.path = "fresh" =>
       /\ users.flow[u] # "xboxToken"
       /\ p.step \notin {"password", "deviceCode", "poll"} =>
            p.microsoft.account \in Sharers(CacheName(u))

\* Whose tokens the result of a login may be.
Accounts(u) == IF users.flow[u] = "xboxToken" THEN {u} ELSE Sharers(CacheName(u))

\* A result has its two tokens, which an xboxToken login does not, for one account.
Whole(u, r) ==
  r.chain \in Accounts(u) /\ (users.flow[u] # "xboxToken" => r.chain = r.multiplayer)

EndOK(u, e) ==
  /\ e \in Ends
  /\ IF e.threw THEN e.events = <<"login", "error">>
     ELSE e.events \in {<<>>, <<"login">>, <<"error">>}
  /\ IF e.events = <<"login">> THEN Whole(u, e.result) ELSE e.result = NoResult

\* A login that is under way has not announced its end.
Quiet(p, e) == p.path \notin {"none", "logout"} => e.events = <<>>

AuthInv ==
  /\ file = [n \in Label \cup {"undefined"} |-> file[n]]
  /\ \A u \in User : CacheName(u) \in DOMAIN file
  /\ \A n \in DOMAIN file : FileOK(n, file[n])
  /\ proc = [u \in User |-> proc[u]] /\ settled = [u \in User |-> settled[u]]
  /\ \A u \in User : CallOK(u, proc[u]) /\ EndOK(u, settled[u]) /\ Quiet(proc[u], settled[u])

-------------------------------------------------------------------------------
(* Lemmas *)

LEMMA NobodyIsNoUser == Nobody \notin User
BY UserAssumption DEF Nobody

LEMMA NothingTyped ==
  /\ NoMicrosoft \in MicrosoftTokens /\ NoMicrosoft.refresh = "none"
  /\ NoSession \in SessionTokens /\ NoSession.status = "none"
  /\ EmptyCache \in Content
BY DEF NoMicrosoft, NoSession, EmptyCache, MicrosoftTokens, SessionTokens, Content, Status

LEMMA EmptyCacheOK == ASSUME NEW n PROVE FileOK(n, EmptyCache)
BY NothingTyped DEF FileOK, MicrosoftOf, SessionOf, IsTokenValid, EmptyCache

LEMMA CallTyped ==
  ASSUME NEW step \in Stage, NEW path \in Path, NEW m \in MicrosoftTokens,
         NEW s \in SessionTokens
  PROVE  LET p == Call(step, path, m, s) IN
         /\ p \in Calls /\ p.step = step /\ p.path = path /\ p.microsoft = m
         /\ p.session = s
BY DEF Call, Calls

LEMMA NoCallOK == ASSUME NEW u PROVE CallOK(u, NoCall) /\ NoCall.path = "none"
<1>1. /\ NoCall \in Calls /\ NoCall.step = "idle" /\ NoCall.path = "none"
  BY NothingTyped, CallTyped DEF NoCall, Stage, Path
<1> QED
  BY <1>1 DEF CallOK

\* One call changes, with what it has announced and one file.
LEMMA StepKeeps ==
  ASSUME AuthInv, users' = users, NEW u \in User,
         NEW p, CallOK(u, p), NEW e, EndOK(u, e), Quiet(p, e),
         proc' = [proc EXCEPT ![u] = p], settled' = [settled EXCEPT ![u] = e],
         NEW n, NEW f, FileOK(n, f), file' = [file EXCEPT ![n] = f]
  PROVE  AuthInv'
<1>1. \A v : CacheName(v)' = CacheName(v) /\ Accounts(v)' = Accounts(v)
  BY DEF CacheName, Accounts, Sharers
<1>2. \A m : Sharers(m)' = Sharers(m)
  BY <1>1 DEF Sharers
<1>3. \A m, g : FileOK(m, g)' <=> FileOK(m, g)
  BY <1>2 DEF FileOK, MicrosoftOf, SessionOf
<1>4. \A v, q : CallOK(v, q)' <=> CallOK(v, q)
  BY <1>1, <1>2 DEF CallOK, MicrosoftOf
<1>5. \A v, q : EndOK(v, q)' <=> EndOK(v, q)
  BY <1>1 DEF EndOK, Whole
<1>6. DOMAIN file' = DOMAIN file /\ file' = [m \in Label \cup {"undefined"} |-> file'[m]]
  BY DEF AuthInv
<1>7. \A m \in DOMAIN file' : FileOK(m, file'[m])
  BY <1>6 DEF AuthInv
<1>8. /\ proc' = [v \in User |-> proc'[v]] /\ settled' = [v \in User |-> settled'[v]]
      /\ \A v \in User : /\ CallOK(v, proc'[v]) /\ EndOK(v, settled'[v])
                         /\ Quiet(proc'[v], settled'[v])
  BY DEF AuthInv
<1> QED
  BY <1>1, <1>3, <1>4, <1>5, <1>6, <1>7, <1>8 DEF AuthInv

\* A step of a call that announces nothing and touches no file.
LEMMA CallKeeps ==
  ASSUME AuthInv, UNCHANGED <<users, file, settled>>, NEW u \in User, NEW p,
         CallOK(u, p), proc' = [proc EXCEPT ![u] = p],
         p.path \notin {"none", "logout"} => proc[u].path \notin {"none", "logout"}
  PROVE  AuthInv'
<1> DEFINE n == CacheName(u)
<1>1. /\ file' = [file EXCEPT ![n] = file[n]] /\ FileOK(n, file[n])
      /\ settled' = [settled EXCEPT ![u] = settled[u]]
      /\ EndOK(u, settled[u]) /\ Quiet(p, settled[u])
  BY DEF AuthInv, Quiet
<1> HIDE DEF n
<1> QED
  BY <1>1, StepKeeps

\* A call that ends.
LEMMA EndKeeps ==
  ASSUME AuthInv, UNCHANGED users, NEW u \in User, NEW e, EndOK(u, e),
         proc' = [proc EXCEPT ![u] = NoCall], settled' = [settled EXCEPT ![u] = e],
         NEW n, NEW f, FileOK(n, f), file' = [file EXCEPT ![n] = f]
  PROVE  AuthInv'
BY NoCallOK, StepKeeps DEF Quiet

LEMMA NoResultTyped ==
  NoResult \in Results
BY DEF NoResult, Results

LEMMA EventsTyped ==
  /\ <<>> \in Seq({"login", "error"}) /\ <<"login">> \in Seq({"login", "error"})
  /\ <<"error">> \in Seq({"login", "error"}) /\ <<"login", "error">> \in Seq({"login", "error"})
  /\ <<>> # <<"login">> /\ <<"error">> # <<"login">> /\ <<"login", "error">> # <<"login">>
OBVIOUS

LEMMA UnsettledOK == ASSUME NEW u PROVE EndOK(u, Unsettled)
BY NoResultTyped, EventsTyped DEF EndOK, Ends, Unsettled

\* A login under way has announced nothing.
LEMMA Unannounced ==
  ASSUME AuthInv, NEW u \in User, proc[u].path \notin {"none", "logout"}
  PROVE  /\ settled[u] \in Ends /\ settled[u].events = <<>>
         /\ ~settled[u].threw /\ settled[u].result = NoResult
         /\ settled = [v \in User |-> settled[v]]
<1> DEFINE e == settled[u]
<1>1. EndOK(u, e) /\ Quiet(proc[u], e) /\ settled = [v \in User |-> settled[v]]
  BY DEF AuthInv
<1>2. e \in Ends /\ e.events = <<>> /\ <<>> # <<"login", "error">> /\ <<>> # <<"login">>
  BY <1>1 DEF EndOK, Quiet
<1> HIDE DEF e
<1>3. ~e.threw /\ e.result = NoResult
  BY <1>1, <1>2 DEF EndOK
<1> QED
  BY <1>1, <1>2, <1>3 DEF e

\* A call that ends with one event.
LEMMA AnnouncesOnce ==
  ASSUME AuthInv, UNCHANGED users, NEW u \in User, proc[u].path \notin {"none", "logout"},
         proc' = [proc EXCEPT ![u] = NoCall],
         NEW event \in {"login", "error"}, NEW result \in Results, Emits(u, event, result),
         IF event = "login" THEN Whole(u, result) ELSE result = NoResult,
         NEW n, NEW f, FileOK(n, f), file' = [file EXCEPT ![n] = f]
  PROVE  AuthInv'
<1> DEFINE e == settled[u]
           events == Append(e.events, event)
           d == [e EXCEPT !.events = events, !.result = result]
<1>1. e \in Ends /\ e.events = <<>> /\ ~e.threw /\ settled = [v \in User |-> settled[v]]
  BY Unannounced
<1>2. events = <<event>> /\ events \in Seq({"login", "error"})
      /\ events \in {<<"login">>, <<"error">>} /\ (events = <<"login">> <=> event = "login")
  BY <1>1
<1>3. settled' = [settled EXCEPT ![u] = d]
  BY <1>1 DEF Emits
<1> HIDE DEF e, events
<1>4. d \in Ends /\ d.events = events /\ d.result = result /\ d.threw = e.threw
  BY <1>1, <1>2 DEF Ends
<1> HIDE DEF d
<1>5. EndOK(u, d)
  BY <1>1, <1>2, <1>4 DEF EndOK
<1> QED
  BY <1>3, <1>5, EndKeeps

\* A call whose own "login" listener throws.
LEMMA AnnouncesBoth ==
  ASSUME AuthInv, UNCHANGED users, NEW u \in User, proc[u].path \notin {"none", "logout"},
         proc' = [proc EXCEPT ![u] = NoCall],
         settled' = [settled EXCEPT ![u].events = @ \o <<"login", "error">>,
                                    ![u].threw = TRUE],
         NEW n, NEW f, FileOK(n, f), file' = [file EXCEPT ![n] = f]
  PROVE  AuthInv'
<1> DEFINE e == settled[u]
           events == e.events \o <<"login", "error">>
           d == [e EXCEPT !.events = events, !.threw = TRUE]
<1>1. e \in Ends /\ e.events = <<>> /\ e.result = NoResult
      /\ settled = [v \in User |-> settled[v]]
  BY Unannounced
<1>2. events = <<"login", "error">> /\ events \in Seq({"login", "error"})
      /\ events # <<"login">>
  BY <1>1
<1>3. settled' = [settled EXCEPT ![u] = d]
  BY <1>1
<1> HIDE DEF e, events
<1>4. d \in Ends /\ d.events = events /\ d.result = e.result /\ d.threw
  BY <1>1, <1>2 DEF Ends
<1> HIDE DEF d
<1>5. EndOK(u, d)
  BY <1>1, <1>2, <1>4 DEF EndOK
<1> QED
  BY <1>3, <1>5, EndKeeps

LEMMA FailsKeeps ==
  ASSUME AuthInv, NEW u \in User, proc[u].path \notin {"none", "logout"}, Fails(u),
         UNCHANGED <<users, file>>
  PROVE  AuthInv'
<1> DEFINE n == CacheName(u)
<1>1. file' = [file EXCEPT ![n] = file[n]] /\ FileOK(n, file[n])
  BY DEF AuthInv
<1> HIDE DEF n
<1> QED
  BY <1>1, AnnouncesOnce, NoResultTyped DEF Fails

-------------------------------------------------------------------------------
(* The steps of login() and logout() *)

LEMMA InitSound == Init => AuthInv
<1> SUFFICES ASSUME Init
             PROVE  AuthInv
  OBVIOUS
<1>1. file = [n \in Label \cup {"undefined"} |-> file[n]]
      /\ \A n \in DOMAIN file : FileOK(n, file[n])
  BY EmptyCacheOK DEF Init
<1>2. \A u \in User : CacheName(u) \in DOMAIN file
  <2>1. users \in Case /\ DOMAIN file = Label \cup {"undefined"}
    BY DEF Init
  <2>2. \A u \in User : users.label[u] \in Label
    BY <2>1 DEF Label
  <2> QED
    BY <2>1, <2>2 DEF CacheName
<1>3. \A u \in User : proc[u] = NoCall /\ settled[u] = Unsettled
  BY DEF Init
<1>4. \A u \in User : CallOK(u, proc[u]) /\ EndOK(u, settled[u]) /\ Quiet(proc[u], settled[u])
  BY <1>3, NoCallOK, UnsettledOK DEF Quiet
<1>5. proc = [u \in User |-> proc[u]] /\ settled = [u \in User |-> settled[u]]
  BY DEF Init
<1> QED
  BY <1>1, <1>2, <1>4, <1>5 DEF AuthInv

\* A login that begins, with what it has loaded.
LEMMA BeginsKeeps ==
  ASSUME AuthInv, NEW u \in User, NEW p, CallOK(u, p), Begins(u, p)
  PROVE  AuthInv'
<1> DEFINE n == CacheName(u)
<1>1. file' = [file EXCEPT ![n] = file[n]] /\ FileOK(n, file[n])
  BY DEF AuthInv, Begins
<1>2. EndOK(u, Unsettled) /\ Unsettled.events = <<>>
  BY UnsettledOK DEF Unsettled
<1> HIDE DEF n
<1> QED
  BY <1>1, <1>2, StepKeeps DEF Begins, Quiet

LEMMA LoginKeeps ==
  ASSUME AuthInv, NEW u \in User, Login(u)
  PROVE  AuthInv'
<1> DEFINE loaded == file[CacheName(u)]
<1>1. /\ loaded.microsoft \in MicrosoftTokens /\ loaded.session \in SessionTokens
      /\ MicrosoftOf(CacheName(u), loaded.microsoft)
      /\ SessionOf(CacheName(u), loaded.session)
  BY DEF AuthInv, FileOK, Content
<1>2. loaded = Load(u)
  BY DEF Load
<1> HIDE DEF loaded
<1>3. /\ {"bedrock", "refresh", "password", "deviceCode"} \subseteq Stage
      /\ {"xboxToken", "cached", "fresh"} \subseteq Path
      /\ NoMicrosoft \in MicrosoftTokens /\ NoSession \in SessionTokens
  BY NothingTyped DEF Stage, Path
<1>4. CASE LoginWithXboxToken(u)
  <2> DEFINE p == Call("bedrock", "xboxToken", NoMicrosoft, NoSession)
  <2>1. p \in Calls /\ p.step = "bedrock" /\ p.path = "xboxToken" /\ p.microsoft = NoMicrosoft
    BY <1>3, CallTyped
  <2> HIDE DEF p
  <2>2. CallOK(u, p)
    BY <1>4, <2>1 DEF CallOK, LoginWithXboxToken
  <2> QED
    BY <1>4, <2>2, BeginsKeeps DEF LoginWithXboxToken, p
<1>5. CASE LoginCached(u)
  <2> DEFINE p == Call("bedrock", "cached", NoMicrosoft, loaded.session)
  <2>1. p \in Calls /\ p.step = "bedrock" /\ p.path = "cached" /\ p.session = loaded.session
    BY <1>1, <1>3, CallTyped
  <2>2. Begins(u, p)
    BY <1>2, <1>5 DEF LoginCached
  <2> HIDE DEF p
  <2>3. CallOK(u, p)
    BY <1>1, <1>2, <1>5, <2>1 DEF CallOK, LoginCached, SessionOf
  <2> QED
    BY <2>2, <2>3, BeginsKeeps
<1>6. CASE LoginRefresh(u)
  <2> DEFINE p == Call("refresh", "fresh", loaded.microsoft, NoSession)
  <2>1. p \in Calls /\ p.step = "refresh" /\ p.path = "fresh" /\ p.microsoft = loaded.microsoft
    BY <1>1, <1>3, CallTyped
  <2>2. Begins(u, p)
    BY <1>2, <1>6 DEF LoginRefresh
  <2> HIDE DEF p
  <2>3. CallOK(u, p)
    BY <1>1, <1>2, <1>6, <2>1 DEF CallOK, LoginRefresh, MicrosoftOf
  <2> QED
    BY <2>2, <2>3, BeginsKeeps
<1>7. CASE LoginAnew(u)
  <2> DEFINE p == Call(Obtain(u), "fresh", NoMicrosoft, NoSession)
  <2>1. Obtain(u) \in {"password", "deviceCode"}
    BY DEF Obtain
  <2>2. p \in Calls /\ p.step = Obtain(u) /\ p.path = "fresh"
    BY <1>3, <2>1, CallTyped
  <2> HIDE DEF p
  <2>3. CallOK(u, p)
    BY <1>7, <2>1, <2>2 DEF CallOK, LoginAnew
  <2> QED
    BY <1>7, <2>3, BeginsKeeps DEF LoginAnew, p
<1> QED
  BY <1>4, <1>5, <1>6, <1>7 DEF Login

\* The path a call is on, by the step it is at.
LEMMA PathOfStep ==
  ASSUME AuthInv, NEW u \in User
  PROVE  /\ CallOK(u, proc[u]) /\ proc[u] \in Calls
         /\ proc[u].step \in {"refresh", "password", "deviceCode", "poll", "xbl", "xsts",
                              "xstsPlayFab", "playFab", "mcServices"} => proc[u].path = "fresh"
         /\ proc[u].step \notin {"idle", "write"} =>
              proc[u].path \in {"fresh", "cached", "xboxToken"}
         /\ proc[u].step = "multiplayer" => proc[u].path \in {"fresh", "cached"}
         /\ proc[u].step = "write" => proc[u].path \in {"fresh", "logout", "xboxToken"}
<1>1. CallOK(u, proc[u]) /\ proc[u].path \in Path
  BY DEF AuthInv, CallOK, Calls
<1> QED
  BY <1>1 DEF CallOK, Path

\* The tokens of the user, and of whoever logs in with the same file.
LEMMA GotMicrosoftKeeps ==
  ASSUME AuthInv, NEW u \in User, proc[u].path = "fresh",
         NEW account \in Sharers(CacheName(u)), NEW refresh \in {"good", "none"},
         GotMicrosoft(u, account, refresh), UNCHANGED <<users, file, settled>>
  PROVE  AuthInv'
<1> DEFINE m == [account |-> account, refresh |-> refresh]
           p == Call("xbl", "fresh", m, NoSession)
<1>1. m \in MicrosoftTokens /\ m.account = account
  BY DEF MicrosoftTokens, Sharers
<1>2. "xbl" \in Stage /\ "fresh" \in Path
  BY DEF Stage, Path
<1> HIDE DEF m
<1>3. p \in Calls /\ p.step = "xbl" /\ p.path = "fresh" /\ p.microsoft = m
  BY <1>1, <1>2, NothingTyped, CallTyped
<1>4. proc' = [proc EXCEPT ![u] = p]
  BY DEF GotMicrosoft, m
<1> HIDE DEF p
<1>5. users.flow[u] # "xboxToken"
  BY PathOfStep DEF CallOK
<1>6. CallOK(u, p)
  BY <1>1, <1>3, <1>5 DEF CallOK
<1> QED
  BY <1>4, <1>6, CallKeeps

LEMMA MicrosoftKeeps ==
  ASSUME AuthInv, NEW u \in User,
         \/ Refreshed(u) \/ RefreshFails(u) \/ PasswordAccepted(u) \/ DeviceCodeGiven(u)
         \/ Authorized(u) \/ NotYet(u) \/ PollTimesOut(u)
  PROVE  AuthInv'
<1>1. CallOK(u, proc[u]) /\ proc[u] \in Calls /\ proc[u].path = "fresh"
  BY PathOfStep
  DEF At, Refreshed, RefreshFails, PasswordAccepted, DeviceCodeGiven, Authorized, NotYet,
      PollTimesOut
<1>2. users.flow[u] # "xboxToken" /\ u \in Sharers(CacheName(u))
  BY <1>1 DEF CallOK, Sharers
<1>3. CASE Refreshed(u)
  <2>1. proc[u].microsoft.account \in Sharers(CacheName(u))
    BY <1>1, <1>3 DEF CallOK, Refreshed, At
  <2> QED
    BY <1>1, <1>3, <2>1, GotMicrosoftKeeps DEF Refreshed
<1>4. CASE RefreshFails(u)
  <2> DEFINE p == Call(Obtain(u), "fresh", NoMicrosoft, NoSession)
  <2>1. Obtain(u) \in {"password", "deviceCode"} /\ Obtain(u) \in Stage /\ "fresh" \in Path
    BY DEF Obtain, Stage, Path
  <2>2. p \in Calls /\ p.step = Obtain(u) /\ p.path = "fresh"
    BY <2>1, NothingTyped, CallTyped
  <2> HIDE DEF p
  <2>3. CallOK(u, p)
    BY <1>2, <2>1, <2>2 DEF CallOK
  <2> QED
    BY <1>1, <1>4, <2>3, CallKeeps DEF RefreshFails, p
<1>5. CASE PasswordAccepted(u) \/ Authorized(u)
  BY <1>1, <1>2, <1>5, GotMicrosoftKeeps DEF PasswordAccepted, Authorized
<1>6. CASE DeviceCodeGiven(u)
  <2> DEFINE p == [proc[u] EXCEPT !.step = "poll", !.left = Lifetime, !.interval = 1]
  <2>1. p \in Calls /\ p.step = "poll" /\ p.path = "fresh"
    BY <1>1, BoundAssumption DEF Calls, Stage
  <2>2. proc' = [proc EXCEPT ![u] = p]
    BY <1>6 DEF DeviceCodeGiven, AuthInv
  <2> HIDE DEF p
  <2>3. CallOK(u, p)
    BY <1>2, <2>1 DEF CallOK
  <2> QED
    BY <1>1, <1>6, <2>2, <2>3, CallKeeps DEF DeviceCodeGiven
<1>7. CASE NotYet(u)
  <2>1. PICK i \in Nat : proc' = [proc EXCEPT ![u] = [proc[u] EXCEPT !.left = Remaining(u),
                                                                     !.interval = i]]
    <3>1. PICK slower \in {0, 1} :
            proc' = [proc EXCEPT ![u].left = Remaining(u),
                                 ![u].interval = IF @ < Lifetime THEN @ + slower ELSE @]
      BY <1>7 DEF NotYet
    <3> DEFINE i == IF proc[u].interval < Lifetime THEN proc[u].interval + slower
                    ELSE proc[u].interval
    <3>2. i \in Nat
      BY <1>1 DEF Calls
    <3>3. proc' = [proc EXCEPT ![u] = [proc[u] EXCEPT !.left = Remaining(u), !.interval = i]]
      BY <1>1, <3>1 DEF AuthInv, Calls
    <3> HIDE DEF i
    <3> QED
      BY <3>2, <3>3
  <2> DEFINE p == [proc[u] EXCEPT !.left = Remaining(u), !.interval = i]
  <2>2. Remaining(u) \in Nat
    BY <1>1 DEF Remaining, Calls
  <2>3. p \in Calls /\ p.step = "poll" /\ p.path = "fresh"
    BY <1>1, <1>7, <2>2 DEF Calls, NotYet, At
  <2> HIDE DEF p
  <2>4. CallOK(u, p)
    BY <1>2, <2>3 DEF CallOK
  <2> QED
    BY <1>1, <1>7, <2>1, <2>4, CallKeeps DEF NotYet, p
<1>8. CASE PollTimesOut(u)
  BY <1>1, <1>8, FailsKeeps DEF PollTimesOut
<1> QED
  BY <1>3, <1>4, <1>5, <1>6, <1>7, <1>8

\* A request that is answered: the call goes on, with the same tokens.
LEMMA GotoKeeps ==
  ASSUME AuthInv, NEW u \in User, NEW step \in Stage \ {"idle"},
         UNCHANGED <<users, file, settled>>, Goto(u, step),
         \/ /\ proc[u].path = "fresh"
            /\ proc[u].step \notin {"password", "deviceCode", "poll"}
         \/ proc[u].path = "cached" /\ step = "multiplayer"
  PROVE  AuthInv'
<1> DEFINE p == [proc[u] EXCEPT !.step = step]
<1>1. CallOK(u, proc[u]) /\ proc[u] \in Calls
  BY PathOfStep
<1>2. /\ p \in Calls /\ p.step = step /\ p.path = proc[u].path
      /\ p.microsoft = proc[u].microsoft /\ p.session = proc[u].session
  BY <1>1 DEF Calls
<1>3. proc' = [proc EXCEPT ![u] = p]
  BY DEF Goto, AuthInv
<1> HIDE DEF p
<1>4. CallOK(u, p)
  BY <1>1, <1>2 DEF CallOK
<1> QED
  BY <1>2, <1>3, <1>4, CallKeeps

\* The file is truncated before anything is announced.
LEMMA SaveKeeps ==
  ASSUME AuthInv, NEW u \in User, UNCHANGED users, Save(u),
         \/ /\ proc[u].path = "fresh"
            /\ proc[u].step \notin {"password", "deviceCode", "poll"}
         \/ proc[u].path = "xboxToken"
  PROVE  AuthInv'
<1> DEFINE p == [proc[u] EXCEPT !.step = "write"]
<1>1. CallOK(u, proc[u]) /\ proc[u] \in Calls
  BY PathOfStep
<1>2. /\ p \in Calls /\ p.step = "write" /\ p.path = proc[u].path
      /\ p.microsoft = proc[u].microsoft /\ p.session = proc[u].session
  BY <1>1 DEF Calls, Stage
<1>3. proc' = [proc EXCEPT ![u] = p]
  BY DEF Save, Goto, AuthInv
<1>4. settled' = [settled EXCEPT ![u] = settled[u]]
  <2> DEFINE q == settled[u].events
  <2>1. q \in Seq({"login", "error"}) /\ settled[u] \in Ends
    BY DEF AuthInv, EndOK, Ends
  <2>2. q \o <<>> = q
    BY <2>1
  <2>3. settled' = [settled EXCEPT ![u] = [settled[u] EXCEPT !.events = q \o <<>>]]
    BY DEF Save, EventsBeforeSave, AuthInv
  <2>4. [settled[u] EXCEPT !.events = q] = settled[u]
    BY <2>1 DEF Ends
  <2> HIDE DEF q
  <2> QED
    BY <2>2, <2>3, <2>4
<1> HIDE DEF p
<1>5. CallOK(u, p)
  BY <1>1, <1>2 DEF CallOK
<1>6. EndOK(u, settled[u]) /\ Quiet(p, settled[u])
  BY <1>2 DEF AuthInv, Quiet
<1> QED
  BY <1>3, <1>4, <1>5, <1>6, EmptyCacheOK, StepKeeps DEF Save

LEMMA SucceedsKeeps ==
  ASSUME AuthInv, NEW u \in User, UNCHANGED users, NEW r \in Results, Whole(u, r),
         proc[u].path \notin {"none", "logout"}, Succeeds(u, r),
         NEW n, NEW f, FileOK(n, f), file' = [file EXCEPT ![n] = f]
  PROVE  AuthInv'
<1>1. proc' = [proc EXCEPT ![u] = NoCall]
  BY DEF Succeeds
<1>2. \/ Emits(u, "login", r)
      \/ settled' = [settled EXCEPT ![u].events = @ \o <<"login", "error">>,
                                    ![u].threw = TRUE]
  BY DEF Succeeds
<1>3. CASE Emits(u, "login", r)
  BY <1>1, <1>3, AnnouncesOnce
<1>4. CASE settled' = [settled EXCEPT ![u].events = @ \o <<"login", "error">>,
                                      ![u].threw = TRUE]
  BY <1>1, <1>4, AnnouncesBoth
<1> QED
  BY <1>2, <1>3, <1>4

LEMMA ServicesKeep ==
  ASSUME AuthInv, NEW u \in User,
         \/ XboxAnswers(u) \/ PlayFabAnswers(u) \/ ServicesAnswer(u) \/ MultiplayerAnswers(u)
         \/ RequestFails(u)
  PROVE  AuthInv'
<1>1. CallOK(u, proc[u]) /\ proc[u] \in Calls
  BY PathOfStep
<1>2. {"xsts", "xstsPlayFab", "playFab", "mcServices", "bedrock", "multiplayer"}
        \subseteq Stage \ {"idle"}
  BY DEF Stage
<1>3. CASE XboxAnswers(u) \/ PlayFabAnswers(u)
  <2>1. proc[u].step \in {"xbl", "xsts", "xstsPlayFab", "playFab"}
    BY <1>3 DEF XboxAnswers, PlayFabAnswers, At
  <2>2. proc[u].path = "fresh" /\ proc[u].step \notin {"password", "deviceCode", "poll"}
    BY <2>1, PathOfStep
  <2>3. PICK step \in {"xsts", "xstsPlayFab", "playFab", "mcServices"} : Goto(u, step)
    BY <1>3 DEF XboxAnswers, PlayFabAnswers
  <2>4. UNCHANGED <<users, file, settled>>
    BY <1>3 DEF XboxAnswers, PlayFabAnswers
  <2> QED
    BY <1>2, <2>2, <2>3, <2>4, GotoKeeps
<1>4. CASE ServicesAnswer(u)
  <2>1. proc[u].step \in {"mcServices", "bedrock"} /\ UNCHANGED users
    BY <1>4 DEF ServicesAnswer, At
  <2>2. proc[u].step = "mcServices" => proc[u].path = "fresh"
    BY PathOfStep
  <2>3. proc[u].path \in {"fresh", "cached", "xboxToken"}
    BY <2>1, PathOfStep
  <2>4. CASE At(u, "mcServices") /\ Goto(u, "bedrock") /\ UNCHANGED <<file, settled>>
    BY <1>2, <2>1, <2>2, <2>4, GotoKeeps DEF At
  <2>5. CASE At(u, "bedrock") /\ proc[u].path = "xboxToken" /\ Save(u)
    BY <2>1, <2>5, SaveKeeps
  <2>6. CASE /\ At(u, "bedrock") /\ proc[u].path # "xboxToken"
             /\ Goto(u, "multiplayer") /\ UNCHANGED <<file, settled>>
    BY <1>2, <2>1, <2>3, <2>6, GotoKeeps DEF At
  <2> QED
    BY <1>4, <2>4, <2>5, <2>6 DEF ServicesAnswer
<1>5. CASE MultiplayerAnswers(u)
  <2>1. UNCHANGED users /\ proc[u].step = "multiplayer"
    BY <1>5 DEF MultiplayerAnswers, At
  <2>2. CASE /\ proc[u].path = "cached" /\ UNCHANGED file
             /\ Succeeds(u, [chain |-> proc[u].session.xsts, multiplayer |-> McServices(u)])
    <3> DEFINE r == [chain |-> proc[u].session.xsts, multiplayer |-> McServices(u)]
               n == CacheName(u)
    <3>1. Whole(u, r)
      BY <1>1, <2>2 DEF CallOK, McServices, Accounts, Whole
    <3>2. r \in Results
      BY <1>1 DEF Calls, SessionTokens, McServices, Results
    <3>3. file' = [file EXCEPT ![n] = file[n]] /\ FileOK(n, file[n])
      BY <2>2 DEF AuthInv
    <3> HIDE DEF r, n
    <3>4. Succeeds(u, r)
      BY <2>2 DEF r
    <3> QED
      BY <2>1, <2>2, <3>1, <3>2, <3>3, <3>4, SucceedsKeeps
  <2>3. CASE proc[u].path = "fresh" /\ Save(u)
    BY <2>1, <2>3, SaveKeeps
  <2> QED
    BY <1>5, <2>2, <2>3 DEF MultiplayerAnswers
<1>6. CASE RequestFails(u)
  <2>1. proc[u].path \notin {"none", "logout"}
    BY <1>6, PathOfStep DEF RequestFails, Awaits
  <2> QED
    BY <1>6, <2>1, FailsKeeps DEF RequestFails
<1> QED
  BY <1>3, <1>4, <1>5, <1>6

\* What is written is either the content or a file that load() cannot read.
LEMMA WrittenOK ==
  ASSUME NEW u, NEW content, FileOK(CacheName(u), content), Written(u, content)
  PROVE  \E after : /\ FileOK(CacheName(u), after)
                    /\ file' = [file EXCEPT ![CacheName(u)] = after]
BY EmptyCacheOK DEF Written

LEMMA WriteKeeps ==
  ASSUME AuthInv, NEW u \in User, Write(u)
  PROVE  AuthInv'
<1>1. CallOK(u, proc[u]) /\ proc[u] \in Calls /\ proc[u].step = "write" /\ UNCHANGED users
  BY PathOfStep DEF Write, At
<1>2. CASE proc[u].path = "logout"
  <2> DEFINE c == [microsoft |-> proc[u].microsoft, session |-> NoSession]
  <2>1. FileOK(CacheName(u), c)
    BY <1>1, <1>2, NothingTyped
    DEF CallOK, Calls, FileOK, Content, SessionOf, IsTokenValid
  <2>2. Written(u, c) /\ proc' = [proc EXCEPT ![u] = NoCall] /\ UNCHANGED settled
    BY <1>2 DEF Write
  <2> HIDE DEF c
  <2>3. PICK after : /\ FileOK(CacheName(u), after)
                     /\ file' = [file EXCEPT ![CacheName(u)] = after]
    BY <2>1, <2>2, WrittenOK
  <2>4. EndOK(u, settled[u]) /\ settled' = [settled EXCEPT ![u] = settled[u]]
    BY <2>2 DEF AuthInv
  <2> DEFINE n == CacheName(u)
             e == settled[u]
  <2>5. /\ EndOK(u, e) /\ settled' = [settled EXCEPT ![u] = e]
        /\ FileOK(n, after) /\ file' = [file EXCEPT ![n] = after]
    BY <2>3, <2>4
  <2> HIDE DEF n, e
  <2> QED
    BY <1>1, <2>2, <2>5, EndKeeps
<1>3. CASE proc[u].path # "logout"
  <2> DEFINE a == Account(u)
             b == McAccount(u)
             s == [xsts |-> a, mcServices |-> b,
                   status |-> IF proc[u].path = "fresh" THEN "good" ELSE "expired"]
             r == [chain |-> a, multiplayer |-> b]
             n == CacheName(u)
  <2>1. proc[u].path \in {"fresh", "xboxToken"}
    BY <1>1, <1>3, PathOfStep
  <2>2. /\ proc[u].path = "fresh" =>
              a \in Sharers(n) /\ a = proc[u].microsoft.account /\ b = a
        /\ proc[u].path = "xboxToken" => a = u /\ b = Nobody /\ users.flow[u] = "xboxToken"
        /\ a \in Accounts(u) /\ a \in User /\ b \in User \cup {Nobody}
    BY <1>1, <2>1 DEF CallOK, Account, McAccount, Accounts, Sharers
  <2> HIDE DEF a, b
  <2>3. /\ s \in SessionTokens /\ s.xsts = a /\ s.mcServices = b
        /\ IsTokenValid(s) => proc[u].path = "fresh"
    BY <2>2 DEF SessionTokens, Status, IsTokenValid
  <2>4. proc[u].microsoft \in MicrosoftTokens /\ MicrosoftOf(n, proc[u].microsoft)
    BY <1>1, <2>1, <2>2, NothingTyped DEF CallOK, Calls, MicrosoftOf
  <2>5. Tokens(u) = [microsoft |-> proc[u].microsoft, session |-> s]
    BY DEF Tokens, a, b
  <2>6. /\ Whole(u, r)
        /\ r \in Results
    BY <2>1, <2>2 DEF Whole, Results
  <2> HIDE DEF s
  <2>7. FileOK(n, Tokens(u))
    BY <2>2, <2>3, <2>4, <2>5 DEF FileOK, Content, SessionOf
  <2>8. Written(u, Tokens(u)) /\ Succeeds(u, r)
    BY <1>3 DEF Write, a, b
  <2>9. PICK after : FileOK(n, after) /\ file' = [file EXCEPT ![n] = after]
    BY <2>7, <2>8, WrittenOK
  <2> HIDE DEF n, r
  <2> QED
    BY <1>1, <2>1, <2>6, <2>8, <2>9, SucceedsKeeps
<1> QED
  BY <1>2, <1>3

\* The calls that end without a success, and logout().
LEMMA OthersKeep ==
  ASSUME AuthInv, NEW u \in User, Logout(u) \/ WriteFails(u) \/ Crash(u)
  PROVE  AuthInv'
<1> DEFINE n == CacheName(u)
           e == settled[u]
<1>1. CallOK(u, proc[u]) /\ proc[u] \in Calls /\ FileOK(n, file[n]) /\ EndOK(u, e)
  BY PathOfStep DEF AuthInv
<1>2. UNCHANGED users
  BY DEF Logout, WriteFails, Crash
<1>3. CASE Logout(u)
  <2> DEFINE p == Call("write", "logout", KeptByLogout(u), NoSession)
  <2>1. KeptByLogout(u) \in MicrosoftTokens /\ MicrosoftOf(n, KeptByLogout(u))
    BY <1>1 DEF KeptByLogout, Load, FileOK, Content
  <2>2. "write" \in Stage /\ "logout" \in Path
    BY DEF Stage, Path
  <2>3. /\ p \in Calls /\ p.step = "write" /\ p.path = "logout"
        /\ p.microsoft = KeptByLogout(u)
    BY <2>1, <2>2, NothingTyped, CallTyped
  <2>4. /\ proc' = [proc EXCEPT ![u] = p] /\ settled' = [settled EXCEPT ![u] = e]
        /\ file' = [file EXCEPT ![n] = EmptyCache]
    BY <1>3 DEF Logout, AuthInv
  <2> HIDE DEF p
  <2>5. CallOK(u, p) /\ Quiet(p, e)
    BY <2>1, <2>3 DEF CallOK, Quiet
  <2> HIDE DEF n, e
  <2> QED
    BY <1>1, <1>2, <2>4, <2>5, EmptyCacheOK, StepKeeps
<1>4. file' = [file EXCEPT ![n] = file[n]] \/ Logout(u)
  BY DEF WriteFails, Crash, AuthInv
<1>5. CASE WriteFails(u)
  <2>1. CASE proc[u].path = "logout"
    <3>1. proc' = [proc EXCEPT ![u] = NoCall] /\ settled' = [settled EXCEPT ![u] = e]
          /\ file' = [file EXCEPT ![n] = file[n]]
      BY <1>5, <2>1 DEF WriteFails, AuthInv
    <3> HIDE DEF n, e
    <3> QED
      BY <1>1, <1>2, <3>1, EndKeeps
  <2>2. CASE proc[u].path # "logout"
    <3>1. proc[u].path \notin {"none", "logout"}
      BY <1>1, <1>5, <2>2 DEF CallOK, WriteFails, At
    <3> QED
      BY <1>5, <2>2, <3>1, FailsKeeps DEF WriteFails
  <2> QED
    BY <2>1, <2>2
<1>6. CASE Crash(u)
  <2>1. /\ proc' = [proc EXCEPT ![u] = NoCall]
        /\ settled' = [settled EXCEPT ![u] = Unsettled]
        /\ file' = [file EXCEPT ![n] = file[n]]
    BY <1>6 DEF Crash, AuthInv
  <2> HIDE DEF n, e
  <2> QED
    BY <1>1, <1>2, <2>1, UnsettledOK, EndKeeps
<1> QED
  BY <1>3, <1>5, <1>6

-------------------------------------------------------------------------------
(* Time and the services *)

\* Tokens grow old or are taken back: never anybody else's.
LEMMA FileKeeps ==
  ASSUME AuthInv, UNCHANGED <<users, proc, settled>>, NEW n, NEW f, FileOK(n, f),
         file' = [file EXCEPT ![n] = f]
  PROVE  AuthInv'
<1>1. \A v : CacheName(v)' = CacheName(v) /\ Accounts(v)' = Accounts(v)
  BY DEF CacheName, Accounts, Sharers
<1>2. \A m : Sharers(m)' = Sharers(m)
  BY <1>1 DEF Sharers
<1>3. \A m, g : FileOK(m, g)' <=> FileOK(m, g)
  BY <1>2 DEF FileOK, MicrosoftOf, SessionOf
<1>4. \A v \in User : CallOK(v, proc[v])' <=> CallOK(v, proc[v])
  BY <1>1, <1>2 DEF CallOK, MicrosoftOf
<1>5. \A v \in User : EndOK(v, settled[v])' <=> EndOK(v, settled[v])
  BY <1>1 DEF EndOK, Whole
<1>6. DOMAIN file' = DOMAIN file /\ file' = [m \in Label \cup {"undefined"} |-> file'[m]]
  BY DEF AuthInv
<1>7. \A m \in DOMAIN file' : FileOK(m, file'[m])
  BY <1>6 DEF AuthInv
<1>8. \A v \in User : Quiet(proc[v], settled[v])'
  BY DEF AuthInv, Quiet
<1> QED
  BY <1>1, <1>3, <1>4, <1>5, <1>6, <1>7, <1>8 DEF AuthInv

LEMMA WorldKeeps ==
  ASSUME AuthInv, NEW n \in DOMAIN file, Expire(n) \/ Refuse(n) \/ Revoke(n)
  PROVE  AuthInv'
<1> DEFINE f == file[n]
<1>1. UNCHANGED <<users, proc, settled>>
  BY DEF Expire, Refuse, Revoke
<1>2. /\ f.microsoft \in MicrosoftTokens /\ f.session \in SessionTokens
      /\ f = [microsoft |-> f.microsoft, session |-> f.session]
      /\ MicrosoftOf(n, f.microsoft) /\ SessionOf(n, f.session)
  BY DEF AuthInv, FileOK, Content
<1>3. CASE Expire(n) \/ Refuse(n)
  <2>1. PICK status \in {"expired", "refused"} :
          file' = [file EXCEPT ![n].session.status = status] /\ IsTokenValid(f.session)
    BY <1>3 DEF Expire, Refuse, IsTokenValid
  <2> DEFINE s == [f.session EXCEPT !.status = status]
             g == [microsoft |-> f.microsoft, session |-> s]
  <2>2. s \in SessionTokens /\ s.xsts = f.session.xsts /\ s.mcServices = f.session.mcServices
    BY <1>2 DEF SessionTokens, Status
  <2>3. file' = [file EXCEPT ![n] = g]
    <3>1. file' = [file EXCEPT ![n] = [f EXCEPT !.session = s]]
      BY <2>1 DEF AuthInv
    <3>2. [f EXCEPT !.session = s] = g
      BY <1>2
    <3> QED
      BY <3>1, <3>2
  <2> HIDE DEF s
  <2>4. FileOK(n, g)
    BY <1>2, <2>1, <2>2 DEF FileOK, Content, SessionOf
  <2> HIDE DEF g
  <2> QED
    BY <1>1, <2>3, <2>4, FileKeeps
<1>4. CASE Revoke(n)
  <2> DEFINE m == [f.microsoft EXCEPT !.refresh = "dead"]
             g == [microsoft |-> m, session |-> f.session]
  <2>1. m \in MicrosoftTokens /\ m.account = f.microsoft.account /\ f.microsoft.refresh = "good"
    BY <1>2, <1>4 DEF MicrosoftTokens, Revoke
  <2>2. file' = [file EXCEPT ![n] = g]
    <3>1. file' = [file EXCEPT ![n] = [f EXCEPT !.microsoft = m]]
      BY <1>4 DEF AuthInv, Revoke
    <3>2. [f EXCEPT !.microsoft = m] = g
      BY <1>2
    <3> QED
      BY <3>1, <3>2
  <2> HIDE DEF m
  <2>3. FileOK(n, g)
    BY <1>2, <2>1 DEF FileOK, Content, MicrosoftOf
  <2> HIDE DEF g
  <2> QED
    BY <1>1, <2>2, <2>3, FileKeeps
<1> QED
  BY <1>3, <1>4

-------------------------------------------------------------------------------
(* The invariant, and what follows from it *)

LEMMA NextSound == AuthInv /\ [Next]_vars => AuthInv'
<1> SUFFICES ASSUME AuthInv, [Next]_vars
             PROVE  AuthInv'
  OBVIOUS
<1>1. CASE UNCHANGED vars
  <2> USE <1>1 DEF vars
  <2>1. \A v : CacheName(v)' = CacheName(v) /\ Accounts(v)' = Accounts(v)
    BY DEF CacheName, Accounts, Sharers
  <2>2. \A m : Sharers(m)' = Sharers(m)
    BY <2>1 DEF Sharers
  <2>3. \A m, g : FileOK(m, g)' <=> FileOK(m, g)
    BY <2>2 DEF FileOK, MicrosoftOf, SessionOf
  <2>4. \A v, q : CallOK(v, q)' <=> CallOK(v, q)
    BY <2>1, <2>2 DEF CallOK, MicrosoftOf
  <2>5. \A v, q : EndOK(v, q)' <=> EndOK(v, q)
    BY <2>1 DEF EndOK, Whole
  <2> QED
    BY <2>1, <2>3, <2>4, <2>5 DEF AuthInv
<1>2. ASSUME NEW u \in User, Login(u) \/ Step(u) \/ Authorized(u) \/ Logout(u)
                             \/ WriteFails(u) \/ Crash(u)
      PROVE  AuthInv'
  BY <1>2, LoginKeeps, MicrosoftKeeps, ServicesKeep, WriteKeeps, OthersKeep DEF Step
<1>3. ASSUME NEW n \in DOMAIN file, Expire(n) \/ Refuse(n) \/ Revoke(n)
      PROVE  AuthInv'
  BY <1>3, WorldKeeps
<1> QED
  BY <1>1, <1>2, <1>3 DEF Next

LEMMA AlwaysSound == Spec => []AuthInv
BY InitSound, NextSound, PTL DEF Spec

\* A login emits "login" or "error" once, and has a result if and only if it was
\* "login" alone; it emits both only where a listener of "login" threw (the try
\* and the catch of login(), with emit("login") within the try).
THEOREM LoginSettlesOnce == Spec => []SettledOnce
<1>1. AuthInv => SettledOnce
  <2> SUFFICES ASSUME AuthInv, NEW u \in User
               PROVE  /\ IF settled[u].threw THEN settled[u].events = <<"login", "error">>
                         ELSE settled[u].events \in {<<>>, <<"login">>, <<"error">>}
                      /\ settled[u].events = <<"login">> <=> settled[u].result # NoResult
                      /\ ~At(u, "idle") /\ proc[u].path # "logout"
                           => settled[u].events = <<>>
    BY DEF SettledOnce
  <2>1. /\ CallOK(u, proc[u]) /\ EndOK(u, settled[u]) /\ Quiet(proc[u], settled[u])
    BY DEF AuthInv
  <2>2. settled[u].events = <<"login">> <=> settled[u].result # NoResult
    <3>1. Accounts(u) \subseteq User
      BY DEF Accounts, Sharers
    <3> QED
      BY <2>1, <3>1, NobodyIsNoUser DEF EndOK, Whole, NoResult
  <2>3. ~At(u, "idle") /\ proc[u].path # "logout" => settled[u].events = <<>>
    BY <2>1 DEF CallOK, Quiet, At
  <2> QED
    BY <2>1, <2>2, <2>3 DEF EndOK
<1> QED
  BY <1>1, AlwaysSound, PTL

\* The chain and the multiplayer token of one result are for one account, for
\* tryUseCached as well as for a login that asks for all its tokens.
THEOREM ResultIsWhole == Spec => []ResultWhole
<1>1. AuthInv => ResultWhole
  BY DEF AuthInv, EndOK, Whole, NoResult, ResultWhole
<1> QED
  BY <1>1, AlwaysSound, PTL

\* Whose cache file no other user's label names gets the account asked for;
\* the file "undefined.json" of the xboxToken flow is never read for a login.
THEOREM OwnAccountOnly == Spec => []OwnAccount
<1>1. AuthInv => OwnAccount
  <2> SUFFICES ASSUME AuthInv, NEW u \in User, users.flow[u] # "deviceCode",
                      ~ \E v \in User \ {u} : users.label[v] = users.label[u]
               PROVE  settled[u].result.chain \in {u, Nobody}
    BY DEF OwnAccount
  <2>1. Accounts(u) \subseteq {u}
    BY DEF Accounts, Sharers, CacheName
  <2>2. EndOK(u, settled[u])
    BY DEF AuthInv
  <2> QED
    BY <2>1, <2>2 DEF EndOK, Whole, NoResult
<1> QED
  BY <1>1, AlwaysSound, PTL
===============================================================================
