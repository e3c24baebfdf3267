------------------------------ MODULE Sessions ------------------------------
(***************************************************************************)
(* Accounts, and the sessions of one browser: registration, the password   *)
(* and the Google sign-in (api/routes.py, api/auth_google.py), rotation    *)
(* and logout (core/security.py), and the calls of the web page, which     *)
(* refreshes an access token that was refused and tries once more          *)
(* (web/index.html).                                                       *)
(*                                                                         *)
(* The tabs share the refresh cookie and local storage; each keeps the     *)
(* access token it last saw.  A request reads, commits or is rolled back,  *)
(* and is answered, in separate steps; answers arrive in any order or not  *)
(* at all.  Passwords are right: a wrong one is refused like an unknown    *)
(* address.                                                                *)
(***************************************************************************)
EXTENDS Naturals, FiniteSets, Sequences

CONSTANTS Tabs,
          Emails,
          Subs,       \* Google accounts, whose address can change
          MaxActions, \* bound: what the people at the browser do
          MaxFaults   \* bound: lost answers, failures and expired sessions

None == 0
NoSub == "no sub"

ASSUME SessionsAssumption ==
    MaxActions \in Nat /\ MaxFaults \in Nat /\ NoSub \notin Subs

VARIABLES
    accounts, \* rows of users; their number is the account's name
    stats,    \* accounts that have a row in user_stats
    tokens,   \* rows of refresh_tokens: of whom, and neither revoked nor expired
    cookie,   \* the refresh token the browser holds
    flow,     \* the tab whose Google flow the flow cookie belongs to
    stored,   \* of whom the access token in local storage is
    screen,   \* what each tab shows
    token,    \* of whom the access token of each tab is
    req,      \* the request each tab waits for
    actions, faults

database == <<accounts, stats, tokens>>
browser == <<cookie, flow, stored>>
bounds == <<actions, faults>>
vars == <<database, browser, screen, token, req, bounds>>

Quiet == [path |-> "none"]

Start(nobodyYet, where) ==
    /\ screen = [t \in Tabs |-> where]
    /\ stored = IF nobodyYet THEN None ELSE 1
    /\ token = [t \in Tabs |-> stored]
    /\ cookie = stored
    /\ stats = IF nobodyYet THEN {} ELSE {1}
    /\ tokens = IF nobodyYet THEN <<>> ELSE <<[user |-> 1, live |-> TRUE]>>

\* Nobody has signed in, and the tabs show the login page or are at Google; or
\* somebody has, and the tabs show the application.
Init ==
    /\ \/ Start(TRUE, "login") /\ accounts = <<>> /\ flow = None
       \/ Start(TRUE, "google") /\ accounts = <<>> /\ flow \in Tabs
       \/ /\ Start(FALSE, "app") /\ flow = None
          /\ \E sub \in Subs \cup {NoSub}, email \in Emails :
                accounts = <<[sub |-> sub, email |-> email,
                              local |-> sub = NoSub]>>
    /\ req = [t \in Tabs |-> Quiet]
    /\ actions = 0 /\ faults = 0

Live(k) == k \in DOMAIN tokens /\ tokens[k].live

-----------------------------------------------------------------------------
Nobody == [sub |-> NoSub, email |-> "none"]

\* What a tab sends: purpose is why it does, held the cookie that goes with it.
Request(path, purpose, who, held) ==
    [path |-> path, purpose |-> purpose, who |-> who, cookie |-> held,
     stage |-> "sent"]

CallFor(purpose) == Request("call", purpose, Nobody, None)
RefreshFor(purpose, held) == Request("refresh", purpose, Nobody, held)

Act(t) ==
    /\ req[t] = Quiet
    /\ actions < MaxActions
    /\ actions' = actions + 1
    /\ UNCHANGED faults

\* The script of the page: without an access token it asks for one, with one it
\* shows the learner's day.
LoadPage(t, held) ==
    /\ token' = [token EXCEPT ![t] = stored]
    /\ screen' = [screen EXCEPT ![t] = "loading"]
    /\ req' = [req EXCEPT ![t] =
                  IF stored = None THEN RefreshFor("load", held)
                  ELSE CallFor("boot")]

OpenPage(t) ==
    Act(t) /\ LoadPage(t, cookie) /\ UNCHANGED <<database, browser>>

SignIn(t) ==
    /\ Act(t)
    /\ screen[t] = "login"
    /\ \E path \in {"register", "login"}, email \in Emails :
          req' = [req EXCEPT ![t] =
                     Request(path, "sign in", [sub |-> NoSub, email |-> email],
                             None)]
    /\ UNCHANGED <<database, browser, screen, token>>

\* The redirect to Google leaves the state of this flow in the flow cookie.
GoogleLoginRedirect(t) ==
    /\ Act(t)
    /\ screen[t] = "login"
    /\ screen' = [screen EXCEPT ![t] = "google"]
    /\ flow' = t
    /\ UNCHANGED <<database, cookie, stored, token, req>>

\* Google sends the browser back, with the state of this tab's flow.
ComeBack(t) ==
    /\ Act(t)
    /\ screen[t] = "google"
    /\ \E sub \in Subs, email \in Emails :
          req' = [req EXCEPT ![t] =
                     Request("callback", IF flow = t THEN "sign in" ELSE "mismatch",
                             [sub |-> sub, email |-> email], None)]
    /\ UNCHANGED <<database, browser, screen, token>>

Use(t) ==
    /\ Act(t)
    /\ screen[t] = "app"
    /\ req' = [req EXCEPT ![t] = CallFor("use")]
    /\ UNCHANGED <<database, browser, screen, token>>

LogOut(t) ==
    /\ Act(t)
    /\ screen[t] = "app"
    /\ req' = [req EXCEPT ![t] = Request("logout", "log out", Nobody, cookie)]
    /\ UNCHANGED <<database, browser, screen, token>>

-----------------------------------------------------------------------------
Last == {"done", "failed"}

At(t, path, stage) ==
    req[t] # Quiet /\ req[t].path = path /\ req[t].stage = stage

\* The server leaves the request at a stage, of an account, with what it read
\* in it until the stage is the last.
Leave(t, stage, user, issued) ==
    /\ req' = [req EXCEPT ![t] =
                  [path |-> @.path, purpose |-> @.purpose, stage |-> stage,
                   who |-> IF stage \in Last THEN Nobody ELSE @.who,
                   cookie |-> IF stage \in Last THEN None ELSE @.cookie,
                   user |-> user, issued |-> issued]]
    /\ UNCHANGED <<browser, screen, token, bounds>>

\* The request goes on, for an account; None stands for one it will add.
GoesOn(t, user) == Leave(t, "open", user, None) /\ UNCHANGED database

\* The handler raises: get_session rolls back all the request wrote, and the
\* answer leaves the cookies as they are.
Refused(t) == Leave(t, "failed", None, None) /\ UNCHANGED database

Owners(email) == {i \in DOMAIN accounts : accounts[i].email = email}
LocalOwners(email) == {i \in Owners(email) : accounts[i].local}
OfSub(sub) == {i \in DOMAIN accounts : accounts[i].sub = sub}
TheOne(S) == IF S = {} THEN None ELSE CHOOSE i \in S : TRUE

Register(t) ==
    /\ At(t, "register", "sent")
    /\ IF Owners(req[t].who.email) = {} THEN GoesOn(t, None) ELSE Refused(t)

Login(t) ==
    /\ At(t, "login", "sent")
    /\ LET users == LocalOwners(req[t].who.email)
       IN  IF Cardinality(users) = 1 THEN GoesOn(t, TheOne(users))
           ELSE Refused(t)

\* The callback asks whether the account exists, and then looks it up again.
\* Google may refuse the code.
GoogleCallback(t) ==
    /\ At(t, "callback", "sent")
    /\ \/ Refused(t)
       \/ /\ req[t].purpose = "sign in"
          /\ Leave(t, "existed", TheOne(OfSub(req[t].who.sub)), None)
          /\ UNCHANGED database

UpsertUser(t) ==
    /\ At(t, "callback", "existed")
    /\ LET user == TheOne(OfSub(req[t].who.sub))
       IN  IF user # None /\ req[t].user = None
           THEN Refused(t)  \* a second row of user_stats
           ELSE GoesOn(t, user)

RotateRefreshToken(t) ==
    /\ At(t, "refresh", "sent")
    /\ LET k == req[t].cookie
       IN  IF Live(k) THEN GoesOn(t, tokens[k].user) ELSE Refused(t)

RevokeRefreshToken(t) == At(t, "logout", "sent") /\ GoesOn(t, None)

\* Fault: neither google_sub nor the address of a password is unique.
NoUniqueIndex(who) == FALSE

\* google_sub is unique, and so is an address among password accounts.
Taken(who) ==
    IF who.sub = NoSub THEN LocalOwners(who.email) # {} ELSE OfSub(who.sub) # {}

IsNew(t) == req[t].path \in {"register", "callback"} /\ req[t].user = None

UniqueViolation(t) ==
    /\ req[t] # Quiet /\ req[t].stage = "open"
    /\ IsNew(t) /\ Taken(req[t].who)
    /\ Refused(t)

\* issue_tokens for everything but a logout; the token it replaces is revoked.
Commit(t) ==
    /\ req[t] # Quiet /\ req[t].stage = "open"
    /\ ~(IsNew(t) /\ Taken(req[t].who))
    /\ LET who == req[t].who
           user == IF IsNew(t) THEN Len(accounts) + 1 ELSE req[t].user
           revoked == IF req[t].path \in {"refresh", "logout"}
                      THEN {req[t].cookie} ELSE {}
           left == [k \in DOMAIN tokens |->
                       [tokens[k] EXCEPT !.live = @ /\ k \notin revoked]]
       IN  /\ accounts' =
                 CASE IsNew(t) ->
                        Append(accounts, [sub |-> who.sub, email |-> who.email,
                                          local |-> who.sub = NoSub])
                   [] ~IsNew(t) /\ req[t].path = "callback" ->
                        [accounts EXCEPT ![user].email = who.email]
                   [] OTHER -> accounts
           /\ stats' = IF IsNew(t) THEN stats \cup {user} ELSE stats
           /\ IF req[t].path = "logout"
              THEN tokens' = left /\ Leave(t, "done", None, None)
              ELSE /\ tokens' = Append(left, [user |-> user, live |-> TRUE])
                   /\ Leave(t, "done", user, Len(tokens) + 1)

Fail == faults < MaxFaults /\ faults' = faults + 1

\* Any exception or crash, a request that never arrives, or an answer.
Abort(t) ==
    /\ Fail
    /\ req[t] # Quiet /\ req[t].stage # "failed"
    /\ req' = [req EXCEPT ![t] =
                  [path |-> @.path, purpose |-> @.purpose, stage |-> "failed",
                   who |-> Nobody, cookie |-> None, user |-> None, issued |-> None]]
    /\ UNCHANGED <<database, browser, screen, token, actions>>

\* A session is not used for refresh_token_ttl_days.
Expire(k) ==
    /\ Fail
    /\ Live(k)
    /\ tokens' = [tokens EXCEPT ![k].live = FALSE]
    /\ UNCHANGED <<accounts, stats, browser, screen, token, req, actions>>

-----------------------------------------------------------------------------
Answered(t, path, stages) ==
    req[t] # Quiet /\ req[t].path = path /\ req[t].stage \in stages

Ends(t) == req' = [req EXCEPT ![t] = Quiet]

\* The page has an access token of a learner and makes the next call.
HasToken(t, user, purpose) ==
    /\ token' = [token EXCEPT ![t] = user]
    /\ stored' = user
    /\ req' = [req EXCEPT ![t] = CallFor(purpose)]

ShowsLogin(t) == screen' = [screen EXCEPT ![t] = "login"]

\* boot() without a session.
SignedOut(t) ==
    /\ token' = [token EXCEPT ![t] = None]
    /\ stored' = None
    /\ ShowsLogin(t) /\ Ends(t)

SignInAnswered(t) ==
    /\ \/ Answered(t, "register", {"done", "failed"})
       \/ Answered(t, "login", {"done", "failed"})
    /\ IF req[t].stage = "done"
       THEN /\ cookie' = req[t].issued
            /\ HasToken(t, req[t].user, "boot")
            /\ UNCHANGED <<flow, screen>>
       ELSE Ends(t) /\ UNCHANGED <<browser, screen, token>>
    /\ UNCHANGED <<database, bounds>>

\* The callback redirects to the page, with or without a session.
CallbackAnswered(t) ==
    /\ Answered(t, "callback", {"done", "failed"})
    /\ IF req[t].stage = "done"
       THEN cookie' = req[t].issued /\ flow' = None
       ELSE UNCHANGED <<cookie, flow>>
    /\ LoadPage(t, cookie')
    /\ UNCHANGED <<database, stored, bounds>>

\* Fault: a page without a session reloads itself.
LoadAgain(t) ==
    /\ Answered(t, "refresh", {"done", "failed"})
    /\ req[t].purpose = "load"
    /\ IF req[t].stage = "done"
       THEN /\ cookie' = req[t].issued
            /\ HasToken(t, req[t].user, "boot")
            /\ UNCHANGED <<flow, screen>>
       ELSE LoadPage(t, cookie) /\ UNCHANGED browser
    /\ UNCHANGED <<database, bounds>>

\* The first call of a page without an access token.
LoadAnswered(t) ==
    /\ Answered(t, "refresh", {"done", "failed"})
    /\ req[t].purpose = "load"
    /\ IF req[t].stage = "done"
       THEN /\ cookie' = req[t].issued
            /\ HasToken(t, req[t].user, "boot")
            /\ UNCHANGED <<flow, screen>>
       ELSE ShowsLogin(t) /\ Ends(t) /\ UNCHANGED <<browser, token>>
    /\ UNCHANGED <<database, bounds>>

Again(purpose) == IF purpose = "boot" THEN "boot again" ELSE "use again"

\* api(): a refused call is refreshed; whatever goes wrong with that leaves the
\* call refused.
RefreshAnswered(t) ==
    /\ Answered(t, "refresh", {"done", "failed"})
    /\ req[t].purpose \in {"boot", "use"}
    /\ IF req[t].stage = "done"
       THEN /\ cookie' = req[t].issued
            /\ HasToken(t, req[t].user, Again(req[t].purpose))
            /\ UNCHANGED <<flow, screen>>
       ELSE /\ IF req[t].purpose = "boot" THEN SignedOut(t)
               ELSE Ends(t) /\ UNCHANGED <<stored, screen, token>>
            /\ UNCHANGED <<cookie, flow>>
    /\ UNCHANGED <<database, bounds>>

Boots(t) == req[t].purpose \in {"boot", "boot again"}
Retried(t) == req[t].purpose \in {"boot again", "use again"}

\* The access token was good.
CallServed(t) ==
    /\ At(t, "call", "sent")
    /\ screen' = [screen EXCEPT ![t] = "app"]
    /\ Ends(t)
    /\ UNCHANGED <<database, browser, token, bounds>>

\* current_user refuses it: it has expired.
CallRefused(t) ==
    /\ At(t, "call", "sent")
    /\ CASE ~Retried(t) ->
              /\ req' = [req EXCEPT ![t] = RefreshFor(@.purpose, cookie)]
              /\ UNCHANGED <<stored, screen, token>>
         [] Retried(t) /\ Boots(t) -> SignedOut(t)
         [] OTHER -> Ends(t) /\ UNCHANGED <<stored, screen, token>>
    /\ UNCHANGED <<database, cookie, flow, bounds>>

\* fetch throws, out of boot() too; a retry that throws leaves the call refused.
CallLost(t) ==
    /\ At(t, "call", "failed")
    /\ IF Boots(t) /\ Retried(t) THEN SignedOut(t)
       ELSE /\ IF Boots(t) THEN ShowsLogin(t) ELSE UNCHANGED screen
            /\ Ends(t)
            /\ UNCHANGED <<stored, token>>
    /\ UNCHANGED <<database, cookie, flow, bounds>>

LogoutAnswered(t) ==
    /\ Answered(t, "logout", {"done", "failed"})
    /\ cookie' = IF req[t].stage = "done" THEN None ELSE cookie
    /\ SignedOut(t)
    /\ UNCHANGED <<database, flow, bounds>>

-----------------------------------------------------------------------------
People(t) ==
    \/ OpenPage(t) \/ SignIn(t) \/ GoogleLoginRedirect(t) \/ ComeBack(t)
    \/ Use(t) \/ LogOut(t)

Server(t) ==
    \/ Register(t) \/ Login(t) \/ GoogleCallback(t) \/ UpsertUser(t)
    \/ RotateRefreshToken(t) \/ RevokeRefreshToken(t)
    \/ UniqueViolation(t) \/ Commit(t)

Page(t) ==
    \/ SignInAnswered(t) \/ CallbackAnswered(t) \/ LoadAnswered(t)
    \/ RefreshAnswered(t) \/ CallServed(t) \/ CallRefused(t) \/ CallLost(t)
    \/ LogoutAnswered(t)

Done ==
    /\ actions = MaxActions
    /\ \A t \in Tabs : req[t] = Quiet
    /\ UNCHANGED vars

Next ==
    \/ \E t \in Tabs : People(t) \/ Server(t) \/ Abort(t) \/ Page(t)
    \/ \E k \in DOMAIN tokens : Expire(k)
    \/ Done

\* The server works on what reached it, and a fetch is answered or rejected.
Fairness == \A t \in Tabs : WF_vars(Server(t)) /\ WF_vars(Page(t))

Spec == Init /\ [][Next]_vars /\ Fairness

-----------------------------------------------------------------------------
\* Whoever registers or signs in, from however many tabs at once, has one
\* account, with its one row of user_stats: login and the callback find an
\* account by scalar_one_or_none, which raises for ever after if there are two.
OneAccountPerLogin ==
    /\ \A i, j \in DOMAIN accounts :
          /\ accounts[i].sub = accounts[j].sub
          /\ accounts[i].local => accounts[i].email = accounts[j].email
          => i = j
    /\ stats = DOMAIN accounts

\* A used refresh token that is presented again ends every session of its
\* learner (rotate_refresh_token: "it revokes the whole chain for that user").
\* With faults = 0 no token has expired: it is dead because it was used.
ReuseRevokesChain ==
    [][\A t \in Tabs :
          LET k == req[t].cookie
          IN  /\ RotateRefreshToken(t)
              /\ faults = 0 /\ k \in DOMAIN tokens /\ ~Live(k)
              => \A j \in DOMAIN tokens' :
                    tokens'[j].user = tokens[k].user => ~tokens'[j].live]_vars

\* Whatever is refused, refreshed, retried or lost, the page gets out of it.
EveryCallEnds == \A t \in Tabs : req[t] # Quiet ~> req[t] = Quiet

=============================================================================
