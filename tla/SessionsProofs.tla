--------------------------- MODULE SessionsProofs ---------------------------
(***************************************************************************)
(* Proofs about the sessions of one browser, for every number of tabs,     *)
(* addresses, Google accounts, actions and faults.                         *)
(***************************************************************************)
EXTENDS Sessions, SequenceTheorems, TLAPS

Persons == [sub : Subs \cup {NoSub}, email : Emails \cup {"none"}]

AccountRow == [sub : Subs \cup {NoSub}, email : Emails \cup {"none"}, local : BOOLEAN]

AccountInv ==
    /\ accounts \in Seq(AccountRow)
    /\ \A i \in DOMAIN accounts : accounts[i].local = (accounts[i].sub = NoSub)
    /\ OneAccountPerLogin

\* A request is on behalf of a person; a callback that goes on for an account
\* goes on for the one of its Google account, and a registration has none.
Knows(q, rows) ==
    q # Quiet =>
        /\ q.who \in Persons
        /\ q.stage \notin Last =>
              /\ q.path = "register" => q.who.sub = NoSub
              /\ q.path = "callback" => q.who.sub # NoSub
              /\ q.path = "callback" /\ q.stage = "open" /\ q.user # None =>
                    q.user \in DOMAIN rows /\ rows[q.user].sub = q.who.sub

LoginInv ==
    DOMAIN req = Tabs /\ AccountInv /\ \A t \in Tabs : Knows(req[t], accounts)

LEMMA LoginInitial == Init => LoginInv
  <1> SUFFICES ASSUME Init PROVE LoginInv
    OBVIOUS
  <1>1. DOMAIN req = Tabs /\ \A t \in Tabs : Knows(req[t], accounts)
    BY DEF Init, Knows
  <1>2. CASE accounts = <<>> /\ stats = {}
    BY <1>1, <1>2 DEF LoginInv, AccountInv, OneAccountPerLogin
  <1>3. ASSUME NEW sub \in Subs \cup {NoSub}, NEW email \in Emails, stats = {1},
               accounts = <<[sub |-> sub, email |-> email, local |-> sub = NoSub]>>
        PROVE  AccountInv
    <2> DEFINE row == [sub |-> sub, email |-> email, local |-> sub = NoSub]
    <2>1. row \in AccountRow /\ row.local = (row.sub = NoSub)
      BY DEF AccountRow
    <2>2. accounts \in Seq(AccountRow) /\ DOMAIN accounts = {1} /\ accounts[1] = row
      BY <1>3, <2>1
    <2> QED
      BY <1>3, <2>1, <2>2 DEF AccountInv, OneAccountPerLogin
  <1>4. (accounts = <<>> /\ stats = {}) \/ AccountInv
    BY <1>3 DEF Init, Start
  <1> QED
    BY <1>1, <1>2, <1>4 DEF LoginInv

\* Of the tables of accounts, a commit adds an account whose login nobody has,
\* or takes over the address of a Google account.
LEMMA CommitKeepsAccounts ==
    ASSUME LoginInv, NEW t \in Tabs, Commit(t)
    PROVE  /\ AccountInv'
           /\ DOMAIN accounts \subseteq DOMAIN accounts'
           /\ \A i \in DOMAIN accounts : accounts'[i].sub = accounts[i].sub
  <1> DEFINE who == req[t].who
             n == Len(accounts)
  <1>1. /\ req[t] # Quiet /\ req[t].stage = "open"
        /\ who.sub \in Subs \cup {NoSub} /\ who.email \in Emails \cup {"none"}
    BY DEF Commit, LoginInv, Knows, Persons
  <1>2. /\ accounts \in Seq(AccountRow) /\ n \in Nat /\ DOMAIN accounts = 1..n
        /\ \A i \in 1..n : accounts[i] \in AccountRow
    BY ElementOfSeq, LenProperties DEF LoginInv, AccountInv
  <1>3. Knows(req[t], accounts)
    BY DEF LoginInv
  <1>4. CASE IsNew(t)
    <2> DEFINE row == [sub |-> who.sub, email |-> who.email,
                       local |-> who.sub = NoSub]
    <2>1. /\ accounts' = Append(accounts, row) /\ stats' = stats \cup {n + 1}
          /\ ~Taken(who)
      <3>1. accounts' = Append(accounts, row)
        BY <1>4 DEF Commit
      <3>2. stats' = stats \cup {n + 1}
        BY <1>4 DEF Commit
      <3>3. ~Taken(who)
        BY <1>4 DEF Commit
      <3> QED
        BY <3>1, <3>2, <3>3
    <2>2. row \in AccountRow
      BY <1>1 DEF AccountRow
    <2>3. /\ accounts' \in Seq(AccountRow) /\ Len(accounts') = n + 1
          /\ \A i \in 1..n : accounts'[i] = accounts[i]
          /\ accounts'[n + 1] = row
      BY <1>2, <2>1, <2>2, AppendProperties
    <2>4. DOMAIN accounts' = 1..(n + 1)
      BY <2>3, LenProperties
    <2>5. \A i \in 1..(n + 1) : accounts'[i].local = (accounts'[i].sub = NoSub)
      BY <1>2, <2>3 DEF LoginInv, AccountInv
    <2>6. ASSUME NEW i \in 1..n, accounts[i].sub = row.sub,
                 row.sub = NoSub => accounts[i].email = row.email
          PROVE  FALSE
      BY <1>2, <2>1, <2>6 DEF Taken, LocalOwners, Owners, OfSub, LoginInv, AccountInv
    <2>7. ASSUME NEW i \in 1..(n + 1), NEW j \in 1..(n + 1),
                 accounts'[i].sub = accounts'[j].sub,
                 accounts'[i].local => accounts'[i].email = accounts'[j].email
          PROVE  i = j
      <3>1. CASE i \in 1..n /\ j \in 1..n
        BY <1>2, <2>3, <2>7, <3>1 DEF LoginInv, AccountInv, OneAccountPerLogin
      <3>2. CASE i \in 1..n /\ j = n + 1
        BY <2>3, <2>5, <2>6, <2>7, <3>2
      <3>3. CASE i = n + 1 /\ j \in 1..n
        BY <2>3, <2>5, <2>6, <2>7, <3>3
      <3> QED
        BY <1>2, <3>1, <3>2, <3>3
    <2>8. stats' = 1..(n + 1)
      BY <1>2, <2>1 DEF LoginInv, AccountInv, OneAccountPerLogin
    <2>9. AccountInv'
      BY <2>3, <2>4, <2>5, <2>7, <2>8 DEF AccountInv, OneAccountPerLogin
    <2> QED
      BY <1>2, <2>3, <2>4, <2>9
  <1>5. CASE ~IsNew(t) /\ req[t].path = "callback"
    <2> DEFINE user == req[t].user
    <2>1. accounts' = [accounts EXCEPT ![user].email = who.email] /\ stats' = stats
      BY <1>5 DEF Commit
    <2>2. user \in 1..n /\ accounts[user].sub = who.sub /\ who.sub # NoSub
      BY <1>1, <1>2, <1>3, <1>5 DEF Knows, IsNew, Last
    <2>3. [accounts[user] EXCEPT !.email = who.email] \in AccountRow
      BY <1>1, <1>2, <2>2 DEF AccountRow
    <2>4. /\ accounts' \in Seq(AccountRow) /\ DOMAIN accounts' = 1..n
      BY <1>2, <2>1, <2>2, <2>3, ExceptSeq, LenProperties
    <2>5. \A i \in 1..n : /\ accounts'[i].sub = accounts[i].sub
                          /\ accounts'[i].local = accounts[i].local
                          /\ i # user => accounts'[i].email = accounts[i].email
      BY <1>2, <2>1, <2>2 DEF AccountRow
    <2>6. ~accounts[user].local
      BY <1>2, <2>2 DEF LoginInv, AccountInv
    <2>7. ASSUME NEW i \in 1..n, NEW j \in 1..n,
                 accounts'[i].sub = accounts'[j].sub,
                 accounts'[i].local => accounts'[i].email = accounts'[j].email
          PROVE  i = j
      <3>1. accounts[i].sub = accounts[j].sub
        BY <2>5, <2>7
      <3>2. accounts[i].local => i # user /\ j # user
        BY <1>2, <2>6, <3>1 DEF LoginInv, AccountInv
      <3> QED
        BY <1>2, <2>5, <2>7, <3>1, <3>2 DEF LoginInv, AccountInv, OneAccountPerLogin
    <2>8. AccountInv'
      BY <1>2, <2>1, <2>4, <2>5, <2>7 DEF LoginInv, AccountInv, OneAccountPerLogin
    <2> QED
      BY <1>2, <2>4, <2>5, <2>8
  <1>6. CASE ~IsNew(t) /\ req[t].path # "callback"
    BY <1>6 DEF Commit, LoginInv, AccountInv, OneAccountPerLogin
  <1> QED
    BY <1>4, <1>5, <1>6

\* A step that keeps the tables of accounts, and moves one request.
LEMMA RequestMoves ==
    ASSUME LoginInv, NEW t \in Tabs, NEW r, req' = [req EXCEPT ![t] = r],
           UNCHANGED <<accounts, stats>>, Knows(r, accounts)
    PROVE  LoginInv'
  <1>1. AccountInv'
    BY DEF LoginInv, AccountInv, OneAccountPerLogin
  <1>2. DOMAIN req' = Tabs /\ \A o \in Tabs : req'[o] = IF o = t THEN r ELSE req[o]
    BY DEF LoginInv
  <1>3. ASSUME NEW o \in Tabs PROVE Knows(req'[o], accounts')
    <2>1. CASE o = t
      BY <1>2, <2>1
    <2>2. CASE o # t
      BY <1>2, <2>2 DEF LoginInv
    <2> QED
      BY <2>1, <2>2
  <1> QED
    BY <1>1, <1>2, <1>3 DEF LoginInv

\* The same, when no request moves.
LEMMA RequestsStay ==
    ASSUME LoginInv, UNCHANGED <<accounts, stats, req>>
    PROVE  LoginInv'
  BY DEF LoginInv, AccountInv, OneAccountPerLogin

\* The server leaves a request at a stage, and what it knows stays so.
LEMMA LeftKnows ==
    ASSUME LoginInv, NEW t \in Tabs, NEW stage, NEW user, NEW issued,
           req[t] # Quiet, req[t].stage \notin Last,
           Leave(t, stage, user, issued), UNCHANGED <<accounts, stats>>,
           stage = "open" /\ req[t].path = "callback" /\ user # None =>
               user \in DOMAIN accounts /\ accounts[user].sub = req[t].who.sub
    PROVE  LoginInv'
  <1> DEFINE r == [path |-> req[t].path, purpose |-> req[t].purpose,
                   stage |-> stage,
                   who |-> IF stage \in Last THEN Nobody ELSE req[t].who,
                   cookie |-> IF stage \in Last THEN None ELSE req[t].cookie,
                   user |-> user, issued |-> issued]
  <1>1. req' = [req EXCEPT ![t] = r]
    BY DEF Leave, LoginInv
  <1>2. Knows(req[t], accounts) /\ Nobody \in Persons
    BY DEF LoginInv, Nobody, Persons
  <1>3. Knows(r, accounts)
    BY <1>2 DEF Knows
  <1> HIDE DEF r
  <1> QED
    BY <1>1, <1>3, RequestMoves

\* What the people at the browser ask for.
LEMMA PeopleAsk ==
    ASSUME LoginInv, NEW t \in Tabs, People(t)
    PROVE  LoginInv'
  <1>1. Nobody \in Persons
    BY DEF Nobody, Persons
  <1>2. UNCHANGED <<accounts, stats>>
    BY DEF People, OpenPage, SignIn, GoogleLoginRedirect, ComeBack, Use,
           LogOut, database
  <1>3. ASSUME NEW path \in {"call", "refresh", "logout"}, NEW purpose, NEW held
        PROVE  Knows(Request(path, purpose, Nobody, held), accounts)
    BY <1>1 DEF Knows, Request
  <1>4. CASE OpenPage(t) \/ Use(t) \/ LogOut(t)
    <2>1. \E path \in {"call", "refresh", "logout"} : \E purpose, held :
             req' = [req EXCEPT ![t] = Request(path, purpose, Nobody, held)]
      BY <1>4 DEF OpenPage, LoadPage, Use, LogOut, CallFor, RefreshFor
    <2> QED
      BY <1>2, <1>3, <2>1, RequestMoves
  <1>5. CASE GoogleLoginRedirect(t)
    BY <1>2, <1>5, RequestsStay DEF GoogleLoginRedirect
  <1>6. CASE SignIn(t)
    <2>1. PICK path \in {"register", "login"}, email \in Emails :
             req' = [req EXCEPT ![t] =
                        Request(path, "sign in",
                                [sub |-> NoSub, email |-> email], None)]
      BY <1>6 DEF SignIn
    <2> DEFINE r == Request(path, "sign in", [sub |-> NoSub, email |-> email],
                            None)
    <2>2. Knows(r, accounts)
      BY DEF Knows, Request, Persons
    <2> HIDE DEF r
    <2> QED
      BY <1>2, <2>1, <2>2, RequestMoves DEF r
  <1>7. CASE ComeBack(t)
    <2>1. PICK sub \in Subs, email \in Emails, purpose \in {"sign in", "mismatch"} :
             req' = [req EXCEPT ![t] =
                        Request("callback", purpose,
                                [sub |-> sub, email |-> email], None)]
      BY <1>7 DEF ComeBack
    <2> DEFINE r == Request("callback", purpose, [sub |-> sub, email |-> email],
                            None)
    <2>2. Knows(r, accounts)
      BY SessionsAssumption DEF Knows, Request, Persons
    <2> HIDE DEF r
    <2> QED
      BY <1>2, <2>1, <2>2, RequestMoves DEF r
  <1> QED
    BY <1>4, <1>5, <1>6, <1>7 DEF People

\* What the server does with a request.
LEMMA ServerKnows ==
    ASSUME LoginInv, NEW t \in Tabs, Server(t)
    PROVE  LoginInv'
  <1>1. \A S \in SUBSET DOMAIN accounts : TheOne(S) # None => TheOne(S) \in S
    BY DEF TheOne
  <1>2. "sent" \notin Last /\ "existed" \notin Last /\ "open" \notin Last
    BY DEF Last
  <1>3. CASE Commit(t)
    <2>1. /\ AccountInv' /\ DOMAIN accounts \subseteq DOMAIN accounts'
          /\ \A i \in DOMAIN accounts : accounts'[i].sub = accounts[i].sub
      BY <1>3, CommitKeepsAccounts
    <2>2. \E user, issued : Leave(t, "done", user, issued)
      BY <1>3 DEF Commit
    <2>3. /\ DOMAIN req' = Tabs /\ \A o \in Tabs \ {t} : req'[o] = req[o]
          /\ req'[t].stage \in Last /\ req'[t].who \in Persons
      BY <2>2 DEF LoginInv, Leave, Last, Nobody, Persons
    <2>4. ASSUME NEW o \in Tabs PROVE Knows(req'[o], accounts')
      <3>1. CASE o = t
        BY <2>3, <3>1 DEF Knows
      <3>2. CASE o # t
        <4>1. Knows(req[o], accounts) /\ req'[o] = req[o]
          BY <2>3, <3>2 DEF LoginInv
        <4> QED
          BY <2>1, <4>1 DEF Knows
      <3> QED
        BY <3>1, <3>2
    <2> QED
      BY <2>1, <2>3, <2>4 DEF LoginInv
  <1>4. ASSUME Refused(t), req[t] # Quiet, req[t].stage \notin Last PROVE LoginInv'
    BY <1>4, LeftKnows DEF Refused, database
  <1>5. ASSUME NEW user, GoesOn(t, user), req[t] # Quiet,
               req[t].stage \notin Last, req[t].path # "callback" \/ user = None
        PROVE  LoginInv'
    BY <1>5, LeftKnows DEF GoesOn, database
  <1>6. CASE Register(t) \/ Login(t) \/ RotateRefreshToken(t) \/ RevokeRefreshToken(t)
    BY <1>2, <1>4, <1>5, <1>6
       DEF Register, Login, RotateRefreshToken, RevokeRefreshToken, At
  <1>7. CASE GoogleCallback(t)
    BY <1>2, <1>4, <1>7, LeftKnows DEF GoogleCallback, At, database
  <1>8. CASE UpsertUser(t)
    <2> DEFINE sub == req[t].who.sub
               user == TheOne(OfSub(sub))
    <2>1. user # None => user \in DOMAIN accounts /\ accounts[user].sub = sub
      BY <1>1 DEF OfSub
    <2> HIDE DEF user
    <2>2. Refused(t) \/ GoesOn(t, user)
      BY <1>8 DEF UpsertUser, user
    <2> QED
      BY <1>2, <1>4, <1>8, <2>1, <2>2, LeftKnows
         DEF GoesOn, UpsertUser, At, database
  <1>9. CASE UniqueViolation(t)
    BY <1>2, <1>4, <1>9 DEF UniqueViolation
  <1> QED
    BY <1>3, <1>6, <1>7, <1>8, <1>9 DEF Server

\* What the page does with an answer.
LEMMA PageKnows ==
    ASSUME LoginInv, NEW t \in Tabs, Page(t)
    PROVE  LoginInv'
  <1>1. UNCHANGED <<accounts, stats>>
    BY DEF Page, SignInAnswered, CallbackAnswered, LoadAnswered,
           RefreshAnswered, CallServed, CallRefused, CallLost,
           LogoutAnswered, database
  <1>2. \A purpose, held :
           /\ Knows(Request("call", purpose, Nobody, held), accounts)
           /\ Knows(Request("refresh", purpose, Nobody, held), accounts)
    BY DEF Knows, Request, Nobody, Persons
  <1>3. PICK r : req' = [req EXCEPT ![t] = r] /\ Knows(r, accounts)
    <2>1. Knows(Quiet, accounts)
      BY DEF Knows
    <2>2. CASE SignInAnswered(t) \/ CallbackAnswered(t) \/ LoadAnswered(t)
      BY <1>2, <2>1, <2>2
         DEF SignInAnswered, CallbackAnswered, LoadAnswered, HasToken,
             LoadPage, Ends, CallFor, RefreshFor
    <2>3. CASE RefreshAnswered(t) \/ LogoutAnswered(t) \/ CallServed(t) \/ CallLost(t)
      BY <1>2, <2>1, <2>3
         DEF RefreshAnswered, LogoutAnswered, CallServed, CallLost, SignedOut,
             HasToken, Ends, CallFor
    <2>4. CASE CallRefused(t)
      BY <1>2, <2>1, <2>4 DEF CallRefused, SignedOut, Ends, RefreshFor
    <2> QED
      BY <2>2, <2>3, <2>4 DEF Page
  <1> QED
    BY <1>1, <1>3, RequestMoves

LEMMA LoginStep == LoginInv /\ [Next]_vars => LoginInv'
  <1> SUFFICES ASSUME LoginInv, [Next]_vars PROVE LoginInv'
    OBVIOUS
  <1>1. ASSUME NEW t \in Tabs, Abort(t) PROVE LoginInv'
    <2> DEFINE r == [path |-> req[t].path, purpose |-> req[t].purpose,
                     stage |-> "failed", who |-> Nobody, cookie |-> None,
                     user |-> None, issued |-> None]
    <2>1. req' = [req EXCEPT ![t] = r] /\ UNCHANGED <<accounts, stats>>
      BY <1>1 DEF Abort, database
    <2>2. Knows(r, accounts)
      BY DEF Knows, Last, Nobody, Persons
    <2> HIDE DEF r
    <2> QED
      BY <2>1, <2>2, RequestMoves
  <1>2. ASSUME NEW k \in DOMAIN tokens, Expire(k) PROVE LoginInv'
    BY <1>2, RequestsStay DEF Expire
  <1>3. CASE UNCHANGED vars
    BY <1>3, RequestsStay DEF vars, database
  <1> QED
    BY <1>1, <1>2, <1>3, PeopleAsk, ServerKnows, PageKnows DEF Next, Done

LEMMA LoginInvariant == Spec => []LoginInv
  <1> QED
    BY LoginInitial, LoginStep, PTL DEF Spec

\* However many tabs register and sign in at once, an address gets one password
\* account and a Google account one account, each with its row of user_stats
\* (models.py, the unique indexes; security.py, upsert_user).
THEOREM LoginsUnique == Spec => []OneAccountPerLogin
  <1>1. LoginInv => OneAccountPerLogin
    BY DEF LoginInv, AccountInv
  <1> QED
    BY <1>1, LoginInvariant, PTL

=============================================================================
