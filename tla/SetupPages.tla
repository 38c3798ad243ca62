----------------------------- MODULE SetupPages -----------------------------
(***************************************************************************)
(* Which page a browser shows.  Three contexts hold the user, the public    *)
(* status (is there an account?) and the full status (how far is setup?),   *)
(* each filled by GETs that are answered in any order or not at all; the    *)
(* routes redirect by what the contexts hold at the moment.                 *)
(*                                                                         *)
(* The server's part is the state the GETs report (see Accounts): other     *)
(* browsers may change it at any time.  A change of user runs the effect    *)
(* that asks for the full status in the same step, as React commits both.   *)
(***************************************************************************)
EXTENDS Naturals

CONSTANTS
    Effects,        \* GETs of the full status that effects may have under way
    None, Asked     \* undefined; a GET that is not answered yet

PiholeStatus == {"UNINITIALIZED", "ADDED", "SKIPPED"}
Status == [userCreated : BOOLEAN, pihole : PiholeStatus]

PagesAssumption ==
    /\ Effects \cap {"user", "public", "rename", "update"} = {}
    /\ None # Asked
    /\ \A b \in BOOLEAN :
        {None, Asked} \cap {[user |-> b], [initialized |-> b]} = {}
    /\ {None, Asked} \cap (Status \cup [status : Status]) = {}

VARIABLES
    account,        \* server: is there a user?
    status,         \* server: the full status, userCreated and pihole
    session,        \* server: is this browser's session valid?
    path,           \* where the browser is
    user, loadingUser,              \* AuthContext
    public, publicLoading,          \* InitStatusContext
    full, fullLoading,
    gets,           \* requests under way: None, Asked or the answer
    setup,          \* submitForm of the user creation still has to refresh
    seen,           \* history: the furthest Rank that full has had on this page
    spoilt,         \* history: how full was lost, "dropped" by the form's last
                    \* refresh or replaced by an "older" answer, or "no"
    trouble         \* history: since the page was loaded a request failed, the
                    \* session ended, an answer was overtaken by a logout, or
                    \* another browser changed the setup

server == <<account, status, session>>
contexts == <<user, loadingUser, public, publicLoading, full, fullLoading>>
vars == <<server, path, contexts, gets, setup, seen, spoilt, trouble>>

Paths == {"/", "/login", "/setup/user", "/setup/piholes"}
FullGets == {"update"} \cup Effects
Gets == {"user", "public", "rename"} \cup FullGets

NoGet == [g \in Gets |-> None]
AtLoad == [NoGet EXCEPT !["user"] = Asked, !["public"] = Asked]

\* What the contexts hold when a page is loaded: both providers ask at once.
LoadedAt(p) ==
    /\ path' = p
    /\ user' = FALSE /\ loadingUser' = TRUE
    /\ public' = FALSE /\ publicLoading' = TRUE
    /\ full' = None /\ fullLoading' = FALSE
    /\ gets' = AtLoad
    /\ setup' = FALSE /\ seen' = 0 /\ spoilt' = "no" /\ trouble' = FALSE

Init ==
    /\ account \in BOOLEAN
    /\ status \in {s \in Status : s.userCreated => account}
    /\ ~account => status.pihole = "UNINITIALIZED"
    /\ session = FALSE
    /\ path \in Paths
    /\ user = FALSE /\ loadingUser = TRUE
    /\ public = FALSE /\ publicLoading = TRUE
    /\ full = None /\ fullLoading = FALSE
    /\ gets = AtLoad
    /\ setup = FALSE /\ seen = 0 /\ spoilt = "no" /\ trouble = FALSE

-----------------------------------------------------------------------------
(* The routes.                                                             *)

isFullyInitialized(s) == s # None /\ s.userCreated /\ s.pihole # "UNINITIALIZED"

\* ProtectedRoute; both of its uses allow an uninitialized system.
Protected(p, requireUninitialized) ==
    IF ~user THEN IF public THEN "/login" ELSE "/setup/user"
    ELSE IF requireUninitialized /\ isFullyInitialized(full) THEN "/" ELSE p

UnprotectedRoute(p, onlyWhenUninitialized) ==
    IF user THEN IF isFullyInitialized(full) THEN "/" ELSE "/setup/piholes"
    ELSE IF onlyWhenUninitialized THEN IF public THEN "/login" ELSE p
    ELSE IF public THEN p ELSE "/setup/user"

Loading(p) ==
    \/ loadingUser
    \/ p \in {"/", "/setup/piholes"} /\ fullLoading
    \/ p \in {"/login", "/setup/user"} /\ publicLoading

\* Where the route of p sends the browser; p itself if it stays.
Goes(p) ==
    IF Loading(p) THEN p
    ELSE CASE p = "/" -> Protected(p, FALSE)
           [] p = "/setup/piholes" -> Protected(p, TRUE)
           [] p = "/setup/user" -> UnprotectedRoute(p, TRUE)
           [] p = "/login" -> UnprotectedRoute(p, FALSE)

Shows(p) == path = p /\ ~Loading(p) /\ Goes(p) = p

Redirect ==
    /\ Goes(path) # path
    /\ path' = Goes(path)
    /\ UNCHANGED <<server, contexts, gets, setup, seen, spoilt, trouble>>
-----------------------------------------------------------------------------
(* The requests.                                                           *)

\* What the server would answer to g now.
Answer(g) ==
    CASE g = "user" -> [user |-> session]
      [] g = "public" -> [initialized |-> account]
      [] g = "rename" -> [user |-> TRUE]
      [] g \in FullGets -> [status |-> status]

\* All but the page's first two are refused without a session.
Allowed(g) == g \in {"user", "public"} \/ session

Serve(g) ==
    /\ gets[g] = Asked /\ Allowed(g)
    /\ gets' = [gets EXCEPT ![g] = Answer(g)]
    /\ UNCHANGED <<server, path, contexts, setup, seen, spoilt, trouble>>

\* setUser(u), and the effect [user] of InitStatusProvider, after the requests
\* under way have become gs.  Bound: as many effects' GETs as Effects.
SetUser(u, gs) ==
    /\ user' = u
    /\ IF u
       THEN /\ \E e \in {x \in Effects : gs[x] = None} :
                  gets' = [gs EXCEPT ![e] = Asked]
            /\ fullLoading' = TRUE /\ UNCHANGED full
       ELSE gets' = gs /\ full' = None /\ UNCHANGED fullLoading

Without(g) == [gets EXCEPT ![g] = None]
Answered(g) == gets[g] \notin {None, Asked}

\* React runs an effect only when what it depends on has changed; a user object
\* is new each time, undefined is not.
UserArrives(u) ==
    /\ IF u \/ user THEN SetUser(u, Without("user"))
       ELSE gets' = Without("user") /\ UNCHANGED <<user, full, fullLoading>>
    /\ loadingUser' = FALSE

GotUser ==
    /\ Answered("user") /\ UserArrives(gets["user"].user)
    /\ UNCHANGED <<server, path, public, publicLoading, setup, seen, spoilt, trouble>>

\* The user creation form goes on with the refreshFull of the render it was
\* submitted in, whose user is undefined: it drops what an effect has fetched.
GotPublic ==
    /\ Answered("public")
    /\ public' = gets["public"].initialized /\ publicLoading' = FALSE
    /\ gets' = Without("public")
    /\ IF setup THEN /\ full' = None
                     /\ spoilt' = IF full # None THEN "dropped" ELSE spoilt
       ELSE UNCHANGED <<full, spoilt>>
    /\ setup' = FALSE
    /\ UNCHANGED <<server, path, user, loadingUser, fullLoading, seen, trouble>>

\* The server's status only moves forward, from UNINITIALIZED to ADDED at last.
Rank(s) == CASE s.pihole = "UNINITIALIZED" -> 1
             [] s.pihole = "SKIPPED" -> 2
             [] s.pihole = "ADDED" -> 3

GotFull(g) ==
    /\ Answered(g)
    /\ full' = gets[g].status /\ fullLoading' = FALSE
    /\ gets' = Without(g)
    /\ IF Rank(gets[g].status) < seen
       THEN spoilt' = "older" /\ UNCHANGED seen
       ELSE spoilt' = "no" /\ seen' = Rank(gets[g].status)
    /\ UNCHANGED <<server, path, user, loadingUser, public, publicLoading,
                   setup, trouble>>

GotRename ==
    /\ Answered("rename") /\ SetUser(TRUE, Without("rename"))
    /\ UNCHANGED <<server, path, loadingUser, public, publicLoading, setup,
                   seen, spoilt, trouble>>

\* A request is refused or its answer is lost; every context stops loading and
\* keeps what it holds, except that the user becomes undefined.
Fails(g) ==
    /\ gets[g] = Asked
    /\ trouble' = (trouble \/ session \/ g = "public")
    /\ IF g = "user" THEN UserArrives(FALSE)
       ELSE gets' = Without(g) /\ UNCHANGED <<user, loadingUser, full>>
            /\ fullLoading' = (fullLoading /\ g \notin FullGets)
    /\ publicLoading' = (publicLoading /\ g # "public")
    /\ setup' = (setup /\ g # "public")
    /\ UNCHANGED <<server, path, public, seen, spoilt>>

-----------------------------------------------------------------------------
(* What the user does.                                                     *)

Login ==
    /\ Shows("/login") /\ account
    /\ session' = TRUE /\ SetUser(TRUE, gets)
    /\ UNCHANGED <<account, status, path, loadingUser, public, publicLoading,
                   setup, seen, spoilt, trouble>>

\* A form that takes the account it has created as known from then on.
CreateUserUnasked ==
    /\ Shows("/setup/user") /\ ~account /\ gets["public"] = None
    /\ account' = TRUE /\ status' = [status EXCEPT !.userCreated = TRUE]
    /\ session' = TRUE
    /\ SetUser(TRUE, gets)
    /\ UNCHANGED <<path, loadingUser, public, publicLoading, setup, seen, spoilt,
                   trouble>>

\* createUser, setUser and refreshPublic; refreshFull is left to GotPublic.
CreateUser ==
    /\ Shows("/setup/user") /\ ~account /\ gets["public"] = None
    /\ account' = TRUE /\ status' = [status EXCEPT !.userCreated = TRUE]
    /\ session' = TRUE
    /\ SetUser(TRUE, [gets EXCEPT !["public"] = Asked])
    /\ publicLoading' = TRUE /\ setup' = TRUE
    /\ UNCHANGED <<path, loadingUser, public, seen, spoilt, trouble>>

\* Setting the flag or issuing the session fails after the user is stored.
CreateUserBreaks ==
    /\ Shows("/setup/user") /\ ~account
    /\ account' = TRUE
    /\ \E b \in BOOLEAN : status' = [status EXCEPT !.userCreated = b]
    /\ trouble' = TRUE
    /\ UNCHANGED <<session, path, contexts, gets, setup, seen, spoilt>>

\* The server refuses the status it has, and ADDED to SKIPPED.
FinishSetup(new) ==
    /\ Shows("/setup/piholes") /\ full # None /\ session
    /\ status.pihole # new /\ ~(status.pihole = "ADDED" /\ new = "SKIPPED")
    /\ gets["update"] = None
    /\ status' = [status EXCEPT !.pihole = new]
    /\ gets' = [gets EXCEPT !["update"] = Asked] /\ fullLoading' = TRUE
    /\ UNCHANGED <<account, session, path, user, loadingUser, public,
                   publicLoading, full, setup, seen, spoilt, trouble>>

\* The sidebar is there while the page loads.  Answers under way are not dropped.
Logout ==
    /\ path = "/" /\ session
    /\ session' = FALSE
    /\ IF user THEN SetUser(FALSE, gets)
       ELSE UNCHANGED <<user, full, gets, fullLoading>>
    /\ trouble' = (trouble \/ Answered("user") \/ Answered("rename"))
    /\ UNCHANGED <<account, status, path, loadingUser, public, publicLoading,
                   setup, seen, spoilt>>

Rename ==
    /\ Shows("/") /\ gets["rename"] = None
    /\ gets' = [gets EXCEPT !["rename"] = Asked]
    /\ UNCHANGED <<server, path, contexts, setup, seen, spoilt, trouble>>

Visit(p) == LoadedAt(p) /\ UNCHANGED server

\* Elsewhere: the session ends, an account is made, a setup is finished.
Elsewhere ==
    /\ \/ session /\ session' = FALSE /\ UNCHANGED <<account, status>>
       \/ /\ ~account /\ account' = TRUE
          /\ status' = [status EXCEPT !.userCreated = TRUE]
          /\ UNCHANGED session
       \/ /\ account /\ status.pihole # "ADDED"
          /\ \E new \in {"ADDED", "SKIPPED"} \ {status.pihole} :
                 status' = [status EXCEPT !.pihole = new]
          /\ UNCHANGED <<account, session>>
    /\ trouble' = TRUE
    /\ UNCHANGED <<path, contexts, gets, setup, seen, spoilt>>

Next ==
    \/ Redirect
    \/ \E g \in Gets : Serve(g) \/ Fails(g)
    \/ GotUser \/ GotPublic \/ (\E g \in FullGets : GotFull(g)) \/ GotRename
    \/ Login \/ CreateUser \/ CreateUserBreaks
    \/ \E new \in {"ADDED", "SKIPPED"} : FinishSetup(new)
    \/ Logout \/ Rename
    \/ \E p \in Paths : Visit(p)
    \/ Elsewhere

Spec == Init /\ [][Next]_vars

-----------------------------------------------------------------------------
(* Properties.                                                             *)

TypeOK ==
    /\ account \in BOOLEAN /\ status \in Status /\ session \in BOOLEAN
    /\ path \in Paths
    /\ {user, loadingUser, public, publicLoading, fullLoading} \subseteq BOOLEAN
    /\ full \in Status \cup {None}
    /\ DOMAIN gets = Gets
    /\ {setup, trouble} \subseteq BOOLEAN /\ seen \in 0..3
    /\ spoilt \in {"no", "dropped", "older"}

\* Whatever the contexts hold, the routes agree on a page after two redirects:
\* no user, public status or full status, however old, sends the browser round
\* in circles (ProtectedRoute, UnprotectedRoute).
NoRedirectLoop == \A p \in Paths : Goes(Goes(Goes(p))) = Goes(Goes(p))

Quiet == gets = NoGet /\ Goes(path) = path

\* Once every request is answered, in whatever order, and nothing went wrong on
\* the way, the browser holds what the server holds and stands where that says:
\* at the login or the user creation without a session, inside with one, and at
\* the setup only while it is not finished.  What may be lost is the full
\* status: dropped by the user creation, and the setup page loads for ever
\* (SetupUserCreation); or replaced by the answer of an older GET (refreshFull).
RightPage ==
    Quiet /\ ~trouble =>
        /\ ~loadingUser /\ ~publicLoading /\ ~fullLoading /\ ~setup
        /\ user = session /\ public = account
        /\ user => CASE spoilt = "no" -> full = status
                     [] spoilt = "dropped" -> full = None
                     [] spoilt = "older" -> full # status
        /\ CASE user -> path \in {"/", "/setup/piholes"}
             [] ~user /\ account -> path = "/login"
             [] ~user /\ ~account -> path = "/setup/user"
        /\ path = "/setup/piholes" => spoilt # "no" \/ ~isFullyInitialized(status)

\* The parts above.
SetupSafe == TypeOK /\ NoRedirectLoop /\ RightPage
=============================================================================
