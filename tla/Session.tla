------------------------------- MODULE Session -------------------------------
(* Signing in and out: the pages of the browser's tabs (ProtectedRoute,     *)
(* Login, LogoutPage, AnonymousAccess), the calls they have under way, and  *)
(* the cookie, which the server sets and reads and the tabs share.  Answers *)
(* come in any order, and the user may leave a page, forwards or through    *)
(* the history, with its calls unanswered; only a page that is loaded anew  *)
(* forgets them.  MinIO is external: it accepts a login or refuses it, and  *)
(* takes back credentials when it likes.                                    *)
EXTENDS Naturals

CONSTANTS Tabs, Users, NoUser, MaxMoves   \* bound on what users and MinIO begin

ASSUME UsersAssumption == NoUser \notin Users
ASSUME MovesAssumption == MaxMoves \in Nat

Pages == {"app", "login", "logout"}
Paths == {"bucket", "other"}   \* a bucket of the object browser, or not

VARIABLES
  tab,           \* the page and the store of every tab
  cookie,        \* whose session token the cookie carries
  valid,         \* the users whose credentials in it are accepted
  userLoggedIn,  \* in the local storage: a user name is noted
  redirect,      \* in the local storage: the path to return to
  moves

shared == <<cookie, valid, userLoggedIn, redirect>>
pageVars == <<tab, shared, moves>>

Kinds == {"check", "anonymous", "login", "logout"}
Calls == {c \in [id : Nat, kind : Kinds, path : Paths, as : Users \cup {NoUser}] :
            c.kind = "login" => c.as \in Users}

TabState ==
  [page : Pages \cup {"closed"}, path : Paths,
   loggedIn : BOOLEAN, anonymous : BOOLEAN,                 \* the store: system
   session : Users \cup {NoUser},                           \* the store: console
   state : {"Initial", "Loading", "Done"},
   sending : BOOLEAN, target : Paths \cup {""},             \* the store: login
   loading : BOOLEAN,                                       \* of the ProtectedRoute
   calls : SUBSET Calls, sent : Nat]

(* A page that was just loaded. *)
Fresh(page) ==
  [page |-> page, path |-> "other",
   loggedIn |-> FALSE, anonymous |-> FALSE, session |-> NoUser, state |-> "Initial",
   sending |-> FALSE, target |-> "", loading |-> TRUE, calls |-> {}, sent |-> 0]

(* What the middleware makes of the cookie: the one whose credentials it    *)
(* carries or, without a token that can be read, the anonymous principal,   *)
(* which MinIO refuses as it does credentials that it took back.            *)
Principal == IF cookie \in valid THEN cookie ELSE NoUser

Asked(r, kind, p, who) ==
  [r EXCEPT !.calls = @ \cup {[id |-> r.sent, kind |-> kind, path |-> p, as |-> who]},
            !.sent = @ + 1]

(* The first effects of a ProtectedRoute: it asks for the session, and the  *)
(* last looks at the state that the render saw, from before that call.      *)
Mounted(r, p) ==
  [Asked(r, "check", p, Principal) EXCEPT
     !.page = "app", !.path = p, !.loading = (r.state # "Done"), !.state = "Loading"]

LoggingOut(r) == [Asked(r, "logout", "other", Principal) EXCEPT !.page = "logout"]

Entered(r, page, p) ==
  CASE page = "app" -> Mounted(r, p)
    [] page = "login" -> [r EXCEPT !.page = "login"]
    [] page = "logout" -> LoggingOut(r)

Answered(t, c) == [tab[t] EXCEPT !.calls = @ \ {c}]
Pending(t, kind) == {c \in tab[t].calls : c.kind = kind}

(* The console, or the browser of a public bucket, is rendered. *)
Shown(t) == tab[t].page = "app" /\ ~tab[t].loading /\ tab[t].loggedIn

PagesInit ==
  /\ tab \in [Tabs -> {Fresh("closed")}]
  /\ cookie \in Users \cup {NoUser}
  /\ valid = {cookie} \cap Users
  /\ userLoggedIn = (cookie # NoUser)
  /\ redirect = "" /\ moves = 0

Becomes(t, r) == tab' = [tab EXCEPT ![t] = r]
Moves == moves < MaxMoves /\ moves' = moves + 1

-----------------------------------------------------------------------------
(* The user, and MinIO.                                                     *)

(* An address is typed in or the page reloaded: the store starts afresh. *)
Open(t, page, p) ==
  /\ Moves
  /\ Becomes(t, Entered(Fresh(page), page, p))
  /\ UNCHANGED shared

(* Back or forward to another page of the router: the store stays. *)
Travel(t, page, p) ==
  /\ Moves
  /\ tab[t].page \in Pages \ {page}
  /\ Becomes(t, Entered(tab[t], page, p))
  /\ UNCHANGED shared

SignIn(t, u) ==
  /\ Moves
  /\ tab[t].page = "login" /\ ~tab[t].sending
  /\ Becomes(t, [Asked(tab[t], "login", "other", u) EXCEPT !.sending = TRUE])
  /\ UNCHANGED shared

SignOut(t) ==
  /\ Moves
  /\ Shown(t) /\ ~tab[t].anonymous
  /\ Becomes(t, LoggingOut(tab[t]))
  /\ UNCHANGED shared

(* The button of a public bucket's page, which resets what let it be shown. *)
GoToLogin(t) ==
  /\ Moves
  /\ Shown(t) /\ tab[t].anonymous
  /\ Becomes(t, [tab[t] EXCEPT !.session = NoUser,
                               !.loggedIn = FALSE, !.anonymous = FALSE])
  /\ UNCHANGED shared

(* A call of the console's is answered 401: the page is loaded anew.  The   *)
(* cookie is out of a script's reach and stays.                             *)
KickedOut(t) ==
  /\ Moves
  /\ Shown(t) /\ cookie \notin valid /\ userLoggedIn
  /\ redirect' = tab[t].path
  /\ Becomes(t, Fresh("login"))
  /\ UNCHANGED <<cookie, valid, userLoggedIn>>

(* The credentials end, or a server restarted with another key cannot read  *)
(* the token that carries them.                                             *)
TakenBack(u) ==
  /\ Moves
  /\ u \in valid /\ valid' = valid \ {u}
  /\ UNCHANGED <<tab, cookie, userLoggedIn, redirect>>

-----------------------------------------------------------------------------
(* The session is asked for.                                                *)

CheckSucceeds(t, c) ==
  /\ c \in Pending(t, "check") /\ c.as # NoUser
  /\ Becomes(t, [Answered(t, c) EXCEPT !.loggedIn = TRUE, !.session = c.as,
                                       !.state = "Done"])
  /\ UNCHANGED <<shared, moves>>

(* Refused, or not answered.  In a bucket it is tried whether the bucket    *)
(* can be listed without credentials.                                       *)
CheckFails(t, c) ==
  /\ c \in Pending(t, "check")
  /\ Becomes(t, IF c.path = "bucket"
                THEN Asked(Answered(t, c), "anonymous", c.path, NoUser)
                ELSE [Answered(t, c) EXCEPT !.state = "Done"])
  /\ UNCHANGED <<shared, moves>>

(* Mutant: the session is marked as done with a public bucket only. *)
AnonymousAnswered_Then(t, c, public) ==
  /\ c \in Pending(t, "anonymous")
  /\ Becomes(t, [Answered(t, c) EXCEPT !.loggedIn = @ \/ public, !.anonymous = @ \/ public,
                                       !.state = IF public THEN "Done" ELSE @])
  /\ UNCHANGED <<shared, moves>>

AnonymousAnswered(t, c, public) ==
  /\ c \in Pending(t, "anonymous")
  /\ Becomes(t, [Answered(t, c) EXCEPT !.loggedIn = @ \/ public, !.anonymous = @ \/ public,
                                       !.state = "Done"])
  /\ UNCHANGED <<shared, moves>>

(* The effect of a ProtectedRoute that follows the state. *)
Settle(t) ==
  /\ tab[t].page = "app" /\ tab[t].loading /\ tab[t].state = "Done"
  /\ Becomes(t, [tab[t] EXCEPT !.loading = FALSE])
  /\ UNCHANGED <<shared, moves>>

StorePathAndRedirect(t) ==
  /\ tab[t].page = "app" /\ ~tab[t].loading /\ ~tab[t].loggedIn
  /\ redirect' = tab[t].path
  /\ Becomes(t, [tab[t] EXCEPT !.page = "login"])
  /\ UNCHANGED <<cookie, valid, userLoggedIn, moves>>

-----------------------------------------------------------------------------
(* Logging in and out.                                                      *)

LoginSucceeds(t, c) ==
  /\ c \in Pending(t, "login")
  /\ cookie' = c.as /\ valid' = valid \cup {c.as}
  /\ userLoggedIn' = TRUE /\ redirect' = ""
  /\ Becomes(t, [Answered(t, c) EXCEPT !.loggedIn = TRUE, !.sending = FALSE,
                   !.target = IF redirect = "" THEN "other" ELSE redirect])
  /\ UNCHANGED moves

LoginFails(t, c) ==
  /\ c \in Pending(t, "login")
  /\ Becomes(t, [Answered(t, c) EXCEPT !.sending = FALSE])
  /\ UNCHANGED <<shared, moves>>

(* The effect of the login page: the form is reset and the target opened. *)
GoToTarget(t) ==
  /\ tab[t].page = "login" /\ tab[t].target # ""
  /\ Becomes(t, Mounted([tab[t] EXCEPT !.sending = FALSE, !.target = ""], tab[t].target))
  /\ UNCHANGED <<shared, moves>>

(* Mutant: the page is left only when the server answers. *)
LogoutAnswered_Then(t, c, answered) ==
  /\ c \in Pending(t, "logout")
  /\ cookie' = (IF answered THEN NoUser ELSE cookie)
  /\ userLoggedIn' = FALSE /\ redirect' = ""
  /\ Becomes(t, IF answered THEN Fresh("login") ELSE Answered(t, c))
  /\ UNCHANGED <<valid, moves>>

(* An answer, whatever it says of the identity provider, clears the cookie. *)
(* Without one the tab forgets its session all the same.                    *)
LogoutAnswered(t, c, answered) ==
  /\ c \in Pending(t, "logout")
  /\ cookie' = (IF answered THEN NoUser ELSE cookie)
  /\ userLoggedIn' = FALSE /\ redirect' = ""
  /\ Becomes(t, Fresh("login"))
  /\ UNCHANGED <<valid, moves>>

-----------------------------------------------------------------------------
CallEnds(t) ==
  \E c \in tab[t].calls :
    \/ CheckSucceeds(t, c) \/ CheckFails(t, c)
    \/ \E public \in BOOLEAN : AnonymousAnswered(t, c, public)
    \/ LoginSucceeds(t, c) \/ LoginFails(t, c)
    \/ \E answered \in BOOLEAN : LogoutAnswered(t, c, answered)

Effect(t) == Settle(t) \/ StorePathAndRedirect(t) \/ GoToTarget(t)

Move(t) ==
  \/ \E page \in Pages, p \in Paths : Open(t, page, p) \/ Travel(t, page, p)
  \/ \E u \in Users : SignIn(t, u)
  \/ SignOut(t) \/ GoToLogin(t) \/ KickedOut(t)

PagesNext ==
  \/ \E t \in Tabs : CallEnds(t) \/ Effect(t) \/ Move(t)
  \/ \E u \in Users : TakenBack(u)

PagesSpec == PagesInit /\ [][PagesNext]_pageVars

-----------------------------------------------------------------------------
(* Type invariant. *)
SessionTypeOK ==
  /\ tab \in [Tabs -> TabState]
  /\ cookie \in Users \cup {NoUser} /\ valid \subseteq Users
  /\ userLoggedIn \in BOOLEAN /\ redirect \in Paths \cup {""}
  /\ moves \in 0..MaxMoves

(* The page that shows nothing while a session is loading waits for a call  *)
(* that will end it: the check of the session or, when that has failed in a *)
(* bucket, the one listing without credentials that follows outside the     *)
(* thunk (sessionThunk.ts).                                                 *)
LoadingHasCall ==
  \A t \in Tabs : tab[t].state = "Loading" =>
                    Pending(t, "check") \cup Pending(t, "anonymous") # {}

(* Every page comes to something the user can act on (the console, a public *)
(* bucket or the form), in particular when calls fail.                      *)
PagesSettle ==
  \A t \in Tabs : tab[t].page # "closed" ~> Shown(t) \/ tab[t].page = "login"

(* ProtectedRoutes.tsx:60: "if we're still trying to retrieve user session  *)
(* render nothing".                                                         *)
RendersNothingBefore ==
  \A t \in Tabs : Shown(t) => tab[t].state = "Done"
=============================================================================
