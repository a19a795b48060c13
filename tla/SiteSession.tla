------------------------------ MODULE SiteSession ------------------------------
(***************************************************************************)
(* Who is signed in on the couple's site in one browser, and which page it  *)
(* shows.  The session is a signed cookie that the server cannot revoke: it *)
(* ends by its age or because the browser drops it.  A page that asks for a *)
(* role is rendered by the server, which redirects everybody else.          *)
(***************************************************************************)
CONSTANT None   \* nothing: no session, no page, no dialog, no answer yet

VARIABLES
  session,   \* the role the cookie vouches for
  browser    \* the page asked for, where login sends on to, and what the page does

sessionVars == <<session, browser>>

Roles  == {"super_admin", "bouncer"}
Pages  == {"passes", "images", "scanner", "media", "login"}

\* The pages behind the login and who may see them.
AllowedRoles == [passes |-> {"super_admin"}, images |-> {"super_admin"}, scanner |-> Roles]

canAccessRole(allowed) == session \in allowed

\* Each page names itself to the login page, except for the passes.
LoginNext == [passes |-> None, images |-> "images", scanner |-> "scanner"]

Fallback(role) == IF role = "bouncer" THEN "scanner" ELSE "passes"

getSafeNextPath(next, role) == IF next = None THEN Fallback(role) ELSE next

Asks(page, next) == [page |-> page, next |-> next, state |-> "asked"]

\* A browser comes with the cookie it has, or with none.
SessionInit ==
  /\ session \in Roles \cup {None}
  /\ \E page \in Pages : browser = Asks(page, None)

Shown(page) == browser.page = page /\ browser.state # "asked"

IsRendered == browser' = [browser EXCEPT !.state = "shown"]

\* The server answers for the page that was asked for.
Guarded(page) ==
  /\ browser.page = page /\ browser.state = "asked"
  /\ page \in DOMAIN AllowedRoles
  /\ IF canAccessRole(AllowedRoles[page]) THEN IsRendered
     ELSE browser' = Asks("login", LoginNext[page])

LoginPage ==
  /\ browser.page = "login" /\ browser.state = "asked"
  /\ IF session = None THEN IsRendered
     ELSE browser' = Asks(getSafeNextPath(browser.next, session), None)

PublicPage == browser.page = "media" /\ browser.state = "asked" /\ IsRendered

Answer(page) ==
  /\ Guarded(page) \/ (page = "login" /\ LoginPage) \/ (page = "media" /\ PublicPage)
  /\ UNCHANGED session

\* A link, the address bar or a reload; a page that signs in or out is not left by hand.
Visit(page) ==
  /\ browser.state = "shown"
  /\ browser' = Asks(page, None)
  /\ UNCHANGED session

\* LoginForm and POST /api/auth/login.
SubmitLogin ==
  /\ Shown("login") /\ browser.state = "shown"
  /\ browser' = [browser EXCEPT !.state = "busy"]
  /\ UNCHANGED session

LoginAnswered(role) ==
  /\ Shown("login") /\ browser.state = "busy"
  /\ \/ session' = role /\ browser' = Asks(getSafeNextPath(browser.next, role), None)
     \/ session' = session /\ browser' = [browser EXCEPT !.state = "shown"]

\* AuthHeader: the cookie is gone before the browser moves on.
PressLogout ==
  /\ browser.page \in DOMAIN AllowedRoles /\ browser.state = "shown"
  /\ browser' = [browser EXCEPT !.state = "busy"]
  /\ UNCHANGED session

LogoutAnswered ==
  /\ browser.page \in DOMAIN AllowedRoles /\ browser.state = "busy"
  /\ session' = None
  /\ browser' = Asks("login", None)

\* verifySessionToken: twelve hours have passed.
SessionExpires ==
  /\ session # None
  /\ session' = None
  /\ UNCHANGED browser

=============================================================================
