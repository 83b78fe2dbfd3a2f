---------------------------- MODULE AdminSessions ----------------------------
(***************************************************************************)
(* Sessions of administrators from the browser to Redis: getSession and    *)
(* logout of auth/auth.service.ts, auth/auth.guard.ts, the admin panel's   *)
(* auth.tsx and api.ts.  The tabs of one browser share its cookie and each *)
(* keeps the administrator it shows and a CSRF token of its own.           *)
(*                                                                         *)
(* A session's cookie value and its CSRF token are both named by its       *)
(* number.  Logins are those that succeed (AdminLogin has the others).     *)
(***************************************************************************)
EXTENDS Naturals, Sequences

CONSTANTS
  Admins, Tabs,
  Nobody,
  MaxLogins,   \* bound on sessions
  MaxRequests  \* bound on what the tabs send

Tokens == 1..MaxLogins
NoToken == 0

VARIABLES
  sessions,  \* Redis: the administrator of a session's key, Nobody without one
  owner,     \* the administrators who logged in, by session
  active,    \* administrators whose status is ACTIVE
  cookie,    \* of the browser
  tab,       \* tab[t]: the administrator it shows and its csrfToken
  request,   \* request[t]: the request of a tab that is on its way (the fields are below)
  effects,   \* changes that were carried out: [shown, admin, late] (history)
  sent       \* requests so far

vars == <<sessions, owner, active, cookie, tab, request, effects, sent>>

\* A request carries the cookie and the CSRF token of the time it was sent; shown
\* is what the tab showed then, late whether that administrator was disabled.
NoRequest == [kind |-> "none", at |-> "none", token |-> NoToken, csrf |-> NoToken, admin |-> Nobody,
              shown |-> Nobody, late |-> FALSE]

Kinds == {"me", "change", "logout"}

Init ==
  /\ sessions = [k \in Tokens |-> Nobody] /\ owner = <<>>
  /\ active = Admins
  /\ cookie = NoToken
  /\ tab = [t \in Tabs |-> [admin |-> Nobody, csrf |-> NoToken]]
  /\ request = [t \in Tabs |-> NoRequest]
  /\ effects = {} /\ sent = 0

-----------------------------------------------------------------------------
(* The browser. *)

\* (Mutant: sessions are also remembered in the process.)
AdminOfCached(k) == IF k = NoToken THEN Nobody ELSE owner[k]
AdminOf(k) == IF k = NoToken THEN Nobody ELSE sessions[k]

Send(t, kind) ==
  /\ request[t] = NoRequest /\ sent < MaxRequests
  /\ sent' = sent + 1
  /\ request' = [request EXCEPT ![t] =
       [kind |-> kind, at |-> "key", token |-> cookie, csrf |-> tab[t].csrf, admin |-> Nobody,
        shown |-> tab[t].admin, late |-> cookie # NoToken /\ owner[cookie] \notin active]]

\* The page is loaded, or loaded again: AuthProvider asks for the session.
Load(t) ==
  /\ Send(t, "me")
  /\ tab' = [tab EXCEPT ![t] = [admin |-> Nobody, csrf |-> NoToken]]
  /\ UNCHANGED <<sessions, owner, active, cookie, effects>>

\* A page changes something, or the button for logout is pressed: both need an
\* administrator to show.
Use(t, kind) ==
  /\ tab[t].admin # Nobody
  /\ Send(t, kind)
  /\ UNCHANGED <<sessions, owner, active, cookie, tab, effects>>

\* A login is answered; the login page does not wait for AuthProvider.
LoggedIn(t, a) ==
  /\ Len(owner) < MaxLogins /\ tab[t].admin = Nobody /\ a \in active
  /\ owner' = Append(owner, a)
  /\ sessions' = [sessions EXCEPT ![Len(owner')] = a]
  /\ cookie' = Len(owner')
  /\ tab' = [tab EXCEPT ![t] = [admin |-> a, csrf |-> Len(owner')]]
  /\ UNCHANGED <<active, request, effects, sent>>

\* The answer to the first request; a refusal leaves the CSRF token.
SessionShown(t, shown, csrf) == tab' = [tab EXCEPT ![t] = [admin |-> shown, csrf |-> csrf]]

-----------------------------------------------------------------------------
(* The server. *)

Move(t, step) == request' = [request EXCEPT ![t].at = step]

Refuse(t) ==
  /\ request' = [request EXCEPT ![t] = NoRequest]
  /\ IF request[t].kind = "me" THEN SessionShown(t, Nobody, tab[t].csrf) ELSE UNCHANGED tab

\* getSession: the key is read, ...
GetKey(t) ==
  /\ request[t].at = "key"
  /\ IF AdminOf(request[t].token) = Nobody
     THEN Refuse(t)
     ELSE /\ request' = [request EXCEPT ![t].at = "admin", ![t].admin = AdminOf(request[t].token)]
          /\ UNCHANGED tab
  /\ UNCHANGED <<sessions, owner, active, cookie, effects, sent>>

\* (Mutant: the session vouches for its administrator.)
MayEnterCached(a) == TRUE
MayEnter(a) == a \in active

\* ... the administrator is, ...
ReadAdmin(t) ==
  /\ request[t].at = "admin"
  /\ Move(t, IF MayEnter(request[t].admin) THEN "refresh" ELSE "delete")
  /\ UNCHANGED <<sessions, owner, active, cookie, tab, effects, sent>>

\* ... and the key is deleted or written again, whether or not it is still there.
DeleteKey(t) ==
  /\ request[t].at = "delete"
  /\ sessions' = [sessions EXCEPT ![request[t].token] = Nobody]
  /\ Refuse(t)
  /\ UNCHANGED <<owner, active, cookie, effects, sent>>

\* The rest of canActivate needs nothing but the request.  (Mutant: the session
\* is enough.)
CsrfAny(r) == TRUE
CsrfOk(r) == r.kind = "me" \/ (r.csrf # NoToken /\ r.csrf = r.token)

RefreshKey(t) ==
  /\ request[t].at = "refresh"
  /\ sessions' = [sessions EXCEPT ![request[t].token] = request[t].admin]
  /\ IF CsrfOk(request[t]) THEN Move(t, "handler") /\ UNCHANGED tab ELSE Refuse(t)
  /\ UNCHANGED <<owner, active, cookie, effects, sent>>

\* The handlers of the other controllers, and me.
Handle(t) ==
  LET r == request[t] IN
  /\ r.at = "handler" /\ r.kind # "logout"
  /\ effects' = IF r.kind = "me" THEN effects
                ELSE effects \cup {[shown |-> r.shown, admin |-> r.admin, late |-> r.late]}
  /\ request' = [request EXCEPT ![t] = NoRequest]
  /\ IF r.kind = "me" THEN SessionShown(t, r.admin, r.token) ELSE UNCHANGED tab
  /\ UNCHANGED <<sessions, owner, active, cookie, sent>>

\* logout: the key is deleted; the answer clears the cookie and the tab.
Logout(t) ==
  /\ request[t].at = "handler" /\ request[t].kind = "logout"
  /\ sessions' = [sessions EXCEPT ![request[t].token] = Nobody]
  /\ cookie' = NoToken
  /\ tab' = [tab EXCEPT ![t] = [admin |-> Nobody, csrf |-> NoToken]]
  /\ request' = [request EXCEPT ![t] = NoRequest]
  /\ UNCHANGED <<owner, active, effects, sent>>

\* An owner disables an administrator in the database.
Disable(a) ==
  /\ a \in active
  /\ active' = active \ {a}
  /\ UNCHANGED <<sessions, owner, cookie, tab, request, effects, sent>>

\* Eight hours without a request.
Expire(k) ==
  /\ sessions[k] # Nobody
  /\ sessions' = [sessions EXCEPT ![k] = Nobody]
  /\ UNCHANGED <<owner, active, cookie, tab, request, effects, sent>>

Next ==
  \/ \E t \in Tabs : \/ Load(t) \/ \E kind \in Kinds \ {"me"} : Use(t, kind)
                     \/ \E a \in Admins : LoggedIn(t, a)
                     \/ GetKey(t) \/ ReadAdmin(t) \/ DeleteKey(t) \/ RefreshKey(t)
                     \/ Handle(t) \/ Logout(t)
  \/ \E a \in Admins : Disable(a)
  \/ \E k \in Tokens : Expire(k)

Spec == Init /\ [][Next]_vars

-----------------------------------------------------------------------------
(* Properties. *)

Steps == {"none", "key", "admin", "delete", "refresh", "handler"}

TypeOK ==
  /\ sessions \in [Tokens -> Admins \cup {Nobody}] /\ owner \in Seq(Admins) /\ Len(owner) <= MaxLogins
  /\ active \subseteq Admins /\ cookie \in 0..Len(owner)
  /\ tab \in [Tabs -> [admin : Admins \cup {Nobody}, csrf : 0..Len(owner)]]
  /\ request \in [Tabs -> [kind : Kinds \cup {"none"}, at : Steps, token : 0..Len(owner), csrf : 0..Len(owner),
                           admin : Admins \cup {Nobody}, shown : Admins \cup {Nobody}, late : BOOLEAN]]
  /\ effects \subseteq [shown : Admins \cup {Nobody}, admin : Admins, late : BOOLEAN]
  /\ sent \in 0..MaxRequests

\* "requires the exact CSRF token for mutations", although the tabs share the
\* cookie and a login in one changes it for all: what a tab changes, it changes
\* for the administrator that it showed when it was sent.  Once an administrator
\* is disabled, nothing that is sent with their session is carried out ("revokes
\* an existing session immediately").
ActsAsShown ==
  \A x \in effects : ~x.late /\ x.admin = x.shown

\* A session that has ended (logout, expiry, a disabled administrator) stays so,
\* once the requests that had found it are over: no request revives it.
Over(k) ==
  /\ sessions[k] = Nobody
  /\ \A t \in Tabs : request[t].token = k => request[t].at \notin {"admin", "refresh"}
KeepsOver == \A k \in 1..Len(owner) : Over(k) => Over(k)'

\* Not kept by the code: a logout may be undone by a request that is on its way.
EndedIsFinal ==
  [][\A k \in 1..Len(owner) : sessions[k] = Nobody => sessions'[k] = Nobody]_vars
=============================================================================
