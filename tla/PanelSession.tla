------------------------------ MODULE PanelSession ------------------------------
(***************************************************************************)
(* How the admin panel stays signed in: the refresh tokens of              *)
(* AuthController, of which the browser holds one as a cookie, and the     *)
(* access token in its local storage, which api() renews with it.          *)
(*                                                                         *)
(* The panel makes many calls at once, and each that is answered 401 does  *)
(* its own refresh.  A step is one statement of the server, or what the    *)
(* browser does when an answer arrives; answers may be lost.               *)
(***************************************************************************)
EXTENDS Integers, FiniteSets

CONSTANTS
  Requests,   \* the calls of the panel
  None,       \* no cookie
  MaxFaults   \* bound on lost answers, resets of the password and expired refresh tokens

VARIABLES
  live,       \* the refresh tokens neither revoked nor expired
  issued,     \* how many have been issued
  ended,      \* those ended by a logout, a reset or their age
  cookie,     \* the browser's refresh token
  access,     \* its access token: none, fresh or expired
  screen,     \* the login form or the panel
  pc,         \* where a call is
  bearer,     \* the refresh token it has sent
  got,        \* the one it was given
  lost,       \* those exchanged by a call whose answer was lost
  faults      \* faults so far

server  == <<live, issued, ended>>
browser == <<cookie, access, screen>>
calls   == <<pc, bearer, got, lost>>
vars    == <<server, browser, calls, faults>>

Init ==
  /\ live = {} /\ issued = 0 /\ ended = {}
  /\ cookie = None /\ access = "none" /\ screen = "login"
  /\ pc = [r \in Requests |-> "idle"]
  /\ bearer = [r \in Requests |-> None]
  /\ got = [r \in Requests |-> None]
  /\ lost = {}
  /\ faults = 0

Goto(r, p) == pc' = [pc EXCEPT ![r] = p]

-----------------------------------------------------------------------------
\* login: a refresh token is stored, the cookie set, the panel shown.
Login(r) ==
  /\ pc[r] = "idle" /\ screen = "login"
  /\ issued' = issued + 1
  /\ live' = live \cup {issued + 1}
  /\ cookie' = issued + 1 /\ access' = "fresh" /\ screen' = "panel"
  /\ Goto(r, "done")
  /\ UNCHANGED <<ended, bearer, got, lost, faults>>

\* A call of api() that the server refuses for its access token.
Call(r) ==
  /\ pc[r] = "idle" /\ screen = "panel" /\ access # "fresh"
  /\ Goto(r, "refresh")
  /\ UNCHANGED <<server, browser, bearer, got, lost, faults>>

\* refreshAccessToken sends the cookie the browser has by now.
Refresh(r) ==
  /\ pc[r] = "refresh"
  /\ bearer' = [bearer EXCEPT ![r] = cookie]
  /\ Goto(r, "lookup")
  /\ UNCHANGED <<server, browser, got, lost, faults>>

\* refresh: the token is looked up ...
Lookup(r) ==
  /\ pc[r] = "lookup"
  /\ Goto(r, IF bearer[r] \in live THEN "rotate" ELSE "refused")
  /\ UNCHANGED <<server, browser, bearer, got, lost, faults>>

\* Fault: whoever renews a token ends all the others.
RotateAll(old, new) == {new}

\* The old token is revoked, the new one stored.
Rotated(old, new) == (live \ {old}) \cup {new}

\* ... and exchanged in a transaction, which does not look at it again.
Rotate(r) ==
  /\ pc[r] = "rotate"
  /\ issued' = issued + 1
  /\ live' = Rotated(bearer[r], issued + 1)
  /\ got' = [got EXCEPT ![r] = issued + 1]
  /\ Goto(r, "renewed")
  /\ UNCHANGED <<ended, browser, bearer, lost, faults>>

\* The answer sets the cookie; the call is repeated with the new access token.
Receive(r) ==
  /\ pc[r] = "renewed"
  /\ cookie' = got[r] /\ access' = "fresh"
  /\ Goto(r, "done")
  /\ UNCHANGED <<server, screen, bearer, got, lost, faults>>

\* A refused refresh takes the access token away, whoever has renewed it since.
Refused(r) ==
  /\ pc[r] = "refused"
  /\ access' = "none"
  /\ Goto(r, "done")
  /\ UNCHANGED <<server, cookie, screen, bearer, got, lost, faults>>

\* The answer is lost: the call ends with a connection error.
LoseAnswer(r) ==
  /\ pc[r] \in {"renewed", "refused"}
  /\ faults < MaxFaults /\ faults' = faults + 1
  /\ lost' = IF pc[r] = "renewed" THEN lost \cup {bearer[r]} ELSE lost
  /\ Goto(r, "done")
  /\ UNCHANGED <<server, browser, bearer, got>>

\* logout revokes the token of the cookie ...
Logout(r) ==
  /\ pc[r] = "idle" /\ screen = "panel"
  /\ live' = live \ {cookie}
  /\ ended' = IF cookie \in live THEN ended \cup {cookie} ELSE ended
  /\ Goto(r, "leaving")
  /\ UNCHANGED <<issued, browser, bearer, got, lost, faults>>

\* ... and its answer, if it arrives, clears it; the panel is left in any case.
Leave(r) ==
  /\ pc[r] = "leaving"
  /\ \/ cookie' = None /\ UNCHANGED faults
     \/ faults < MaxFaults /\ faults' = faults + 1 /\ UNCHANGED cookie
  /\ access' = "none" /\ screen' = "login"
  /\ Goto(r, "done")
  /\ UNCHANGED <<server, bearer, got, lost>>

\* The page is loaded: the panel if there is an access token that /auth/me
\* accepts; calls to /auth/ are not repeated after a refresh.
Reload(r) ==
  /\ pc[r] = "idle"
  /\ access' = IF access = "fresh" THEN "fresh" ELSE "none"
  /\ screen' = IF access = "fresh" THEN "panel" ELSE "login"
  /\ Goto(r, "done")
  /\ UNCHANGED <<server, cookie, bearer, got, lost, faults>>

\* 15 minutes have passed.
AccessExpires ==
  /\ access = "fresh"
  /\ access' = "expired"
  /\ UNCHANGED <<server, cookie, screen, calls, faults>>

End(tokens) ==
  /\ faults < MaxFaults /\ faults' = faults + 1
  /\ live' = live \ tokens
  /\ ended' = ended \cup tokens
  /\ UNCHANGED <<issued, browser, calls>>

\* resetPassword ends all tokens of the user, 7 days any of them.
ResetPassword == live # {} /\ End(live)
RefreshExpires(t) == t \in live /\ End({t})

Next ==
  \/ \E r \in Requests :
       \/ Login(r) \/ Call(r) \/ Refresh(r) \/ Lookup(r) \/ Rotate(r) \/ Receive(r) \/ Refused(r)
       \/ LoseAnswer(r) \/ Logout(r) \/ Leave(r) \/ Reload(r)
  \/ AccessExpires \/ ResetPassword
  \/ \E t \in live : RefreshExpires(t)

Spec == Init /\ [][Next]_vars

-----------------------------------------------------------------------------
TypeOK ==
  /\ issued \in Nat /\ live \subseteq 1..issued /\ ended \subseteq 1..issued /\ lost \subseteq 1..issued
  /\ cookie \in 1..issued \cup {None}
  /\ access \in {"none", "fresh", "expired"} /\ screen \in {"login", "panel"}
  /\ pc \in [Requests -> {"idle", "refresh", "lookup", "rotate", "renewed", "refused", "leaving", "done"}]
  /\ bearer \in [Requests -> 1..issued \cup {None}]
  /\ got \in [Requests -> 1..issued \cup {None}]
  /\ faults \in Nat

\* Rotation never strands the browser: however many calls renew its token at
\* once, and in whatever order their answers arrive, the cookie is live, unless
\* it was ended by a logout, a reset or its age, or the answer that replaces it
\* is on its way or was lost.
CookieLives ==
  cookie = None \/ cookie \in live \cup ended \cup lost \cup {bearer[r] : r \in {o \in Requests : pc[o] = "renewed"}}
=============================================================================
