----------------------------- MODULE AuthSessions -----------------------------
(***************************************************************************)
(* The sign-in sessions of ONE account: rows of the sessions table whose   *)
(* refresh JTI rotates (back/app/services/auth_service.py), the Redis keys *)
(* that soften and sharpen a rotation (refresh_grace, revoked_sid,         *)
(* auth_revoked_user), and the browsers on the other side: the tabs of a   *)
(* browser share one httpOnly cookie, and each keeps an access token in    *)
(* memory (web/src/lib/api/client.ts, lib/stores/auth-store.ts).           *)
(*                                                                         *)
(* A request is sent, handled by steps that other requests interleave with *)
(* (a step is what happens between two awaits on the database or Redis),   *)
(* answered, and the answer reaches the tab later, in any order.           *)
(*                                                                         *)
(* Redis is up and everyone is honest: tabs send the cookie they have and  *)
(* people know their password.  A token is minted in the second in which   *)
(* the transaction before it committed.                                    *)
(***************************************************************************)
EXTENDS Naturals, Sequences, FiniteSets

CONSTANTS
    Browser,
    Tab,
    BrowserOf,   \* the browser each tab is open in
    Sid,         \* ids of session rows
    NoSid,
    Request,     \* request ids, each used at most once (the bound on requests)
    Overtaking,  \* may a browser refresh again while an answer to a refresh
                 \* with an older cookie is still on its way?
    MaxClock,    \* bound: seconds that pass
    MaxMishaps   \* bound: reloads of a tab, and rotations whose commit raises

ASSUME NoSidIsNobody == NoSid \notin Sid \cup Request
ASSUME TabsHaveBrowsers == BrowserOf \in [Tab -> Browser]
ASSUME AuthBounds ==
    /\ MaxClock \in Nat /\ MaxMishaps \in Nat
    /\ Overtaking \in BOOLEAN

VARIABLES
    sessions,   \* the sessions table: Sid -> [jti, active]; jti 0: no such row
    lock,       \* who holds the row: Sid -> a request, or NoSid
    issued,     \* JTIs are numbered as they are minted: issued[j] is j's session
    grace,      \* refresh_grace:{jti} -> session id, as a set of pairs
    lapsed,     \* the JTIs whose grace key has expired
    revokedSid, \* revoked_sid:{sid}
    revokedAt,  \* auth_revoked_user:{user}, 0: absent
    clock,      \* seconds
    cookie,     \* the refresh cookie of each browser, 0: none
    tab,        \* [access, status] of each tab
    req,        \* the requests
    mishaps

database == <<sessions, lock, issued>>
redis == <<grace, lapsed, revokedSid, revokedAt>>
browsers == <<cookie, tab>>
vars == <<database, redis, clock, browsers, req, mishaps>>

NoToken == [sid |-> NoSid, iat |-> 0]
Anonymous == [access |-> NoToken, status |-> "anonymous"]
Token == [sid : Sid \cup {NoSid}, iat : Nat]

SessionRecord == [jti : 0 .. Len(issued), active : BOOLEAN]
TabRecord == [access : Token, status : {"loading", "authenticated", "anonymous"}]

Kinds == {"none", "refresh", "login", "logout", "change", "reset"}
Steps ==
    {"unsent", "sent",
     "held", "published",            \* refresh: the row is locked; grace is set
     "unknown", "graced", "alarm",   \* refresh: no row has this JTI
     "listed", "marked", "ended",    \* sessions found; marked; invalidated
     "answered", "refused", "done"}

(* kind, the tab it came from, the JTI its cookie carries; how far it is   *)
(* handled; the sessions it found (one for a refresh); the cookie its      *)
(* answer sets; the access token, of the tab and then of the answer; and   *)
(* whether a reload of the tab has abandoned it.                           *)
RequestRecord ==
    [kind : Kinds, tab : Tab \cup {NoSid}, jti : 0 .. Len(issued), at : Steps,
     found : SUBSET Sid, jar : 0 .. Len(issued), token : Token, orphan : BOOLEAN]

Unsent ==
    [kind |-> "none", tab |-> NoSid, jti |-> 0, at |-> "unsent", found |-> {},
     jar |-> 0, token |-> NoToken, orphan |-> FALSE]

InFlight == {q \in Request : req[q].at \notin {"unsent", "done"}}
From(b) == {q \in InFlight : BrowserOf[req[q].tab] = b}
Awaited(t, kinds) ==
    {q \in InFlight : req[q].tab = t /\ req[q].kind \in kinds /\ ~req[q].orphan}

Minted == {s \in Sid : sessions[s].jti # 0}
Active == {s \in Sid : sessions[s].active}
WithJti(j) == {s \in Minted : sessions[s].jti = j}

(* validate_access_token *)
AcceptsSameSecond(tok) == tok.sid \notin revokedSid /\ ~(tok.iat < revokedAt)  \* mutant
Accepts(tok) == tok.sid \notin revokedSid /\ ~(tok.iat <= revokedAt)

(* The row's lock, taken by SELECT ... FOR UPDATE or by an UPDATE; whoever *)
(* finds it taken waits for the holder's commit and then reads the row     *)
(* afresh.                                                                 *)
FreeAlways(s) == TRUE  \* mutant
Free(s) == lock[s] = NoSid

Goto(q, step) == req' = [req EXCEPT ![q].at = step]
GotoWith(q, step, f) == req' = [req EXCEPT ![q] = [@ EXCEPT !.at = step, !.found = f]]

(* Of a request that is over, the properties remember what it ended. *)
Finish(q) ==
    req' = [req EXCEPT ![q] =
              IF @.kind \in {"refresh", "login"}
              THEN [Unsent EXCEPT !.at = "done"]
              ELSE [Unsent EXCEPT !.at = "done", !.kind = req[q].kind,
                                   !.jti = req[q].jti, !.found = req[q].found]]

-----------------------------------------------------------------------------
(* What a tab sends.                                                       *)

Send(q, t, kind) ==
    /\ req[q].at = "unsent"
    /\ req' = [req EXCEPT ![q] =
                 [kind |-> kind, tab |-> t, jti |-> cookie[BrowserOf[t]], at |-> "sent",
                  found |-> {}, jar |-> 0, token |-> tab[t].access, orphan |-> FALSE]]
    /\ UNCHANGED <<database, redis, clock, browsers, mishaps>>

(* tryRefresh is single-flight per tab; bootstrap refreshes once on load.  *)
(* Any 401 and any reconnect of the collab socket asks for it.             *)
SendRefresh(q, t) ==
    /\ tab[t].status \in {"loading", "authenticated"}
    /\ cookie[BrowserOf[t]] # 0
    /\ Awaited(t, {"refresh"}) = {}
    /\ ~Overtaking =>
         \A p \in From(BrowserOf[t]) :
             req[p].kind = "refresh" /\ ~req[p].orphan => req[p].jti = cookie[BrowserOf[t]]
    /\ Send(q, t, "refresh")

(* A refresh without a cookie is answered 401 at once. *)
RefreshWithoutCookie(t) ==
    /\ tab[t].status # "anonymous" /\ cookie[BrowserOf[t]] = 0
    /\ Awaited(t, {"refresh"}) = {}
    /\ tab' = [tab EXCEPT ![t] = Anonymous]
    /\ UNCHANGED <<database, redis, clock, cookie, req, mishaps>>

SignedOutForms == {"login", "reset"}

SendFromForm(q, t) ==
    /\ tab[t].status = "anonymous"
    /\ Awaited(t, SignedOutForms) = {}
    /\ \E kind \in SignedOutForms : Send(q, t, kind)

SendFromSettings(q, t) ==
    /\ tab[t].status = "authenticated"
    /\ Awaited(t, {"logout", "change"}) = {}
    /\ \E kind \in {"logout", "change"} : Send(q, t, kind)

(* A reload drops what the tab holds and the answers it awaits; bootstrap  *)
(* then restores the session from the cookie.                              *)
Reload(t) ==
    /\ mishaps < MaxMishaps
    /\ tab[t].status = "authenticated"
    /\ mishaps' = mishaps + 1
    /\ tab' = [tab EXCEPT ![t] = [access |-> NoToken, status |-> "loading"]]
    /\ req' = [q \in Request |-> [req[q] EXCEPT !.orphan = @ \/ (q \in InFlight /\ req[q].tab = t)]]
    /\ UNCHANGED <<database, redis, clock, cookie>>

-----------------------------------------------------------------------------
(* refresh                                                                 *)

(* SELECT ... WHERE refresh_token_jti = jti FOR UPDATE *)
LookUp(q) ==
    /\ req[q].kind = "refresh" /\ req[q].at = "sent"
    /\ \/ /\ WithJti(req[q].jti) = {}
          /\ Goto(q, "unknown")
          /\ UNCHANGED lock
       \/ \E s \in WithJti(req[q].jti) :
              /\ Free(s)
              /\ IF sessions[s].active
                 THEN /\ lock' = [lock EXCEPT ![s] = q]
                      /\ GotoWith(q, "held", {s})
                 ELSE /\ Goto(q, "refused")
                      /\ UNCHANGED lock
    /\ UNCHANGED <<sessions, issued, redis, clock, browsers, mishaps>>

(* GET refresh_grace:{jti} *)
GraceOf(j) == {g \in grace : g.jti = j}

AskGrace(q) ==
    /\ req[q].at = "unknown"
    /\ \/ /\ GraceOf(req[q].jti) = {}
          /\ GotoWith(q, "alarm", Active)
       \/ \E g \in GraceOf(req[q].jti) :
              GotoWith(q, "graced", {g.sid})
    /\ UNCHANGED <<database, redis, clock, browsers, mishaps>>

(* The answer a successful refresh sends: the session's JTI and a token.   *)
Answered(q, s, j) ==
    req' = [req EXCEPT ![q] = [@ EXCEPT !.at = "answered", !.jar = j,
                                        !.token = [sid |-> s, iat |-> clock]]]

(* Converge: a racer that presents a spent JTI gets the current one.       *)
ConvergeOnPresented(q) ==  \* mutant
    /\ req[q].at = "graced"
    /\ \E s \in req[q].found :
           /\ Free(s)
           /\ IF sessions[s].active THEN Answered(q, s, req[q].jti) ELSE Goto(q, "refused")
    /\ UNCHANGED <<database, redis, clock, browsers, mishaps>>

Converge(q) ==
    /\ req[q].at = "graced"
    /\ \E s \in req[q].found :
           /\ Free(s)
           /\ IF sessions[s].active THEN Answered(q, s, sessions[s].jti) ELSE Goto(q, "refused")
    /\ UNCHANGED <<database, redis, clock, browsers, mishaps>>

(* Rotate: the grace key first ... *)
PublishNothing(q) ==  \* mutant
    /\ req[q].at = "held"
    /\ Goto(q, "published")
    /\ UNCHANGED <<database, redis, clock, browsers, mishaps>>

PublishGrace(q) ==
    /\ req[q].at = "held"
    /\ grace' = grace \cup {[jti |-> req[q].jti, sid |-> s] : s \in req[q].found}
    /\ lapsed' = lapsed \ {req[q].jti}
    /\ Goto(q, "published")
    /\ UNCHANGED <<database, revokedSid, revokedAt, clock, browsers, mishaps>>

(* ... and the commit, which also releases the row, after it. *)
CommitRotation(q) ==
    /\ req[q].at = "published"
    /\ \E s \in req[q].found :
           /\ issued' = Append(issued, s)
           /\ sessions' = [sessions EXCEPT ![s].jti = Len(issued')]
           /\ lock' = [lock EXCEPT ![s] = NoSid]
           /\ Answered(q, s, Len(issued'))
    /\ UNCHANGED <<redis, clock, browsers, mishaps>>

(* The commit raises: the row keeps its JTI, the tab gets a 500. *)
FailRotation(q) ==
    /\ req[q].at = "published"
    /\ mishaps < MaxMishaps
    /\ mishaps' = mishaps + 1
    /\ \E s \in req[q].found : lock' = [lock EXCEPT ![s] = NoSid]
    /\ Goto(q, "refused")
    /\ UNCHANGED <<sessions, issued, redis, clock, browsers>>

(* The reuse defence: the sessions that were active when it looked end.    *)
EndFound(q) ==
    /\ \A s \in req[q].found : Free(s)
    /\ sessions' = [s \in Sid |->
                      IF s \in req[q].found THEN [sessions[s] EXCEPT !.active = FALSE]
                      ELSE sessions[s]]

RaiseAlarm(q) ==
    /\ req[q].at = "alarm"
    /\ EndFound(q)
    /\ Goto(q, "refused")
    /\ UNCHANGED <<lock, issued, redis, clock, browsers, mishaps>>

-----------------------------------------------------------------------------
(* mint_session, by login and after reset_password                         *)

Mint(q) ==
    /\ \E s \in Sid \ Minted :
           /\ issued' = Append(issued, s)
           /\ sessions' = [sessions EXCEPT ![s] = [jti |-> Len(issued'), active |-> TRUE]]
           /\ Answered(q, s, Len(issued'))
    /\ UNCHANGED <<lock, redis, clock, browsers, mishaps>>

Login(q) == req[q].kind = "login" /\ req[q].at = "sent" /\ Mint(q)

-----------------------------------------------------------------------------
(* logout: the session is looked up by the cookie's JTI, without a lock    *)
(* and without the grace key; the marker follows the commit.               *)

LogoutFind(q) ==
    /\ req[q].kind = "logout" /\ req[q].at = "sent"
    /\ LET mine == WithJti(req[q].jti) \cap Active
       IN  GotoWith(q, IF mine = {} THEN "answered" ELSE "listed", mine)
    /\ UNCHANGED <<database, redis, clock, browsers, mishaps>>

LogoutCommit(q) ==
    /\ req[q].kind = "logout" /\ req[q].at = "listed"
    /\ EndFound(q)
    /\ Goto(q, "ended")
    /\ UNCHANGED <<lock, issued, redis, clock, browsers, mishaps>>

LogoutMark(q) ==
    /\ req[q].kind = "logout" /\ req[q].at = "ended"
    /\ revokedSid' = revokedSid \cup req[q].found
    /\ Goto(q, "answered")
    /\ UNCHANGED <<database, grace, lapsed, revokedAt, clock, browsers, mishaps>>

(* change_password: every session, this tab's included; one marker for the *)
(* whole account, dated, after the commit.                                 *)
ChangeFind(q) ==
    /\ req[q].kind = "change" /\ req[q].at = "sent"
    /\ IF Accepts(req[q].token)
       THEN GotoWith(q, "listed", Active)
       ELSE Finish(q)
    /\ UNCHANGED <<database, redis, clock, browsers, mishaps>>

ChangeCommit(q) ==
    /\ req[q].kind = "change" /\ req[q].at = "listed"
    /\ EndFound(q)
    /\ Goto(q, "ended")
    /\ UNCHANGED <<lock, issued, redis, clock, browsers, mishaps>>

ChangeMark(q) ==
    /\ req[q].kind = "change" /\ req[q].at = "ended"
    /\ revokedAt' = clock
    /\ Goto(q, "answered")
    /\ UNCHANGED <<database, grace, lapsed, revokedSid, clock, browsers, mishaps>>

(* reset_password (revoke_existing_sessions): one marker per session, set  *)
(* before the commit; then a new session is minted.                        *)
ResetFind(q) ==
    /\ req[q].kind = "reset" /\ req[q].at = "sent"
    /\ GotoWith(q, "listed", Active)
    /\ UNCHANGED <<database, redis, clock, browsers, mishaps>>

ResetMark(q) ==
    /\ req[q].kind = "reset" /\ req[q].at = "listed"
    /\ revokedSid' = revokedSid \cup req[q].found
    /\ Goto(q, "marked")
    /\ UNCHANGED <<database, grace, lapsed, revokedAt, clock, browsers, mishaps>>

ResetCommit(q) ==
    /\ req[q].at = "marked"
    /\ EndFound(q)
    /\ Goto(q, "ended")
    /\ UNCHANGED <<lock, issued, redis, clock, browsers, mishaps>>

ResetMint(q) == req[q].kind = "reset" /\ req[q].at = "ended" /\ Mint(q)

-----------------------------------------------------------------------------
(* The answer reaches the browser.                                         *)

(* Of an abandoned request nothing is kept. *)
Dropped(q) ==
    /\ req[q].at \in {"answered", "refused"}
    /\ req[q].orphan
    /\ Finish(q)
    /\ UNCHANGED <<database, redis, clock, browsers, mishaps>>

(* Set-Cookie, and the pair into the tab: refresh keeps an anonymous tab's *)
(* status, login and reset sign it in.                                     *)
SignedIn(q) ==
    /\ req[q].at = "answered" /\ ~req[q].orphan
    /\ req[q].kind \in {"refresh", "login", "reset"}
    /\ cookie' = [cookie EXCEPT ![BrowserOf[req[q].tab]] = req[q].jar]
    /\ tab' = [tab EXCEPT ![req[q].tab] =
                 [access |-> req[q].token,
                  status |-> IF req[q].kind = "refresh" /\ @.status = "anonymous"
                             THEN "anonymous" ELSE "authenticated"]]
    /\ Finish(q)
    /\ UNCHANGED <<database, redis, clock, mishaps>>

(* A refresh that fails signs the tab out; the cookie stays. *)
Expired(q) ==
    /\ req[q].at = "refused" /\ ~req[q].orphan
    /\ tab' = [tab EXCEPT ![req[q].tab] = Anonymous]
    /\ Finish(q)
    /\ UNCHANGED <<database, redis, clock, cookie, mishaps>>

LoggedOut(q) ==
    /\ req[q].at = "answered" /\ req[q].kind = "logout" /\ ~req[q].orphan
    /\ cookie' = [cookie EXCEPT ![BrowserOf[req[q].tab]] = 0]
    /\ tab' = [tab EXCEPT ![req[q].tab] = Anonymous]
    /\ Finish(q)
    /\ UNCHANGED <<database, redis, clock, mishaps>>

Changed(q) ==
    /\ req[q].at = "answered" /\ req[q].kind = "change" /\ ~req[q].orphan
    /\ Finish(q)
    /\ UNCHANGED <<database, redis, clock, browsers, mishaps>>

-----------------------------------------------------------------------------
(* Time.                                                                   *)

Tick ==
    /\ clock < MaxClock
    /\ clock' = clock + 1
    /\ UNCHANGED <<database, redis, browsers, req, mishaps>>

(* The grace key expires 30 s after the rotation: longer than a request    *)
(* takes, and than a reload takes to send its own.                         *)
GraceLapses(g) ==
    /\ \A q \in InFlight : req[q].jti # g.jti
    /\ \A t \in Tab : tab[t].status = "loading" => cookie[BrowserOf[t]] # g.jti
    /\ grace' = grace \ {g}
    /\ lapsed' = lapsed \cup {g.jti}
    /\ UNCHANGED <<database, revokedSid, revokedAt, clock, browsers, req, mishaps>>

-----------------------------------------------------------------------------
Init ==
    /\ sessions = [s \in Sid |-> [jti |-> 0, active |-> FALSE]]
    /\ lock = [s \in Sid |-> NoSid]
    /\ issued = <<>>
    /\ grace = {} /\ lapsed = {} /\ revokedSid = {} /\ revokedAt = 0
    /\ clock = 1
    /\ cookie = [b \in Browser |-> 0]
    /\ tab = [t \in Tab |-> Anonymous]
    /\ req = [q \in Request |-> Unsent]
    /\ mishaps = 0

Handle(q) ==
    \/ LookUp(q) \/ AskGrace(q) \/ Converge(q)
    \/ PublishGrace(q) \/ CommitRotation(q) \/ FailRotation(q) \/ RaiseAlarm(q)
    \/ Login(q)
    \/ LogoutFind(q) \/ LogoutCommit(q) \/ LogoutMark(q)
    \/ ChangeFind(q) \/ ChangeCommit(q) \/ ChangeMark(q)
    \/ ResetFind(q) \/ ResetMark(q) \/ ResetCommit(q) \/ ResetMint(q)

Receive(q) == Dropped(q) \/ SignedIn(q) \/ Expired(q) \/ LoggedOut(q) \/ Changed(q)

Next ==
    \/ \E q \in Request, t \in Tab :
           SendRefresh(q, t) \/ SendFromForm(q, t) \/ SendFromSettings(q, t)
    \/ \E t \in Tab : Reload(t) \/ RefreshWithoutCookie(t)
    \/ \E q \in Request : Handle(q) \/ Receive(q)
    \/ Tick
    \/ \E g \in grace : GraceLapses(g)

Spec == Init /\ [][Next]_vars

-----------------------------------------------------------------------------
(* Properties.                                                             *)

(* Every value has its type; a row is locked by a request that holds it.   *)
TypeOK ==
    /\ sessions \in [Sid -> SessionRecord]
    /\ lock \in [Sid -> Request \cup {NoSid}]
    /\ issued \in Seq(Sid)
    /\ grace \subseteq [jti : 1 .. Len(issued), sid : Sid]
    /\ lapsed \subseteq 1 .. Len(issued)
    /\ revokedSid \subseteq Sid
    /\ revokedAt \in 0 .. clock
    /\ clock \in Nat
    /\ cookie \in [Browser -> 0 .. Len(issued)]
    /\ tab \in [Tab -> TabRecord]
    /\ req \in [Request -> RequestRecord]
    /\ mishaps \in Nat

(* A refresh JTI that was ever handed out is its session's current one, or *)
(* its grace key leads to the session, or that key has expired: publishing *)
(* the key before the commit leaves no instant in which a spent JTI        *)
(* resolves nowhere (auth_service.py:179-191).                             *)
SpentTokensResolve ==
    \A j \in 1 .. Len(issued) :
        \/ sessions[issued[j]].jti = j
        \/ [jti |-> j, sid |-> issued[j]] \in grace
        \/ j \in lapsed

(* The reuse defence never fires on a browser whose session is alive: tabs *)
(* that race, reload, or meet a failed commit are not taken for thieves.   *)
NoFalseAlarm ==
    \A q \in Request : req[q].at = "alarm" => ~sessions[issued[req[q].jti]].active

(* A browser with nothing in flight holds the current JTI of its session,  *)
(* if that session is alive: the racers of a rotation have converged.      *)
Settled(b) ==
    /\ From(b) = {}
    /\ \A t \in Tab : BrowserOf[t] = b => tab[t].status # "loading"

RacersConverge ==
    \A b \in Browser :
        Settled(b) /\ cookie[b] # 0 =>
            LET s == sessions[issued[cookie[b]]] IN s.active => s.jti = cookie[b]

(* An ended session is never revived, and never rotated again: a refresh   *)
(* that found it alive cannot commit after it was ended.                   *)
EndedStaysEnded ==
    [][\A s \in Minted : ~sessions[s].active => sessions'[s] = sessions[s]]_vars

(* Once a logout, a password change or a reset is answered, the sessions   *)
(* it found are ended and none of their access tokens is accepted any      *)
(* more: not those in tabs, and not those on their way to a tab.           *)
Outstanding == {tab[t].access : t \in Tab} \cup {req[q].token : q \in InFlight}

EndedMeansRefused ==
    \A q \in Request :
        req[q].kind \in {"logout", "change", "reset"} /\ req[q].at \in {"answered", "done"} =>
            \A s \in req[q].found :
                /\ ~sessions[s].active
                /\ \A tok \in Outstanding : tok.sid = s => ~Accepts(tok)

(* "Invalidate the current session": once a logout is answered, the        *)
(* session of the cookie it came with is over.                             *)
LogoutEndsSession ==
    \A q \in Request :
        req[q].kind = "logout" /\ req[q].at \in {"answered", "done"} /\ req[q].jti # 0 =>
            ~sessions[issued[req[q].jti]].active
=============================================================================
