-------------------------- MODULE AuthSessionsProofs --------------------------
(***************************************************************************)
(* Theorems about AuthSessions, for any number of browsers, tabs, sessions *)
(* and requests.  A spent refresh JTI always resolves, and an ended        *)
(* session stays ended, because whoever rotates a session holds its row:   *)
(* HeldRows says what the holder knows about the row until it commits.     *)
(* A tab told "ended" is refused from then on, because the revoked markers *)
(* outlive the tokens they refuse: EndInv says what each request that ends *)
(* sessions knows of the sessions it found, and that no token is from the  *)
(* future.  Racing tabs are not taken for thieves and end with one cookie, *)
(* because a spent cookie is never left alone: CalmInv says that a tab     *)
(* that loads, or an answer that a tab waits for, is to replace it.        *)
(***************************************************************************)
EXTENDS AuthSessions, TLAPS

(* Between its SELECT ... FOR UPDATE and its commit a refresh holds the    *)
(* row, which is alive and still has the JTI that was presented; once the  *)
(* grace key is written, that JTI resolves without the row.                *)
HoldsRow(q, s) ==
    /\ req[q].found = {s}
    /\ lock[s] = q
    /\ req[q].jti # 0
    /\ sessions[s] = [jti |-> req[q].jti, active |-> TRUE]
    /\ req[q].at = "published" =>
         [jti |-> req[q].jti, sid |-> s] \in grace \/ req[q].jti \in lapsed

HeldRows ==
    \A q \in Request : req[q].at \in {"held", "published"} => \E s \in Sid : HoldsRow(q, s)

(* The JTI in a row was issued to that row. *)
RowsHoldTheirOwn ==
    \A s \in Sid : sessions[s].jti # 0 => issued[sessions[s].jti] = s

Inv == TypeOK /\ HeldRows /\ RowsHoldTheirOwn /\ SpentTokensResolve

-----------------------------------------------------------------------------
(* Lemmas about issuing a JTI.                                             *)

LEMMA IssuedLength == ASSUME TypeOK PROVE Len(issued) \in Nat
  BY DEF TypeOK

(* One more JTI: the numbers issued before keep their session.             *)
LEMMA IssueOne ==
    ASSUME TypeOK, NEW s \in Sid, issued' = Append(issued, s)
    PROVE  /\ issued' \in Seq(Sid)
           /\ Len(issued') = Len(issued) + 1
           /\ issued'[Len(issued')] = s
           /\ \A j \in 1 .. Len(issued) : issued'[j] = issued[j]
           /\ 0 .. Len(issued) \subseteq 0 .. Len(issued')
           /\ 1 .. Len(issued) \subseteq 1 .. Len(issued')
           /\ Len(issued') \in 1 .. Len(issued')
           /\ Len(issued') # 0
<1>1. issued \in Seq(Sid)
  BY DEF TypeOK
<1> QED
  BY <1>1

-----------------------------------------------------------------------------
(* Types.                                                                  *)

(* What is written to a request keeps its type. *)
LEMMA RequestWrites ==
    ASSUME NEW r \in RequestRecord, NEW step \in Steps
    PROVE  /\ [r EXCEPT !.at = step] \in RequestRecord
           /\ \A f \in SUBSET Sid : [r EXCEPT !.at = step, !.found = f] \in RequestRecord
           /\ \A j \in 0 .. Len(issued), tok \in Token :
                  [r EXCEPT !.at = step, !.jar = j, !.token = tok] \in RequestRecord
BY DEF RequestRecord

LEMMA UnsentTyped == ASSUME TypeOK PROVE Unsent \in RequestRecord
BY IssuedLength DEF Unsent, RequestRecord, Kinds, Steps, NoToken, Token

LEMMA RequestFields ==
    ASSUME TypeOK, NEW q \in Request
    PROVE  /\ req[q] \in RequestRecord
           /\ req[q].tab \in Tab \cup {NoSid}
           /\ req[q].jti \in 0 .. Len(issued)
           /\ req[q].jar \in 0 .. Len(issued)
           /\ req[q].found \in SUBSET Sid
           /\ req[q].token \in Token
           /\ req[q].kind \in Kinds
<1>1. req[q] \in RequestRecord
  BY DEF TypeOK
<1> QED
  BY <1>1 DEF RequestRecord

LEMMA SendTyped ==
    ASSUME TypeOK, NEW q \in Request, NEW t \in Tab, NEW kind \in Kinds, Send(q, t, kind)
    PROVE  TypeOK'
<1> DEFINE r == [kind |-> kind, tab |-> t, jti |-> cookie[BrowserOf[t]], at |-> "sent",
                 found |-> {}, jar |-> 0, token |-> tab[t].access, orphan |-> FALSE]
<1>1. BrowserOf[t] \in Browser /\ cookie[BrowserOf[t]] \in 0 .. Len(issued)
  BY TabsHaveBrowsers DEF TypeOK
<1>2. tab[t].access \in Token
  BY DEF TypeOK, TabRecord
<1>4. r \in RequestRecord
  BY <1>1, <1>2, IssuedLength DEF RequestRecord, Steps
<1>5. req' \in [Request -> RequestRecord] /\ UNCHANGED RequestRecord
  <2> HIDE DEF r
  <2>1. req' = [req EXCEPT ![q] = r]
    BY DEF Send, r
  <2> QED
    BY <1>4, <2>1 DEF TypeOK, Send, RequestRecord, database
<1> QED
  BY <1>5 DEF TypeOK, Send, SessionRecord, TabRecord, database, redis, browsers

LEMMA GotoTyped ==
    ASSUME TypeOK, NEW q \in Request, NEW step \in Steps, Goto(q, step)
    PROVE  req' \in [Request -> RequestRecord]
BY RequestWrites DEF TypeOK, Goto

LEMMA FoundTyped ==
    ASSUME TypeOK, NEW q \in Request, NEW step \in Steps, NEW f \in SUBSET Sid,
           GotoWith(q, step, f)
    PROVE  req' \in [Request -> RequestRecord]
BY RequestWrites, RequestFields DEF TypeOK, GotoWith

LEMMA AnsweredTyped ==
    ASSUME TypeOK, NEW q \in Request, NEW s \in Sid, NEW j \in 0 .. Len(issued), Answered(q, s, j)
    PROVE  req' \in [Request -> RequestRecord]
<1>1. [sid |-> s, iat |-> clock] \in Token
  BY DEF Token, TypeOK
<1>2. "answered" \in Steps
  BY DEF Steps
<1> QED
  BY <1>1, <1>2, RequestWrites, RequestFields DEF TypeOK, Answered

LEMMA FinishTyped ==
    ASSUME TypeOK, NEW q \in Request, Finish(q)
    PROVE  req' \in [Request -> RequestRecord]
<1>1. [Unsent EXCEPT !.at = "done"] \in RequestRecord
  BY UnsentTyped, RequestWrites DEF Steps
<1>2. [Unsent EXCEPT !.at = "done", !.kind = req[q].kind, !.jti = req[q].jti,
                     !.found = req[q].found] \in RequestRecord
  BY UnsentTyped, RequestFields DEF RequestRecord, Steps
<1> QED
  BY <1>1, <1>2 DEF TypeOK, Finish

LEMMA TypeInit == Init => TypeOK
<1> SUFFICES ASSUME Init PROVE TypeOK
  OBVIOUS
<1>1. Len(issued) = 0 /\ issued \in Seq(Sid) /\ 0 .. Len(issued) = {0}
  BY DEF Init
<1>2. Unsent \in RequestRecord
  BY <1>1 DEF Unsent, RequestRecord, Kinds, Steps, NoToken, Token
<1>3. Anonymous \in TabRecord
  BY DEF Anonymous, TabRecord, NoToken, Token
<1>4. sessions \in [Sid -> SessionRecord]
  BY <1>1 DEF Init, SessionRecord
<1> QED
  BY <1>1, <1>2, <1>3, <1>4 DEF Init, TypeOK

(* The steps that handle a request and issue no JTI. *)
Quiet == UNCHANGED <<SessionRecord, RequestRecord, TabRecord>>

LEMMA HandleTyped ==
    ASSUME TypeOK, HeldRows, NEW q \in Request, Handle(q) \/ Receive(q), UNCHANGED issued
    PROVE  TypeOK'
<1>0. /\ Len(issued) \in Nat /\ clock \in Nat
      /\ Quiet
  BY IssuedLength DEF TypeOK, Quiet, SessionRecord, RequestRecord, TabRecord
<1>1. CASE LookUp(q)
  <2>1. req' \in [Request -> RequestRecord]
    <3>1. CASE Goto(q, "unknown") \/ Goto(q, "refused")
      BY <3>1, GotoTyped DEF Steps
    <3>2. CASE \E s \in Sid : GotoWith(q, "held", {s})
      BY <3>2, FoundTyped DEF Steps
    <3> QED
      BY <1>1, <3>1, <3>2 DEF LookUp, WithJti, Minted
  <2>2. lock' \in [Sid -> Request \cup {NoSid}]
    BY <1>1 DEF LookUp, TypeOK
  <2> QED
    BY <1>0, <1>1, <2>1, <2>2 DEF LookUp, TypeOK, Quiet, redis, browsers
<1>2. CASE AskGrace(q)
  <2>1. req' \in [Request -> RequestRecord]
    <3>1. CASE GotoWith(q, "alarm", Active)
      BY <3>1, FoundTyped DEF Steps, Active
    <3>2. CASE \E g \in GraceOf(req[q].jti) :
                   GotoWith(q, "graced", {g.sid})
      <4>1. \A g \in GraceOf(req[q].jti) : {g.sid} \in SUBSET Sid
        BY DEF GraceOf, TypeOK
      <4> QED
        BY <3>2, <4>1, FoundTyped DEF Steps
    <3> QED
      BY <1>2, <3>1, <3>2 DEF AskGrace
  <2> QED
    BY <1>0, <1>2, <2>1 DEF AskGrace, TypeOK, Quiet, database, redis, browsers
<1>3. CASE Converge(q)
  <2>1. req' \in [Request -> RequestRecord]
    <3>1. PICK s \in req[q].found :
              Answered(q, s, sessions[s].jti) \/ Goto(q, "refused")
      BY <1>3 DEF Converge
    <3>2. s \in Sid /\ sessions[s].jti \in 0 .. Len(issued)
      BY <3>1, RequestFields DEF TypeOK, SessionRecord
    <3> QED
      BY <3>1, <3>2, AnsweredTyped, GotoTyped DEF Steps
  <2> QED
    BY <1>0, <1>3, <2>1 DEF Converge, TypeOK, Quiet, database, redis, browsers
<1>4. CASE PublishGrace(q)
  <2>1. req' \in [Request -> RequestRecord]
    BY <1>4, GotoTyped DEF PublishGrace, Steps
  <2>2. req[q].jti \in 1 .. Len(issued) /\ req[q].found \in SUBSET Sid
    <3>1. req[q].at \in {"held", "published"}
      BY <1>4 DEF PublishGrace
    <3>2. req[q].jti # 0
      BY <3>1 DEF HeldRows, HoldsRow
    <3> QED
      BY <1>0, <3>2, RequestFields
  <2>3. grace' \subseteq [jti : 1 .. Len(issued), sid : Sid]
    BY <1>4, <2>2 DEF PublishGrace, TypeOK
  <2> QED
    BY <1>0, <1>4, <2>1, <2>3 DEF PublishGrace, TypeOK, Quiet, database, browsers
<1>5. CASE FailRotation(q)
  <2>1. req' \in [Request -> RequestRecord]
    BY <1>5, GotoTyped DEF FailRotation, Steps
  <2>2. lock' \in [Sid -> Request \cup {NoSid}] /\ mishaps' \in Nat
    <3>1. PICK s : lock' = [lock EXCEPT ![s] = NoSid]
      BY <1>5 DEF FailRotation
    <3> QED
      <4>1. lock' \in [Sid -> Request \cup {NoSid}]
        BY <3>1 DEF TypeOK
      <4>2. mishaps' = mishaps + 1 /\ mishaps \in Nat
        BY <1>5 DEF FailRotation, TypeOK
      <4> QED
        BY <4>1, <4>2
  <2> QED
    BY <1>0, <1>5, <2>1, <2>2 DEF FailRotation, TypeOK, Quiet, redis, browsers
<1>6. CASE RaiseAlarm(q) \/ LogoutCommit(q) \/ ChangeCommit(q) \/ ResetCommit(q)
  <2>1. req' \in [Request -> RequestRecord]
    BY <1>6, GotoTyped DEF RaiseAlarm, LogoutCommit, ChangeCommit, ResetCommit, Steps
  <2>2. sessions' \in [Sid -> SessionRecord]
    <3>1. \A s \in Sid : [sessions[s] EXCEPT !.active = FALSE] \in SessionRecord
      BY DEF TypeOK, SessionRecord
    <3> QED
      BY <1>6, <3>1 DEF RaiseAlarm, LogoutCommit, ChangeCommit, ResetCommit, EndFound, TypeOK
  <2> QED
    BY <1>0, <1>6, <2>1, <2>2 DEF RaiseAlarm, LogoutCommit, ChangeCommit, ResetCommit,
                                  TypeOK, Quiet, redis, browsers
<1>7. CASE LogoutFind(q) \/ ChangeFind(q) \/ ResetFind(q)
  <2>1. req' \in [Request -> RequestRecord]
    <3>1. CASE \E step \in Steps, f \in SUBSET Sid :
                   GotoWith(q, step, f)
      BY <3>1, FoundTyped
    <3>2. CASE Finish(q)
      BY <3>2, FinishTyped
    <3>3. /\ Active \in SUBSET Sid /\ WithJti(req[q].jti) \cap Active \in SUBSET Sid
          /\ "listed" \in Steps /\ "answered" \in Steps
      BY DEF Active, Steps
    <3> QED
      BY <1>7, <3>1, <3>2, <3>3 DEF LogoutFind, ChangeFind, ResetFind
  <2> QED
    BY <1>0, <1>7, <2>1 DEF LogoutFind, ChangeFind, ResetFind, TypeOK, Quiet, database, redis, browsers
<1>8. CASE LogoutMark(q) \/ ChangeMark(q) \/ ResetMark(q)
  <2>1. req' \in [Request -> RequestRecord]
    BY <1>8, GotoTyped DEF LogoutMark, ChangeMark, ResetMark, Steps
  <2>2. revokedSid' \subseteq Sid /\ revokedAt' \in 0 .. clock
    <3>1. CASE LogoutMark(q) \/ ResetMark(q)
      BY <3>1, RequestFields DEF LogoutMark, ResetMark, TypeOK
    <3>2. CASE ChangeMark(q)
      BY <1>0, <3>2 DEF ChangeMark, TypeOK
    <3> QED
      BY <1>8, <3>1, <3>2
  <2> QED
    BY <1>0, <1>8, <2>1, <2>2 DEF LogoutMark, ChangeMark, ResetMark, TypeOK, Quiet, database, redis, browsers
<1>9. CASE Dropped(q) \/ Changed(q)
  BY <1>0, <1>9, FinishTyped DEF Dropped, Changed, TypeOK, Quiet, database, redis, browsers
<1>10. CASE SignedIn(q) \/ LoggedOut(q) \/ Expired(q)
  <2>1. req' \in [Request -> RequestRecord]
    BY <1>10, FinishTyped DEF SignedIn, LoggedOut, Expired
  <2>2. tab' \in [Tab -> TabRecord]
    <3>1. Anonymous \in TabRecord
      BY DEF Anonymous, TabRecord, NoToken, Token
    <3>2. CASE LoggedOut(q) \/ Expired(q)
      BY <3>1, <3>2 DEF LoggedOut, Expired, TypeOK
    <3>3. CASE SignedIn(q)
      <4> DEFINE new(t) == [access |-> req[q].token,
                            status |-> IF req[q].kind = "refresh" /\ t.status = "anonymous"
                                       THEN "anonymous" ELSE "authenticated"]
      <4>1. \A t : new(t) \in TabRecord
        BY RequestFields DEF TabRecord
      <4> QED
        BY <3>3, <4>1 DEF SignedIn, TypeOK
    <3> QED
      BY <1>10, <3>2, <3>3
  <2>3. cookie' \in [Browser -> 0 .. Len(issued)]
    <3>1. 0 \in 0 .. Len(issued) /\ req[q].jar \in 0 .. Len(issued)
      BY <1>0, RequestFields
    <3> QED
      BY <1>10, <3>1 DEF SignedIn, LoggedOut, Expired, TypeOK
  <2> QED
    BY <1>0, <1>10, <2>1, <2>2, <2>3 DEF SignedIn, LoggedOut, Expired, TypeOK, Quiet, database, redis, browsers
<1>11. ~CommitRotation(q) /\ ~Login(q) /\ ~ResetMint(q)
  BY DEF CommitRotation, Login, ResetMint, Mint, TypeOK
<1> QED
  BY <1>1, <1>2, <1>3, <1>4, <1>5, <1>6, <1>7, <1>8, <1>9, <1>10, <1>11 DEF Handle, Receive

(* The steps that issue a JTI, to a row they hold or to a new row. *)
LEMMA IssueTyped ==
    ASSUME TypeOK, NEW q \in Request, NEW s \in Sid,
           issued' = Append(issued, s),
           sessions' = [sessions EXCEPT ![s] = [jti |-> Len(issued'), active |-> sessions'[s].active]],
           sessions'[s].active \in BOOLEAN,
           lock' \in [Sid -> Request \cup {NoSid}],
           Answered(q, s, Len(issued')),
           UNCHANGED <<redis, clock, browsers, mishaps>>
    PROVE  TypeOK'
<1>1. SessionRecord \subseteq SessionRecord' /\ RequestRecord \subseteq RequestRecord' /\ TabRecord = TabRecord'
  BY IssueOne DEF SessionRecord, RequestRecord, TabRecord
<1>2. sessions' \in [Sid -> SessionRecord']
  <2>1. [jti |-> Len(issued'), active |-> sessions'[s].active] \in SessionRecord'
    BY IssueOne DEF SessionRecord
  <2> QED
    BY <1>1, <2>1 DEF TypeOK
<1>3. req' \in [Request -> RequestRecord']
  <2>1. req[q] \in RequestRecord' /\ "answered" \in Steps
    BY <1>1, RequestFields DEF Steps
  <2>2. [sid |-> s, iat |-> clock] \in Token /\ Len(issued') \in 0 .. Len(issued')
    BY IssueOne, IssuedLength DEF Token, TypeOK
  <2>3. [req[q] EXCEPT !.at = "answered", !.jar = Len(issued'),
                       !.token = [sid |-> s, iat |-> clock]] \in RequestRecord'
    BY <2>1, <2>2 DEF RequestRecord
  <2> QED
    BY <1>1, <2>3 DEF Answered, TypeOK
<1> QED
  BY <1>1, <1>2, <1>3, IssueOne DEF TypeOK, redis, browsers

LEMMA CommitRotationTyped ==
    ASSUME TypeOK, NEW q \in Request, CommitRotation(q)
    PROVE  TypeOK'
<1>1. PICK s \in req[q].found :
          /\ issued' = Append(issued, s)
          /\ sessions' = [sessions EXCEPT ![s].jti = Len(issued')]
          /\ lock' = [lock EXCEPT ![s] = NoSid]
          /\ Answered(q, s, Len(issued'))
  BY DEF CommitRotation
<1>2. s \in Sid
  BY RequestFields
<1>3. /\ sessions' = [sessions EXCEPT ![s] = [jti |-> Len(issued'), active |-> sessions'[s].active]]
      /\ sessions'[s].active \in BOOLEAN
  <2>1. sessions \in [Sid -> SessionRecord]
    BY DEF TypeOK
  <2>2. sessions' = [sessions EXCEPT ![s] = [sessions[s] EXCEPT !.jti = Len(issued')]]
    BY <1>1
  <2>3. /\ [sessions[s] EXCEPT !.jti = Len(issued')] =
             [jti |-> Len(issued'), active |-> sessions[s].active]
        /\ sessions[s].active \in BOOLEAN
    BY <1>2, <2>1 DEF SessionRecord
  <2>4. sessions'[s] = [jti |-> Len(issued'), active |-> sessions[s].active]
    BY <1>2, <2>1, <2>2, <2>3
  <2> QED
    BY <2>2, <2>3, <2>4
<1>4. lock' \in [Sid -> Request \cup {NoSid}]
  BY <1>1 DEF TypeOK
<1> QED
  BY <1>1, <1>2, <1>3, <1>4, IssueTyped DEF CommitRotation

LEMMA MintTyped ==
    ASSUME TypeOK, NEW q \in Request, Mint(q)
    PROVE  TypeOK'
<1>1. PICK s \in Sid \ Minted :
          /\ issued' = Append(issued, s)
          /\ sessions' = [sessions EXCEPT ![s] = [jti |-> Len(issued'), active |-> TRUE]]
          /\ Answered(q, s, Len(issued'))
  BY DEF Mint
<1>2. sessions'[s].active = TRUE
  BY <1>1 DEF TypeOK
<1>3. lock' \in [Sid -> Request \cup {NoSid}]
  BY DEF Mint, TypeOK
<1> QED
  BY <1>1, <1>2, <1>3, IssueTyped DEF Mint

LEMMA TypeStep ==
    ASSUME TypeOK, HeldRows, [Next]_vars
    PROVE  TypeOK'
<1>0. Len(issued) \in Nat
  BY IssuedLength
<1>1. CASE \E q \in Request, t \in Tab :
              SendRefresh(q, t) \/ SendFromForm(q, t) \/ SendFromSettings(q, t)
  <2>1. PICK q \in Request, t \in Tab, kind \in Kinds : Send(q, t, kind)
    BY <1>1 DEF SendRefresh, SendFromForm, SendFromSettings, SignedOutForms, Kinds
  <2> QED
    BY <2>1, SendTyped
<1>2. CASE \E t \in Tab : Reload(t) \/ RefreshWithoutCookie(t)
  <2>1. PICK t \in Tab : Reload(t) \/ RefreshWithoutCookie(t)
    BY <1>2
  <2>2. Quiet
    BY <2>1 DEF Reload, RefreshWithoutCookie, database, Quiet, SessionRecord, RequestRecord, TabRecord
  <2>3. /\ Anonymous \in TabRecord
        /\ [access |-> NoToken, status |-> "loading"] \in TabRecord
    BY DEF Anonymous, TabRecord, NoToken, Token
  <2>4. req' \in [Request -> RequestRecord]
    <3>1. CASE Reload(t)
      <4>1. \A q \in Request :
                [req[q] EXCEPT !.orphan = @ \/ (q \in InFlight /\ req[q].tab = t)] \in RequestRecord
        BY RequestFields DEF RequestRecord
      <4> QED
        BY <3>1, <4>1 DEF Reload
    <3>2. CASE RefreshWithoutCookie(t)
      BY <3>2 DEF RefreshWithoutCookie, TypeOK
    <3> QED
      BY <2>1, <3>1, <3>2
  <2> QED
    BY <2>1, <2>2, <2>3, <2>4 DEF Reload, RefreshWithoutCookie, TypeOK, Quiet, database, redis
<1>3. CASE \E q \in Request : Handle(q) \/ Receive(q)
  <2>1. PICK q \in Request : Handle(q) \/ Receive(q)
    BY <1>3
  <2>2. CASE UNCHANGED issued
    BY <2>1, <2>2, HandleTyped
  <2>3. CASE CommitRotation(q)
    BY <2>3, CommitRotationTyped
  <2>4. CASE Login(q) \/ ResetMint(q)
    BY <2>4, MintTyped DEF Login, ResetMint
  <2>5. UNCHANGED issued \/ CommitRotation(q) \/ Login(q) \/ ResetMint(q)
    BY <2>1 DEF Handle, Receive, database, LookUp, AskGrace, Converge, PublishGrace, FailRotation,
                RaiseAlarm, LogoutFind, LogoutCommit, LogoutMark, ChangeFind, ChangeCommit, ChangeMark,
                ResetFind, ResetMark, ResetCommit, Dropped, SignedIn, Expired, LoggedOut, Changed
  <2> QED
    BY <2>2, <2>3, <2>4, <2>5
<1>4. CASE Tick
  <2>1. Quiet /\ clock' \in Nat /\ 0 .. clock \subseteq 0 .. clock'
    BY <1>4 DEF Tick, TypeOK, Quiet, database, SessionRecord, RequestRecord, TabRecord
  <2> QED
    BY <1>4, <2>1 DEF Tick, TypeOK, Quiet, database, redis, browsers
<1>5. CASE \E g \in grace : GraceLapses(g)
  <2>1. Quiet
    BY <1>5 DEF GraceLapses, database, Quiet, SessionRecord, RequestRecord, TabRecord
  <2> QED
    BY <1>5, <2>1 DEF GraceLapses, TypeOK, Quiet, database, browsers
<1>6. CASE UNCHANGED vars
  <2>1. Quiet
    BY <1>6 DEF vars, database, Quiet, SessionRecord, RequestRecord, TabRecord
  <2> QED
    BY <1>6, <2>1 DEF vars, TypeOK, Quiet, database, redis, browsers
<1> QED
  BY <1>1, <1>2, <1>3, <1>4, <1>5, <1>6 DEF Next

-----------------------------------------------------------------------------
(* The row held by a refresh.                                              *)

Holding == {"held", "published"}

(* Nobody starts to hold a row, and the holders hold what they held. *)
HoldersKept ==
    \A p \in Request :
        req'[p].at \in Holding =>
            /\ req'[p].at = req[p].at
            /\ req'[p].found = req[p].found
            /\ req'[p].jti = req[p].jti

LEMMA OneStepKeepsHolders ==
    ASSUME TypeOK, NEW q \in Request
    PROVE  /\ \A step \in Steps \ Holding : Goto(q, step) => HoldersKept
           /\ \A step \in Steps \ Holding : \A f : GotoWith(q, step, f) => HoldersKept
           /\ \A s, j : Answered(q, s, j) => HoldersKept
           /\ Finish(q) => HoldersKept
<1>1. \A step \in Steps \ Holding : Goto(q, step) => HoldersKept
  <2> SUFFICES ASSUME NEW step \in Steps \ Holding, Goto(q, step) PROVE HoldersKept
    OBVIOUS
  <2>1. \A p \in Request \ {q} : req'[p] = req[p]
    BY DEF Goto, TypeOK
  <2>2. req'[q].at = step
    BY RequestFields DEF Goto, TypeOK, RequestRecord
  <2> QED
    BY <2>1, <2>2 DEF HoldersKept
<1>2. \A step \in Steps \ Holding : \A f : GotoWith(q, step, f) => HoldersKept
  <2> SUFFICES ASSUME NEW step \in Steps \ Holding, NEW f, GotoWith(q, step, f) PROVE HoldersKept
    OBVIOUS
  <2>1. \A p \in Request \ {q} : req'[p] = req[p]
    BY DEF GotoWith, TypeOK
  <2>2. req'[q].at = step
    BY RequestFields DEF GotoWith, TypeOK, RequestRecord
  <2> QED
    BY <2>1, <2>2 DEF HoldersKept
<1>3. \A s, j : Answered(q, s, j) => HoldersKept
  <2> SUFFICES ASSUME NEW s, NEW j, Answered(q, s, j) PROVE HoldersKept
    OBVIOUS
  <2>1. \A p \in Request \ {q} : req'[p] = req[p]
    BY DEF Answered, TypeOK
  <2>2. req'[q].at = "answered"
    BY RequestFields DEF Answered, TypeOK, RequestRecord
  <2> QED
    BY <2>1, <2>2 DEF HoldersKept, Holding
<1>4. Finish(q) => HoldersKept
  <2> SUFFICES ASSUME Finish(q) PROVE HoldersKept
    OBVIOUS
  <2>1. \A p \in Request \ {q} : req'[p] = req[p]
    BY DEF Finish, TypeOK
  <2>2. req'[q].at = "done"
    BY DEF Finish, TypeOK, Unsent
  <2> QED
    BY <2>1, <2>2 DEF HoldersKept, Holding
<1> QED
  BY <1>1, <1>2, <1>3, <1>4

(* Steps that leave the table and the grace keys alone. *)
Apart == HoldersKept /\ UNCHANGED <<sessions, lock, issued, grace, lapsed>>

LEMMA ApartKeepsInv ==
    ASSUME Inv, Apart
    PROVE  HeldRows' /\ RowsHoldTheirOwn' /\ SpentTokensResolve'
<1>1. HeldRows'
  BY ZenonT(30) DEF Inv, Apart, HoldersKept, Holding, HeldRows, HoldsRow
<1> QED
  BY <1>1 DEF Inv, Apart, RowsHoldTheirOwn, SpentTokensResolve

(* A row that someone ends is free: it is nobody's who holds one. *)
LEMMA EndKeepsInv ==
    ASSUME Inv, NEW q \in Request, EndFound(q), HoldersKept,
           UNCHANGED <<lock, issued, grace, lapsed>>
    PROVE  HeldRows' /\ RowsHoldTheirOwn' /\ SpentTokensResolve'
<1>1. \A s \in Sid : sessions'[s].jti = sessions[s].jti
  BY DEF Inv, TypeOK, SessionRecord, EndFound
<1>2. \A s \in Sid : ~Free(s) => sessions'[s] = sessions[s]
  BY DEF EndFound
<1>3. \A p \in Request, s \in Sid : lock[s] = p => ~Free(s)
  BY NoSidIsNobody DEF Free
<1>4. HeldRows'
  BY <1>2, <1>3, ZenonT(30) DEF Inv, HoldersKept, Holding, HeldRows, HoldsRow
<1>5. RowsHoldTheirOwn'
  BY <1>1 DEF Inv, RowsHoldTheirOwn
<1>6. SpentTokensResolve'
  <2>1. \A j \in 1 .. Len(issued) : issued[j] \in Sid
    BY DEF Inv, TypeOK
  <2> QED
    BY <1>1, <2>1 DEF Inv, SpentTokensResolve
<1> QED
  BY <1>4, <1>5, <1>6

(* Taking the row of the presented JTI. *)
LEMMA LookUpKeepsInv ==
    ASSUME Inv, NEW q \in Request, LookUp(q)
    PROVE  HeldRows' /\ RowsHoldTheirOwn' /\ SpentTokensResolve'
<1>0. TypeOK /\ req[q].at = "sent"
  BY DEF Inv, LookUp
<1>1. CASE (Goto(q, "unknown") \/ Goto(q, "refused")) /\ UNCHANGED lock
  <2>1. HoldersKept
    BY <1>0, <1>1, OneStepKeepsHolders DEF Steps, Holding
  <2> QED
    BY <1>1, <2>1, ApartKeepsInv DEF Apart, LookUp, redis
<1>2. CASE \E s \in WithJti(req[q].jti) :
              /\ Free(s) /\ sessions[s].active
              /\ lock' = [lock EXCEPT ![s] = q]
              /\ GotoWith(q, "held", {s})
  <2>1. PICK s \in Sid :
            /\ sessions[s].jti # 0 /\ sessions[s].jti = req[q].jti
            /\ Free(s) /\ sessions[s].active
            /\ lock' = [lock EXCEPT ![s] = q]
            /\ GotoWith(q, "held", {s})
    BY <1>2 DEF WithJti, Minted
  <2>2. UNCHANGED <<sessions, issued, grace, lapsed>>
    BY DEF LookUp, redis
  <2>3. \A p \in Request \ {q} : req'[p] = req[p]
    BY <1>0, <2>1 DEF GotoWith, TypeOK
  <2>4. req'[q].at = "held" /\ req'[q].found = {s} /\ req'[q].jti = req[q].jti
    BY <1>0, <2>1, RequestFields DEF GotoWith, TypeOK, RequestRecord
  <2>5. lock'[s] = q /\ \A r \in Sid \ {s} : lock'[r] = lock[r]
    BY <1>0, <2>1 DEF TypeOK
  <2>6. sessions[s] = [jti |-> req[q].jti, active |-> TRUE]
    BY <1>0, <2>1 DEF TypeOK, SessionRecord
  <2>7. HoldsRow(q, s)'
    BY <2>1, <2>2, <2>4, <2>5, <2>6 DEF HoldsRow
  <2>8. \A p \in Request \ {q} : req'[p].at \in Holding => \E r \in Sid : HoldsRow(p, r)'
    <3> SUFFICES ASSUME NEW p \in Request \ {q}, req[p].at \in Holding
                 PROVE  \E r \in Sid : HoldsRow(p, r)'
      BY <2>3
    <3>1. PICK r \in Sid : HoldsRow(p, r)
      BY DEF Inv, HeldRows, Holding
    <3>2. r # s
      BY <2>1, <3>1, NoSidIsNobody DEF HoldsRow, Free
    <3> QED
      BY <2>2, <2>3, <2>5, <3>1, <3>2 DEF HoldsRow
  <2>9. HeldRows'
    BY <2>7, <2>8 DEF HeldRows, Holding
  <2> QED
    BY <2>2, <2>9 DEF Inv, RowsHoldTheirOwn, SpentTokensResolve
<1> QED
  BY <1>1, <1>2 DEF LookUp

LEMMA PublishKeepsInv ==
    ASSUME Inv, NEW q \in Request, PublishGrace(q)
    PROVE  HeldRows' /\ RowsHoldTheirOwn' /\ SpentTokensResolve'
<1>0. TypeOK /\ req[q].at = "held"
  BY DEF Inv, PublishGrace
<1>1. PICK s \in Sid : HoldsRow(q, s)
  BY <1>0 DEF Inv, HeldRows
<1> DEFINE j == req[q].jti
<1>2. /\ grace' = grace \cup {[jti |-> j, sid |-> s]}
      /\ lapsed' = lapsed \ {j}
      /\ UNCHANGED <<sessions, lock, issued>>
  BY <1>1 DEF PublishGrace, HoldsRow, database
<1>3. issued[j] = s
  BY <1>1 DEF Inv, RowsHoldTheirOwn, HoldsRow
<1>4. \A p \in Request \ {q} : req'[p] = req[p]
  BY <1>0 DEF PublishGrace, Goto, TypeOK
<1>5. req'[q].at = "published" /\ req'[q].found = req[q].found /\ req'[q].jti = j
  BY <1>0, RequestFields DEF PublishGrace, Goto, TypeOK, RequestRecord
<1> HIDE DEF j
<1>6. HoldsRow(q, s)'
  BY <1>1, <1>2, <1>5 DEF HoldsRow, j
<1>7. \A p \in Request \ {q} : req'[p].at \in Holding => \E r \in Sid : HoldsRow(p, r)'
  <2> SUFFICES ASSUME NEW p \in Request \ {q}, req[p].at \in Holding
               PROVE  \E r \in Sid : HoldsRow(p, r)'
    BY <1>4
  <2>1. PICK r \in Sid : HoldsRow(p, r)
    BY DEF Inv, HeldRows, Holding
  <2>2. req[p].jti # j
    BY <1>1, <1>3, <2>1 DEF HoldsRow, Inv, RowsHoldTheirOwn, j
  <2> QED
    BY <1>2, <1>4, <2>1, <2>2 DEF HoldsRow
<1>8. HeldRows'
  BY <1>6, <1>7 DEF HeldRows, Holding
<1>9. SpentTokensResolve'
  BY <1>2, <1>3 DEF Inv, SpentTokensResolve
<1> QED
  BY <1>2, <1>8, <1>9 DEF Inv, RowsHoldTheirOwn

(* A JTI is issued to s: everyone who holds another row keeps it. *)
LEMMA IssueKeepsInv ==
    ASSUME Inv, TypeOK', NEW q \in Request, NEW s \in Sid,
           issued' = Append(issued, s),
           sessions'[s].jti = Len(issued'),
           \A r \in Sid \ {s} : sessions'[r] = sessions[r] /\ lock'[r] = lock[r],
           req'[q].at \notin Holding, HoldersKept,
           \A p \in Request \ {q} : ~HoldsRow(p, s),
           \A j \in 1 .. Len(issued) : issued[j] = s =>
               sessions[s].jti # j \/ [jti |-> j, sid |-> s] \in grace \/ j \in lapsed,
           UNCHANGED <<grace, lapsed>>
    PROVE  HeldRows' /\ RowsHoldTheirOwn' /\ SpentTokensResolve'
<1>0. TypeOK /\ Len(issued) \in Nat
  BY IssuedLength DEF Inv
<1>1. HeldRows'
  <2> SUFFICES ASSUME NEW p \in Request, req'[p].at \in Holding
               PROVE  \E r \in Sid : HoldsRow(p, r)'
    BY DEF HeldRows, Holding
  <2>1. p # q /\ req'[p].at = req[p].at /\ req'[p].found = req[p].found /\ req'[p].jti = req[p].jti
    BY DEF HoldersKept
  <2>2. PICK r \in Sid : HoldsRow(p, r)
    BY <2>1 DEF Inv, HeldRows, Holding
  <2>3. r # s
    BY <2>1, <2>2
  <2> QED
    BY <2>1, <2>2, <2>3 DEF HoldsRow
<1>2. RowsHoldTheirOwn'
  <2> SUFFICES ASSUME NEW r \in Sid, sessions'[r].jti # 0
               PROVE  issued'[sessions'[r].jti] = r
    BY DEF RowsHoldTheirOwn
  <2>1. CASE r = s
    BY <1>0, <2>1, IssueOne
  <2>2. CASE r # s
    <3>1. sessions[r].jti \in 1 .. Len(issued) /\ issued[sessions[r].jti] = r
      BY <1>0, <2>2 DEF Inv, TypeOK, SessionRecord, RowsHoldTheirOwn
    <3> QED
      BY <1>0, <2>2, <3>1, IssueOne
  <2> QED
    BY <2>1, <2>2
<1>3. SpentTokensResolve'
  <2> SUFFICES ASSUME NEW j \in 1 .. Len(issued')
               PROVE  \/ sessions'[issued'[j]].jti = j
                      \/ [jti |-> j, sid |-> issued'[j]] \in grace
                      \/ j \in lapsed
    BY DEF SpentTokensResolve
  <2>1. CASE j = Len(issued')
    BY <1>0, <2>1, IssueOne
  <2>2. CASE j \in 1 .. Len(issued)
    <3>1. issued'[j] = issued[j] /\ issued[j] \in Sid
      BY <1>0, <2>2, IssueOne DEF TypeOK
    <3>2. CASE issued[j] = s
      BY <2>2, <3>1, <3>2 DEF Inv, SpentTokensResolve
    <3>3. CASE issued[j] # s
      BY <2>2, <3>1, <3>3 DEF Inv, SpentTokensResolve
    <3> QED
      BY <3>2, <3>3
  <2> QED
    BY <1>0, <2>1, <2>2, IssueOne
<1> QED
  BY <1>1, <1>2, <1>3

(* The rotation may forget the JTI it spends: its grace key is published.  *)
LEMMA CommitKeepsInv ==
    ASSUME Inv, TypeOK', NEW q \in Request, CommitRotation(q)
    PROVE  HeldRows' /\ RowsHoldTheirOwn' /\ SpentTokensResolve'
<1>0. TypeOK /\ req[q].at = "published"
  BY DEF Inv, CommitRotation
<1>1. PICK s \in Sid : HoldsRow(q, s)
  BY <1>0 DEF Inv, HeldRows
<1>2. /\ issued' = Append(issued, s)
      /\ sessions' = [sessions EXCEPT ![s].jti = Len(issued')]
      /\ lock' = [lock EXCEPT ![s] = NoSid]
      /\ Answered(q, s, Len(issued'))
  BY <1>1 DEF CommitRotation, HoldsRow
<1>3. /\ sessions'[s].jti = Len(issued')
      /\ \A r \in Sid \ {s} : sessions'[r] = sessions[r] /\ lock'[r] = lock[r]
  <2>1. sessions \in [Sid -> SessionRecord] /\ lock \in [Sid -> Request \cup {NoSid}]
    BY <1>0 DEF TypeOK
  <2>2. [sessions[s] EXCEPT !.jti = Len(issued')].jti = Len(issued')
    BY <2>1 DEF SessionRecord
  <2> QED
    BY <1>2, <2>1, <2>2
<1>4. HoldersKept
  BY <1>0, <1>2, OneStepKeepsHolders
<1>5. req'[q].at \notin Holding
  <2>1. req'[q].at = "answered"
    BY <1>0, <1>2, RequestFields DEF Answered, TypeOK, RequestRecord
  <2> QED
    BY <2>1 DEF Holding
<1>6. \A p \in Request \ {q} : ~HoldsRow(p, s)
  BY <1>1 DEF HoldsRow
<1>7. \A j \in 1 .. Len(issued) : issued[j] = s =>
          sessions[s].jti # j \/ [jti |-> j, sid |-> s] \in grace \/ j \in lapsed
  BY <1>0, <1>1 DEF HoldsRow
<1>8. UNCHANGED <<grace, lapsed>>
  BY DEF CommitRotation, redis
<1> QED
  BY <1>2, <1>3, <1>4, <1>5, <1>6, <1>7, <1>8, IssueKeepsInv

LEMMA FailKeepsInv ==
    ASSUME Inv, NEW q \in Request, FailRotation(q)
    PROVE  HeldRows' /\ RowsHoldTheirOwn' /\ SpentTokensResolve'
<1>0. TypeOK /\ req[q].at = "published"
  BY DEF Inv, FailRotation
<1>1. PICK s \in Sid : HoldsRow(q, s)
  BY <1>0 DEF Inv, HeldRows
<1>2. /\ lock' = [lock EXCEPT ![s] = NoSid]
      /\ UNCHANGED <<sessions, issued, grace, lapsed>>
  BY <1>1 DEF FailRotation, HoldsRow, redis
<1>3. \A p \in Request \ {q} : req'[p] = req[p]
  BY <1>0 DEF FailRotation, Goto, TypeOK
<1>4. req'[q].at = "refused"
  BY <1>0, RequestFields DEF FailRotation, Goto, TypeOK, RequestRecord
<1>5. HeldRows'
  <2> SUFFICES ASSUME NEW p \in Request, req'[p].at \in Holding
               PROVE  \E r \in Sid : HoldsRow(p, r)'
    BY DEF HeldRows, Holding
  <2>1. p # q /\ req'[p] = req[p]
    BY <1>3, <1>4 DEF Holding
  <2>2. PICK r \in Sid : HoldsRow(p, r)
    BY <2>1 DEF Inv, HeldRows, Holding
  <2>3. r # s /\ lock'[r] = lock[r]
    BY <1>0, <1>1, <1>2, <2>1, <2>2 DEF HoldsRow, TypeOK
  <2> QED
    BY <1>2, <2>1, <2>2, <2>3 DEF HoldsRow
<1> QED
  BY <1>2, <1>5 DEF Inv, RowsHoldTheirOwn, SpentTokensResolve

(* A new row is nobody's. *)
LEMMA MintKeepsInv ==
    ASSUME Inv, TypeOK', NEW q \in Request, Mint(q)
    PROVE  HeldRows' /\ RowsHoldTheirOwn' /\ SpentTokensResolve'
<1>0. TypeOK
  BY DEF Inv
<1>1. PICK s \in Sid \ Minted :
          /\ issued' = Append(issued, s)
          /\ sessions' = [sessions EXCEPT ![s] = [jti |-> Len(issued'), active |-> TRUE]]
          /\ Answered(q, s, Len(issued'))
  BY DEF Mint
<1>2. sessions[s].jti = 0
  BY <1>1 DEF Minted
<1>3. /\ sessions'[s].jti = Len(issued')
      /\ \A r \in Sid \ {s} : sessions'[r] = sessions[r] /\ lock'[r] = lock[r]
  BY <1>0, <1>1 DEF Mint, TypeOK
<1>4. HoldersKept
  BY <1>0, <1>1, OneStepKeepsHolders
<1>5. req'[q].at \notin Holding
  <2>1. req'[q].at = "answered"
    BY <1>0, <1>1, RequestFields DEF Answered, TypeOK, RequestRecord
  <2> QED
    BY <2>1 DEF Holding
<1>6. \A p \in Request \ {q} : ~HoldsRow(p, s)
  BY <1>2 DEF HoldsRow
<1>7. \A j \in 1 .. Len(issued) : issued[j] = s =>
          sessions[s].jti # j \/ [jti |-> j, sid |-> s] \in grace \/ j \in lapsed
  BY <1>0, <1>2, IssuedLength
<1>8. UNCHANGED <<grace, lapsed>>
  BY DEF Mint, redis
<1> QED
  BY <1>1, <1>3, <1>4, <1>5, <1>6, <1>7, <1>8, IssueKeepsInv

(* A key that expires is remembered as expired. *)
LEMMA LapseKeepsInv ==
    ASSUME Inv, NEW g \in grace, GraceLapses(g)
    PROVE  HeldRows' /\ RowsHoldTheirOwn' /\ SpentTokensResolve'
<1>1. grace' = grace \ {g} /\ lapsed' = lapsed \cup {g.jti} /\ UNCHANGED <<sessions, lock, issued, req>>
  BY DEF GraceLapses, database
<1>2. \A j, s : [jti |-> j, sid |-> s] \in grace \/ j \in lapsed =>
                [jti |-> j, sid |-> s] \in grace' \/ j \in lapsed'
  BY <1>1
<1>3. HeldRows'
  BY <1>1, <1>2 DEF Inv, HeldRows, HoldsRow
<1>4. SpentTokensResolve'
  BY <1>1, <1>2 DEF Inv, SpentTokensResolve
<1> QED
  BY <1>1, <1>3, <1>4 DEF Inv, RowsHoldTheirOwn

(* Every other step is apart from the table, or ends sessions. *)
LEMMA HandleApart ==
    ASSUME TypeOK, NEW q \in Request,
           \/ AskGrace(q) \/ Converge(q) \/ Receive(q)
           \/ LogoutFind(q) \/ LogoutMark(q) \/ ChangeFind(q) \/ ChangeMark(q)
           \/ ResetFind(q) \/ ResetMark(q)
    PROVE  Apart
<1>1. HoldersKept
  <2>1. /\ {"unsent", "sent", "unknown", "graced", "alarm", "listed", "marked", "ended",
             "answered", "refused", "done"} \subseteq Steps \ Holding
    BY DEF Steps, Holding
  <2>2. CASE AskGrace(q) \/ Converge(q)
    BY <2>1, <2>2, OneStepKeepsHolders DEF AskGrace, Converge
  <2>3. CASE LogoutFind(q) \/ ChangeFind(q) \/ ResetFind(q)
    BY <2>1, <2>3, OneStepKeepsHolders DEF LogoutFind, ChangeFind, ResetFind
  <2>4. CASE LogoutMark(q) \/ ChangeMark(q) \/ ResetMark(q)
    BY <2>1, <2>4, OneStepKeepsHolders DEF LogoutMark, ChangeMark, ResetMark
  <2>5. CASE Receive(q)
    BY <2>5, OneStepKeepsHolders DEF Receive, Dropped, SignedIn, Expired, LoggedOut, Changed
  <2> QED
    BY <2>2, <2>3, <2>4, <2>5
<1> QED
  BY <1>1 DEF Apart, AskGrace, Converge, LogoutFind, LogoutMark, ChangeFind, ChangeMark, ResetFind,
              ResetMark, Receive, Dropped, SignedIn, Expired, LoggedOut, Changed, database, redis

LEMMA ElsewhereApart ==
    ASSUME TypeOK,
           \/ \E q \in Request, t \in Tab :
                  SendRefresh(q, t) \/ SendFromForm(q, t) \/ SendFromSettings(q, t)
           \/ \E t \in Tab : Reload(t) \/ RefreshWithoutCookie(t)
           \/ Tick
           \/ UNCHANGED vars
    PROVE  Apart
<1>1. CASE \E q \in Request, t \in Tab :
              SendRefresh(q, t) \/ SendFromForm(q, t) \/ SendFromSettings(q, t)
  <2>1. PICK q \in Request, t \in Tab, kind \in Kinds : Send(q, t, kind)
    BY <1>1 DEF SendRefresh, SendFromForm, SendFromSettings, SignedOutForms, Kinds
  <2>2. \A p \in Request \ {q} : req'[p] = req[p]
    BY <2>1 DEF Send, TypeOK
  <2>3. req'[q].at = "sent"
    BY <2>1 DEF Send, TypeOK
  <2> QED
    BY <2>1, <2>2, <2>3 DEF Apart, HoldersKept, Holding, Send, database, redis
<1>2. CASE \E t \in Tab : Reload(t) \/ RefreshWithoutCookie(t)
  <2>1. PICK t \in Tab : Reload(t) \/ RefreshWithoutCookie(t)
    BY <1>2
  <2>2. HoldersKept
    <3>1. CASE Reload(t)
      <4>1. \A p \in Request : /\ req'[p].at = req[p].at /\ req'[p].found = req[p].found
                               /\ req'[p].jti = req[p].jti
        BY <3>1, RequestFields DEF Reload, RequestRecord
      <4> QED
        BY <4>1 DEF HoldersKept
    <3>2. CASE RefreshWithoutCookie(t)
      BY <3>2 DEF RefreshWithoutCookie, HoldersKept
    <3> QED
      BY <2>1, <3>1, <3>2
  <2> QED
    BY <2>1, <2>2 DEF Apart, Reload, RefreshWithoutCookie, database, redis
<1>3. CASE Tick
  BY <1>3 DEF Tick, Apart, HoldersKept, database, redis
<1>4. CASE UNCHANGED vars
  BY <1>4 DEF vars, Apart, HoldersKept, database, redis
<1> QED
  BY <1>1, <1>2, <1>3, <1>4

LEMMA InvInit == Init => Inv
<1> SUFFICES ASSUME Init PROVE Inv
  OBVIOUS
<1>1. TypeOK
  BY TypeInit
<1>2. HeldRows
  BY DEF Init, HeldRows, Unsent
<1>3. RowsHoldTheirOwn /\ SpentTokensResolve
  BY DEF Init, RowsHoldTheirOwn, SpentTokensResolve
<1> QED
  BY <1>1, <1>2, <1>3 DEF Inv

LEMMA InvStep == Inv /\ [Next]_vars => Inv'
<1> SUFFICES ASSUME Inv, [Next]_vars PROVE Inv'
  OBVIOUS
<1>0. TypeOK /\ TypeOK'
  BY TypeStep DEF Inv
<1>1. CASE \E q \in Request : Handle(q) \/ Receive(q)
  <2>1. PICK q \in Request : Handle(q) \/ Receive(q)
    BY <1>1
  <2>2. CASE LookUp(q)
    BY <1>0, <2>2, LookUpKeepsInv DEF Inv
  <2>3. CASE PublishGrace(q)
    BY <1>0, <2>3, PublishKeepsInv DEF Inv
  <2>4. CASE CommitRotation(q)
    BY <1>0, <2>4, CommitKeepsInv DEF Inv
  <2>5. CASE FailRotation(q)
    BY <1>0, <2>5, FailKeepsInv DEF Inv
  <2>6. CASE Login(q) \/ ResetMint(q)
    BY <1>0, <2>6, MintKeepsInv DEF Inv, Login, ResetMint
  <2>7. CASE RaiseAlarm(q) \/ LogoutCommit(q) \/ ChangeCommit(q) \/ ResetCommit(q)
    <3>1. HoldersKept
      BY <1>0, <2>7, OneStepKeepsHolders
         DEF RaiseAlarm, LogoutCommit, ChangeCommit, ResetCommit, Steps, Holding
    <3>2. EndFound(q) /\ UNCHANGED <<lock, issued, grace, lapsed>>
      BY <2>7 DEF RaiseAlarm, LogoutCommit, ChangeCommit, ResetCommit, redis
    <3> QED
      BY <1>0, <3>1, <3>2, EndKeepsInv DEF Inv
  <2>8. CASE \/ AskGrace(q) \/ Converge(q) \/ Receive(q)
             \/ LogoutFind(q) \/ LogoutMark(q) \/ ChangeFind(q) \/ ChangeMark(q)
             \/ ResetFind(q) \/ ResetMark(q)
    <3>1. Apart
      BY <1>0, <2>8, HandleApart
    <3> QED
      BY <1>0, <3>1, ApartKeepsInv DEF Inv
  <2> QED
    BY <2>1, <2>2, <2>3, <2>4, <2>5, <2>6, <2>7, <2>8 DEF Handle
<1>2. CASE \E g \in grace : GraceLapses(g)
  BY <1>0, <1>2, LapseKeepsInv DEF Inv
<1>3. CASE \/ \E q \in Request, t \in Tab :
                  SendRefresh(q, t) \/ SendFromForm(q, t) \/ SendFromSettings(q, t)
           \/ \E t \in Tab : Reload(t) \/ RefreshWithoutCookie(t)
           \/ Tick
           \/ UNCHANGED vars
  <2>1. Apart
    BY <1>0, <1>3, ElsewhereApart
  <2> QED
    BY <1>0, <2>1, ApartKeepsInv DEF Inv
<1> QED
  BY <1>1, <1>2, <1>3 DEF Next

-----------------------------------------------------------------------------
(* The inductive invariant: types, what the holder of a row knows of it,   *)
(* whose a JTI is, and that every JTI resolves.                            *)
THEOREM InvHolds == Spec => []Inv
<1> QED
  BY InvInit, InvStep, PTL DEF Spec

(* A refresh JTI that was ever handed out resolves until its grace key has *)
(* expired, at every step of every rotation (auth_service.py:179-193).     *)
THEOREM SpentTokensResolveHolds == Spec => []SpentTokensResolve
<1>1. Inv => SpentTokensResolve
  BY DEF Inv
<1> QED
  BY <1>1, InvHolds, PTL

(* An ended session stays as it was when it ended: the rotation that found *)
(* it alive holds its row, and whoever ends it waits for that row          *)
(* (auth_service.py:129, 152-177).                                         *)
THEOREM EndedStaysEndedHolds == Spec => EndedStaysEnded
<1>1. ASSUME Inv, [Next]_vars
      PROVE  [\A s \in Minted : ~sessions[s].active => sessions'[s] = sessions[s]]_vars
  <2> SUFFICES ASSUME Next, NEW s \in Minted, ~sessions[s].active
               PROVE  sessions'[s] = sessions[s]
    BY <1>1
  <2>0. TypeOK /\ s \in Sid
    BY <1>1 DEF Inv, Minted
  <2>1. CASE UNCHANGED sessions
    BY <2>1
  <2>2. CASE \E q \in Request : EndFound(q)
    <3>1. sessions[s] \in SessionRecord
      BY <2>0 DEF TypeOK
    <3>2. [sessions[s] EXCEPT !.active = FALSE] = sessions[s]
      BY <3>1 DEF SessionRecord
    <3> QED
      BY <2>0, <2>2, <3>2 DEF EndFound
  <2>3. CASE \E q \in Request : Mint(q)
    BY <2>0, <2>3 DEF Mint, TypeOK
  <2>4. CASE \E q \in Request : CommitRotation(q)
    <3>1. PICK q \in Request : CommitRotation(q)
      BY <2>4
    <3>2. PICK r \in Sid : HoldsRow(q, r)
      BY <1>1, <3>1 DEF Inv, HeldRows, CommitRotation
    <3>3. r # s /\ \A u \in Sid \ {r} : sessions'[u] = sessions[u]
      BY <2>0, <3>1, <3>2 DEF CommitRotation, HoldsRow, TypeOK
    <3> QED
      BY <2>0, <3>3
  <2>5. ASSUME NEW q \in Request, Handle(q)
        PROVE  EndFound(q) \/ Mint(q) \/ CommitRotation(q) \/ UNCHANGED sessions
    BY <2>5
       DEF Handle, database, LookUp, AskGrace, Converge, PublishGrace, FailRotation, RaiseAlarm,
           Login, LogoutFind, LogoutCommit, LogoutMark, ChangeFind, ChangeCommit, ChangeMark, ResetFind,
           ResetMark, ResetCommit, ResetMint
  <2>6. ASSUME NEW q \in Request, Receive(q) PROVE UNCHANGED sessions
    BY <2>6 DEF Receive, Dropped, SignedIn, Expired, LoggedOut, Changed, database
  <2> QED
    BY <1>1, <2>1, <2>2, <2>3, <2>4, <2>5, <2>6
       DEF Next, database, SendRefresh, SendFromForm, SendFromSettings, Send, Reload,
           RefreshWithoutCookie, Tick, GraceLapses
<1> QED
  BY <1>1, InvHolds, PTL DEF Spec, EndedStaysEnded

(* Types, for every number of browsers, tabs, sessions and requests. *)
THEOREM AuthTypeCorrect == Spec => []TypeOK
<1>1. Inv => TypeOK
  BY DEF Inv
<1> QED
  BY <1>1, InvHolds, PTL

-----------------------------------------------------------------------------
(* What the requests that end sessions know of the sessions they found.    *)

Ending == {"logout", "change", "reset"}

(* The sessions were minted; once ended they are not alive, and the marker *)
(* of each kind is there from the step that sets it: the ids of a logout   *)
(* (after its commit) and of a reset (before), the date of a change.       *)
EndsWhatItFound(q) ==
    LET found == req[q].found
        kind == req[q].kind
        step == req[q].at
    IN  /\ step \in {"unsent", "sent"} => found = {}
        /\ step = "marked" => kind = "reset"
        /\ kind \in Ending =>
             /\ step \in {"sent", "listed", "marked", "ended", "answered", "done"}
             /\ found \subseteq Minted
             /\ step \in {"ended", "answered", "done"} => found \cap Active = {}
             /\ kind = "logout" /\ step \in {"answered", "done"} => found \subseteq revokedSid
             /\ kind = "reset" /\ step \in {"marked", "ended", "answered", "done"} =>
                  found \subseteq revokedSid
             /\ kind = "change" /\ step \in {"answered", "done"} =>
                  \A s \in found : \A tok \in Outstanding : tok.sid = s => tok.iat <= revokedAt

(* No token is from the future. *)
TokensArePast == \A tok \in Outstanding : tok.iat <= clock

EndInv ==
    /\ Inv
    /\ Active \subseteq Minted
    /\ \A q \in Request : EndsWhatItFound(q)
    /\ TokensArePast

LEMMA EndInvImplies == EndInv => EndedMeansRefused
<1> SUFFICES ASSUME EndInv, NEW q \in Request, req[q].kind \in Ending,
                    req[q].at \in {"answered", "done"}, NEW s \in req[q].found
             PROVE  /\ ~sessions[s].active
                    /\ \A tok \in Outstanding : tok.sid = s => ~Accepts(tok)
  BY DEF EndedMeansRefused, Ending
<1>1. EndsWhatItFound(q)
  BY DEF EndInv
<1>2. s \in Sid /\ s \notin Active
  BY <1>1, RequestFields DEF EndInv, Inv, EndsWhatItFound
<1>3. ASSUME NEW tok \in Outstanding, tok.sid = s PROVE ~Accepts(tok)
  <2>1. s \in revokedSid \/ tok.iat <= revokedAt
    BY <1>1, <1>3 DEF EndsWhatItFound, Ending
  <2> QED
    BY <1>3, <2>1 DEF Accepts
<1> QED
  BY <1>2, <1>3 DEF Active

(* What one step of a request writes, and that it writes to no other.      *)
LEMMA StepWrites ==
    ASSUME TypeOK, NEW q \in Request
    PROVE  /\ \A step : Goto(q, step) =>
                  /\ req'[q].at = step /\ req'[q].kind = req[q].kind
                  /\ req'[q].found = req[q].found /\ req'[q].token = req[q].token
           /\ \A step, f : GotoWith(q, step, f) =>
                  /\ req'[q].at = step /\ req'[q].kind = req[q].kind
                  /\ req'[q].found = f /\ req'[q].token = req[q].token
           /\ \A s, j : Answered(q, s, j) =>
                  /\ req'[q].at = "answered" /\ req'[q].kind = req[q].kind
                  /\ req'[q].found = req[q].found
                  /\ req'[q].token = [sid |-> s, iat |-> clock]
           /\ Finish(q) =>
                  /\ req'[q].at = "done"
                  /\ \/ req'[q].kind = req[q].kind /\ req'[q].found = req[q].found
                     \/ req'[q].kind = "none"
<1>0. req \in [Request -> RequestRecord] /\ req[q] \in RequestRecord
  BY RequestFields DEF TypeOK
<1>1. \A step : Goto(q, step) =>
          /\ req'[q].at = step /\ req'[q].kind = req[q].kind
          /\ req'[q].found = req[q].found /\ req'[q].token = req[q].token
  BY <1>0 DEF Goto, RequestRecord
<1>2. \A step, f : GotoWith(q, step, f) =>
          /\ req'[q].at = step /\ req'[q].kind = req[q].kind
          /\ req'[q].found = f /\ req'[q].token = req[q].token
  BY <1>0 DEF GotoWith, RequestRecord
<1>3. \A s, j : Answered(q, s, j) =>
          /\ req'[q].at = "answered" /\ req'[q].kind = req[q].kind
          /\ req'[q].found = req[q].found
          /\ req'[q].token = [sid |-> s, iat |-> clock]
  BY <1>0 DEF Answered, RequestRecord
<1>4. Finish(q) =>
          /\ req'[q].at = "done"
          /\ \/ req'[q].kind = req[q].kind /\ req'[q].found = req[q].found
             \/ req'[q].kind = "none"
  BY <1>0 DEF Finish, RequestRecord, Unsent
<1> QED
  BY <1>1, <1>2, <1>3, <1>4

LEMMA OthersUntouched ==
    ASSUME TypeOK, NEW q \in Request, NEW p \in Request \ {q}
    PROVE  /\ \A step : Goto(q, step) => req'[p] = req[p]
           /\ \A step, f : GotoWith(q, step, f) => req'[p] = req[p]
           /\ \A s, j : Answered(q, s, j) => req'[p] = req[p]
           /\ Finish(q) => req'[p] = req[p]
<1>0. req \in [Request -> RequestRecord]
  BY DEF TypeOK
<1> QED
  BY <1>0 DEF Goto, GotoWith, Answered, Finish

(* Rows are not unminted, an ended session does not come back, markers and *)
(* time only go forward.                                                   *)
Forward ==
    /\ Minted \subseteq Minted'
    /\ Minted \cap Active' \subseteq Active
    /\ Active' \subseteq Active \cup Minted'
    /\ revokedSid \subseteq revokedSid'
    /\ revokedAt <= revokedAt' /\ clock <= clock'

(* A token that was not there is a token of a session that is alive, or of *)
(* one that is minted in this very step.                                   *)
TokensAreFresh ==
    \A tok \in Outstanding' :
        \/ tok \in Outstanding
        \/ tok = NoToken
        \/ tok.iat = clock /\ tok.sid \notin Minted \ Active

LEMMA TokensTyped == ASSUME TypeOK PROVE Outstanding \subseteq Token
BY RequestFields DEF Outstanding, TypeOK, TabRecord, InFlight

LEMMA EndsKept ==
    ASSUME TypeOK, TypeOK', Forward, TokensAreFresh, NEW q \in Request, EndsWhatItFound(q),
           req'[q].kind = req[q].kind, req'[q].at = req[q].at, req'[q].found = req[q].found
    PROVE  EndsWhatItFound(q)'
<1>1. ASSUME req[q].kind = "change", req[q].at \in {"answered", "done"},
             NEW s \in req[q].found, NEW tok \in Outstanding', tok.sid = s
      PROVE  tok.iat <= revokedAt'
  <2>0. s \in Minted \ Active /\ s # NoSid
    BY <1>1, NoSidIsNobody DEF EndsWhatItFound, Ending, Minted
  <2>1. tok \in Outstanding
    BY <1>1, <2>0 DEF TokensAreFresh, NoToken
  <2>2. tok.iat <= revokedAt
    BY <1>1, <2>1 DEF EndsWhatItFound, Ending
  <2>3. tok.iat \in Nat /\ revokedAt \in Nat /\ revokedAt' \in Nat
    BY <2>1, TokensTyped DEF Token, TypeOK
  <2> QED
    BY <2>2, <2>3 DEF Forward
<1>2. req[q].kind \in Ending => req[q].found \subseteq Minted' /\ (req[q].found \cap Active = {} => req[q].found \cap Active' = {})
  BY DEF EndsWhatItFound, Forward
<1>3. revokedSid \subseteq revokedSid'
  BY DEF Forward
<1> QED
  BY <1>1, <1>2, <1>3 DEF EndsWhatItFound

LEMMA PastKept ==
    ASSUME TypeOK, TypeOK', Forward, TokensAreFresh, TokensArePast
    PROVE  TokensArePast'
<1> SUFFICES ASSUME NEW tok \in Outstanding' PROVE tok.iat <= clock'
  BY DEF TokensArePast
<1>1. clock \in Nat /\ clock' \in Nat /\ clock <= clock' /\ NoToken.iat = 0
  BY DEF TypeOK, Forward, NoToken
<1>2. CASE tok \in Outstanding
  <2>1. tok.iat \in Nat /\ tok.iat <= clock
    BY <1>2, TokensTyped DEF Token, TokensArePast
  <2> QED
    BY <1>1, <2>1
<1> QED
  BY <1>1, <1>2 DEF TokensAreFresh

(* Whoever handles a request, and what time does, only goes forward.       *)
LEMMA EndGoesForward ==
    ASSUME TypeOK, NEW q \in Request, EndFound(q)
    PROVE  /\ Minted \subseteq Minted' /\ Active' \subseteq Active
           /\ req[q].found \cap Active' = {}
<1>1. \A s \in Sid : /\ sessions'[s].jti = sessions[s].jti
                     /\ sessions'[s].active => sessions[s].active
                     /\ s \in req[q].found => ~sessions'[s].active
  BY DEF EndFound, TypeOK, SessionRecord
<1> QED
  BY <1>1 DEF Minted, Active

LEMMA RotationGoesForward ==
    ASSUME Inv, NEW q \in Request, CommitRotation(q)
    PROVE  /\ Minted \subseteq Minted' /\ Active' = Active
           /\ \E s \in Active : Answered(q, s, Len(issued'))
<1>0. TypeOK /\ req[q].at = "published"
  BY DEF Inv, CommitRotation
<1>1. PICK s \in Sid : HoldsRow(q, s)
  BY <1>0 DEF Inv, HeldRows
<1>2. /\ issued' = Append(issued, s)
      /\ sessions' = [sessions EXCEPT ![s].jti = Len(issued')]
      /\ Answered(q, s, Len(issued'))
  BY <1>1 DEF CommitRotation, HoldsRow
<1>3. sessions \in [Sid -> SessionRecord] /\ Len(issued') # 0
  BY <1>0, <1>2, IssueOne DEF TypeOK
<1>4. /\ \A r \in Sid \ {s} : sessions'[r] = sessions[r]
      /\ sessions'[s].jti # 0 /\ sessions'[s].active = sessions[s].active
  BY <1>2, <1>3 DEF SessionRecord
<1>5. s \in Active
  BY <1>1 DEF HoldsRow, Active
<1> QED
  BY <1>2, <1>4, <1>5 DEF Minted, Active

LEMMA MintGoesForward ==
    ASSUME TypeOK, NEW q \in Request, Mint(q)
    PROVE  /\ Minted \subseteq Minted'
           /\ \E s \in Minted' \ Minted : Answered(q, s, Len(issued')) /\ Active' = Active \cup {s}
<1>1. PICK s \in Sid \ Minted :
          /\ issued' = Append(issued, s)
          /\ sessions' = [sessions EXCEPT ![s] = [jti |-> Len(issued'), active |-> TRUE]]
          /\ Answered(q, s, Len(issued'))
  BY DEF Mint
<1>2. sessions \in [Sid -> SessionRecord] /\ Len(issued') # 0
  BY <1>1, IssueOne DEF TypeOK
<1>3. /\ \A r \in Sid \ {s} : sessions'[r] = sessions[r]
      /\ sessions'[s].jti # 0 /\ sessions'[s].active
  BY <1>1, <1>2
<1> QED
  BY <1>1, <1>3 DEF Minted, Active

LEMMA MovesForward == Inv /\ [Next]_vars => Forward
<1> SUFFICES ASSUME Inv, [Next]_vars PROVE Forward
  OBVIOUS
<1>0. TypeOK /\ clock \in Nat /\ revokedAt \in Nat /\ revokedAt <= clock
  BY DEF Inv, TypeOK
<1>1. CASE \E q \in Request : CommitRotation(q)
  <2>1. PICK q \in Request : CommitRotation(q)
    BY <1>1
  <2>2. Minted \subseteq Minted' /\ Active' = Active
    BY <2>1, RotationGoesForward
  <2>3. UNCHANGED <<revokedSid, revokedAt, clock>>
    BY <2>1 DEF CommitRotation, redis
  <2> QED
    BY <1>0, <2>2, <2>3 DEF Forward
<1>2. CASE \E q \in Request : Mint(q)
  <2>1. PICK q \in Request : Mint(q)
    BY <1>2
  <2>2. Minted \subseteq Minted' /\ \E s \in Minted' \ Minted : Active' = Active \cup {s}
    BY <1>0, <2>1, MintGoesForward
  <2>3. UNCHANGED <<revokedSid, revokedAt, clock>>
    BY <2>1 DEF Mint, redis
  <2>4. Minted \cap Active' \subseteq Active /\ Active' \subseteq Active \cup Minted'
    BY <2>2
  <2> QED
    BY <1>0, <2>2, <2>3, <2>4 DEF Forward
<1>3. CASE \E q \in Request : RaiseAlarm(q) \/ LogoutCommit(q) \/ ChangeCommit(q) \/ ResetCommit(q)
  BY <1>0, <1>3, EndGoesForward DEF Forward, RaiseAlarm, LogoutCommit, ChangeCommit, ResetCommit, redis
<1>4. CASE \E q \in Request : LogoutMark(q) \/ ChangeMark(q) \/ ResetMark(q)
  BY <1>0, <1>4 DEF Forward, LogoutMark, ChangeMark, ResetMark, database, Minted, Active
<1>5. CASE Tick
  BY <1>0, <1>5 DEF Forward, Tick, database, redis, Minted, Active
<1>6. CASE UNCHANGED <<sessions, revokedSid, revokedAt, clock>>
  BY <1>0, <1>6 DEF Forward, Minted, Active
<1>7. CASE \E q \in Request : LookUp(q) \/ AskGrace(q) \/ Converge(q) \/ PublishGrace(q) \/ FailRotation(q)
                              \/ LogoutFind(q) \/ ChangeFind(q) \/ ResetFind(q) \/ Receive(q)
  BY <1>6, <1>7 DEF LookUp, AskGrace, Converge, PublishGrace, FailRotation, LogoutFind, ChangeFind,
     ResetFind, Receive, Dropped, SignedIn, Expired, LoggedOut, Changed, database, redis
<1>8. CASE \E q \in Request, t \in Tab :
              SendRefresh(q, t) \/ SendFromForm(q, t) \/ SendFromSettings(q, t)
  BY <1>6, <1>8 DEF SendRefresh, SendFromForm, SendFromSettings, Send, database, redis
<1>9. CASE \/ \E t \in Tab : Reload(t) \/ RefreshWithoutCookie(t)
           \/ \E g \in grace : GraceLapses(g)
           \/ UNCHANGED vars
  BY <1>6, <1>9 DEF Reload, RefreshWithoutCookie, GraceLapses, vars, database, redis
<1> QED
  BY <1>1, <1>2, <1>3, <1>4, <1>5, <1>7, <1>8, <1>9 DEF Next, Handle, Login, ResetMint

(* Where a token can come from in a step of q: the tabs and the requests   *)
(* keep theirs, except that q gets tok.                                    *)
LEMMA TokensOfStep ==
    ASSUME TypeOK, NEW q \in Request, q \in InFlight \/ req'[q].at = "done",
           UNCHANGED tab,
           \A p \in Request \ {q} : req'[p] = req[p],
           \/ req'[q].token = req[q].token
           \/ req'[q].at = "done"
           \/ req'[q].token.iat = clock /\ req'[q].token.sid \notin Minted \ Active
    PROVE  TokensAreFresh
<1> SUFFICES ASSUME NEW tok \in Outstanding', tok \notin Outstanding
             PROVE  tok.iat = clock /\ tok.sid \notin Minted \ Active
  BY DEF TokensAreFresh
<1>1. PICK p \in Request : p \in InFlight' /\ tok = req'[p].token
  BY DEF Outstanding, InFlight
<1>2. p = q
  BY <1>1 DEF Outstanding, InFlight
<1>3. req'[q].at # "done"
  BY <1>1, <1>2 DEF InFlight
<1>4. req'[q].token # req[q].token
  BY <1>1, <1>2, <1>3 DEF Outstanding
<1> QED
  BY <1>1, <1>2, <1>3, <1>4

(* A tab that changes takes the token of the answer it gets, or none.      *)
LEMMA TokensOfTab ==
    ASSUME TypeOK, NEW t \in Tab,
           \E r : tab' = [tab EXCEPT ![t] = r] /\ (r.access \in Outstanding \/ r.access = NoToken),
           \A p \in InFlight' : p \in InFlight /\ req'[p].token = req[p].token
    PROVE  TokensAreFresh
<1>1. PICK r : tab' = [tab EXCEPT ![t] = r] /\ (r.access \in Outstanding \/ r.access = NoToken)
  OBVIOUS
<1>2. \A u \in Tab : tab'[u] = IF u = t THEN r ELSE tab[u]
  BY <1>1 DEF TypeOK
<1> SUFFICES ASSUME NEW tok \in Outstanding', tok \notin Outstanding
             PROVE  tok = NoToken
  BY DEF TokensAreFresh
<1>3. (\E u \in Tab : tok = tab'[u].access) \/ (\E p \in InFlight' : tok = req'[p].token)
  BY DEF Outstanding
<1>4. ~\E p \in InFlight' : tok = req'[p].token
  BY DEF Outstanding
<1>5. PICK u \in Tab : tok = tab'[u].access
  BY <1>3, <1>4
<1>6. u = t
  BY <1>2, <1>5 DEF Outstanding
<1> QED
  BY <1>1, <1>2, <1>5, <1>6

LEMMA FinishedIsDone ==
    ASSUME TypeOK, NEW q \in Request, Finish(q)
    PROVE  /\ req'[q].at = "done"
           /\ \A p \in Request \ {q} : req'[p] = req[p]
           /\ \A p \in InFlight' : p \in InFlight /\ req'[p].token = req[p].token
<1>1. req'[q].at = "done" /\ \A p \in Request \ {q} : req'[p] = req[p]
  BY StepWrites, OthersUntouched
<1> QED
  BY <1>1 DEF InFlight

LEMMA TokensStayFresh == Inv /\ [Next]_vars => TokensAreFresh
<1> SUFFICES ASSUME Inv, [Next]_vars PROVE TokensAreFresh
  OBVIOUS
<1>0. TypeOK /\ NoToken = Anonymous.access
  BY DEF Inv, Anonymous
<1>1. CASE \E q \in Request : Handle(q)
  <2>1. PICK q \in Request : Handle(q)
    BY <1>1
  <2>2. UNCHANGED tab
    BY <2>1 DEF Handle, LookUp, AskGrace, Converge, PublishGrace, CommitRotation, FailRotation,
       RaiseAlarm, Login, LogoutFind, LogoutCommit, LogoutMark, ChangeFind, ChangeCommit, ChangeMark,
       ResetFind, ResetMark, ResetCommit, ResetMint, Mint, browsers
  <2>3. q \in InFlight
    BY <2>1 DEF Handle, LookUp, AskGrace, Converge, PublishGrace, CommitRotation, FailRotation,
       RaiseAlarm, Login, LogoutFind, LogoutCommit, LogoutMark, ChangeFind, ChangeCommit, ChangeMark,
       ResetFind, ResetMark, ResetCommit, ResetMint, InFlight
  <2>4. \/ \E step : Goto(q, step)
        \/ \E step, f : GotoWith(q, step, f)
        \/ Finish(q)
        \/ \E s, j : Answered(q, s, j) /\ s \notin Minted \ Active
    <3>1. CASE CommitRotation(q)
      BY <3>1, RotationGoesForward
    <3>2. CASE Mint(q)
      BY <1>0, <3>2, MintGoesForward
    <3>3. CASE Converge(q)
      <4>1. PICK s \in req[q].found :
                IF sessions[s].active THEN Answered(q, s, sessions[s].jti) ELSE Goto(q, "refused")
        BY <3>3 DEF Converge
      <4>2. sessions[s].active => s \notin Minted \ Active
        BY DEF Minted, Active
      <4> QED
        BY <4>1, <4>2
    <3> QED
      BY <2>1, <3>1, <3>2, <3>3 DEF Handle, LookUp, AskGrace, PublishGrace, FailRotation,
         RaiseAlarm, Login, LogoutFind, LogoutCommit, LogoutMark, ChangeFind, ChangeCommit, ChangeMark,
         ResetFind, ResetMark, ResetCommit, ResetMint
  <2>5. \A p \in Request \ {q} : req'[p] = req[p]
    BY <1>0, <2>4, OthersUntouched
  <2>6. \/ req'[q].token = req[q].token
        \/ req'[q].at = "done"
        \/ req'[q].token.iat = clock /\ req'[q].token.sid \notin Minted \ Active
    <3>1. CASE \E s, j : Answered(q, s, j) /\ s \notin Minted \ Active
      <4>1. PICK s, j : Answered(q, s, j) /\ s \notin Minted \ Active
        BY <3>1
      <4>2. req'[q].token = [sid |-> s, iat |-> clock]
        BY <1>0, <4>1, StepWrites
      <4> QED
        BY <4>1, <4>2
    <3>2. CASE ~\E s, j : Answered(q, s, j) /\ s \notin Minted \ Active
      BY <1>0, <2>4, <3>2, StepWrites
    <3> QED
      BY <3>1, <3>2
  <2> QED
    BY <1>0, <2>2, <2>3, <2>5, <2>6, TokensOfStep
<1>2. CASE \E q \in Request : Receive(q)
  <2>1. PICK q \in Request : Receive(q)
    BY <1>2
  <2>2. Finish(q)
    BY <2>1 DEF Receive, Dropped, SignedIn, Expired, LoggedOut, Changed
  <2>3. CASE UNCHANGED tab
    BY <1>0, <2>2, <2>3, FinishedIsDone, TokensOfStep
  <2>4. CASE Expired(q) \/ LoggedOut(q)
    <3>1. req[q].tab \in Tab \cup {NoSid} /\ tab' = [tab EXCEPT ![req[q].tab] = Anonymous]
      BY <1>0, <2>4, RequestFields DEF Expired, LoggedOut
    <3>2. CASE req[q].tab \in Tab
      BY <1>0, <2>2, <3>1, <3>2, FinishedIsDone, TokensOfTab
    <3>3. CASE req[q].tab \notin Tab
      <4>1. tab' = tab
        BY <1>0, <3>1, <3>3 DEF TypeOK
      <4> QED
        BY <2>3, <4>1
    <3> QED
      BY <3>2, <3>3
  <2>5. CASE SignedIn(q)
    <3> DEFINE r == [access |-> req[q].token,
                  status |-> IF req[q].kind = "refresh" /\ tab[req[q].tab].status = "anonymous"
                             THEN "anonymous" ELSE "authenticated"]
    <3>1. req[q].tab \in Tab \cup {NoSid} /\ tab' = [tab EXCEPT ![req[q].tab] = r]
      BY <1>0, <2>5, RequestFields DEF SignedIn
    <3>2. r.access \in Outstanding
      BY <2>5 DEF SignedIn, Outstanding, InFlight
    <3> HIDE DEF r
    <3>3. CASE req[q].tab \in Tab
      BY <1>0, <2>2, <3>1, <3>2, <3>3, FinishedIsDone, TokensOfTab
    <3>4. CASE req[q].tab \notin Tab
      <4>1. tab' = tab
        BY <1>0, <3>1, <3>4 DEF TypeOK
      <4> QED
        BY <2>3, <4>1
    <3> QED
      BY <3>3, <3>4
  <2> QED
    BY <2>1, <2>3, <2>4, <2>5 DEF Receive, Dropped, Changed, browsers
<1>3. CASE \E q \in Request, t \in Tab :
              SendRefresh(q, t) \/ SendFromForm(q, t) \/ SendFromSettings(q, t)
  <2>1. PICK q \in Request, t \in Tab : \E kind : Send(q, t, kind)
    BY <1>3 DEF SendRefresh, SendFromForm, SendFromSettings
  <2>2. tab' = tab /\ \A p \in Request \ {q} : req'[p] = req[p]
    BY <1>0, <2>1 DEF Send, browsers, TypeOK
  <2>3. req'[q].token = tab[t].access
    BY <1>0, <2>1 DEF Send, TypeOK
  <2>4. \A tok \in Outstanding' : tok \in Outstanding
    BY <2>2, <2>3 DEF Outstanding, InFlight
  <2> QED
    BY <2>4 DEF TokensAreFresh
<1>4. CASE \E t \in Tab : Reload(t)
  <2>1. PICK t \in Tab : Reload(t)
    BY <1>4
  <2>2. \A p \in Request : req'[p].at = req[p].at /\ req'[p].token = req[p].token
    BY <1>0, <2>1, RequestFields DEF Reload, RequestRecord
  <2> QED
    <3> DEFINE r == [access |-> NoToken, status |-> "loading"]
    <3>1. tab' = [tab EXCEPT ![t] = r] /\ r.access = NoToken
      BY <2>1 DEF Reload
    <3> HIDE DEF r
    <3>2. \A p \in InFlight' : p \in InFlight /\ req'[p].token = req[p].token
      BY <2>2 DEF InFlight
    <3> QED
      BY <1>0, <3>1, <3>2, TokensOfTab
<1>5. CASE \E t \in Tab : RefreshWithoutCookie(t)
  BY <1>0, <1>5, TokensOfTab DEF RefreshWithoutCookie, InFlight
<1>6. CASE UNCHANGED <<tab, req>>
  BY <1>6 DEF TokensAreFresh, Outstanding, InFlight
<1> QED
  BY <1>1, <1>2, <1>3, <1>4, <1>5, <1>6 DEF Next, Tick, GraceLapses, vars, browsers

(* The request that takes a step.                                          *)
LEMMA MoverEnds ==
    ASSUME EndInv, TypeOK', Forward, NEW q \in Request, Handle(q) \/ Receive(q)
    PROVE  EndsWhatItFound(q)'
<1>0. /\ TypeOK /\ Inv /\ EndsWhatItFound(q) /\ TokensArePast
      /\ req[q].found \subseteq Sid
  BY RequestFields DEF EndInv, Inv
<1>1. req[q].kind \in Ending /\ req[q].at \in {"listed", "marked", "ended", "answered"} =>
          /\ req[q].found \subseteq Minted'
          /\ req[q].found \cap Active = {} => req[q].found \cap Active' = {}
          /\ req[q].found \subseteq revokedSid => req[q].found \subseteq revokedSid'
  BY <1>0 DEF EndsWhatItFound, Forward
<1>2. CASE \/ LookUp(q) \/ AskGrace(q) \/ Converge(q) \/ PublishGrace(q) \/ CommitRotation(q)
           \/ FailRotation(q) \/ RaiseAlarm(q) \/ Login(q)
  <2>1. req[q].kind \notin Ending
    BY <1>0, <1>2 DEF EndsWhatItFound, Ending, LookUp, AskGrace, Converge, PublishGrace,
       CommitRotation, FailRotation, RaiseAlarm, Login
  <2>2. /\ req'[q].kind = req[q].kind
        /\ req'[q].at \notin {"unsent", "sent", "marked"}
    <3>1. CASE \E step \in {"unknown", "refused", "published"} : Goto(q, step)
      BY <1>0, <3>1, StepWrites
    <3>2. CASE \E f : \E step \in {"held", "alarm", "graced"} : GotoWith(q, step, f)
      BY <1>0, <3>2, StepWrites
    <3>3. CASE \E s, j : Answered(q, s, j)
      BY <1>0, <3>3, StepWrites
    <3> QED
      BY <1>2, <3>1, <3>2, <3>3 DEF LookUp, AskGrace, Converge, PublishGrace, CommitRotation,
         FailRotation, RaiseAlarm, Login, Mint
  <2> QED
    BY <2>1, <2>2 DEF EndsWhatItFound
<1>3. CASE LogoutFind(q) \/ ResetFind(q) \/ (ChangeFind(q) /\ Accepts(req[q].token))
  <2>1. PICK step \in {"answered", "listed"}, f \in SUBSET Minted :
            /\ GotoWith(q, step, f)
            /\ step = "answered" => f = {}
    BY <1>3 DEF LogoutFind, ResetFind, ChangeFind, WithJti, EndInv
  <2>2. /\ req'[q].at = step /\ req'[q].kind = req[q].kind
        /\ req'[q].found = f
    BY <1>0, <2>1, StepWrites
  <2>3. f \subseteq Minted'
    BY <2>1 DEF Forward
  <2> QED
    BY <2>1, <2>2, <2>3 DEF EndsWhatItFound
<1>4. CASE ChangeFind(q) /\ ~Accepts(req[q].token)
  <2>1. /\ req[q].kind = "change" /\ req[q].found = {}
        /\ Finish(q)
    BY <1>0, <1>4 DEF ChangeFind, EndsWhatItFound
  <2>2. req'[q].at = "done" /\ (req'[q].found = {} \/ req'[q].kind = "none")
    BY <1>0, <2>1, StepWrites
  <2> QED
    BY <2>2 DEF EndsWhatItFound, Ending
<1>5. CASE LogoutCommit(q) \/ ChangeCommit(q) \/ ResetCommit(q)
  <2>1. /\ EndFound(q)
        /\ req'[q].at = "ended" /\ req'[q].kind = req[q].kind /\ req'[q].found = req[q].found
        /\ req[q].kind \in Ending /\ req[q].at \in {"listed", "marked"}
        /\ req[q].kind = "reset" => req[q].at = "marked"
    BY <1>0, <1>5, StepWrites DEF LogoutCommit, ChangeCommit, ResetCommit, EndsWhatItFound, Ending
  <2>2. req[q].found \cap Active' = {}
    BY <1>0, <2>1, EndGoesForward
  <2>3. req[q].kind = "reset" => req[q].found \subseteq revokedSid
    BY <1>0, <2>1 DEF EndsWhatItFound, Ending
  <2> QED
    BY <1>1, <2>1, <2>2, <2>3 DEF EndsWhatItFound
<1>6. CASE LogoutMark(q) \/ ResetMark(q)
  <2>1. /\ req'[q].at = IF req[q].kind = "logout" THEN "answered" ELSE "marked"
        /\ req'[q].kind = req[q].kind /\ req'[q].found = req[q].found
        /\ req[q].kind \in {"logout", "reset"}
        /\ req[q].at = IF req[q].kind = "logout" THEN "ended" ELSE "listed"
        /\ req[q].found \subseteq revokedSid'
    BY <1>0, <1>6, StepWrites DEF LogoutMark, ResetMark
  <2>2. req[q].kind = "logout" => req[q].found \cap Active = {}
    BY <1>0, <2>1 DEF EndsWhatItFound, Ending
  <2> QED
    BY <1>1, <2>1, <2>2 DEF EndsWhatItFound, Ending
<1>7. CASE ChangeMark(q)
  <2>1. /\ req[q].at = "ended" /\ req[q].kind = "change"
        /\ req'[q].at = "answered" /\ req'[q].kind = "change" /\ req'[q].found = req[q].found
        /\ revokedAt' = clock /\ UNCHANGED tab
    BY <1>0, <1>7, StepWrites DEF ChangeMark, browsers
  <2>2. req[q].found \cap Active = {}
    BY <1>0, <2>1 DEF EndsWhatItFound, Ending
  <2>3. \A tok \in Outstanding' : tok \in Outstanding
    <3>1. \A p \in Request : req'[p].token = req[p].token /\ (p \in InFlight' => p \in InFlight)
      <4>1. req'[q].token = req[q].token /\ q \in InFlight
        BY <1>0, <1>7, <2>1, StepWrites DEF ChangeMark, InFlight
      <4>2. \A p \in Request \ {q} : req'[p] = req[p]
        BY <1>0, <1>7, OthersUntouched DEF ChangeMark
      <4> QED
        BY <4>1, <4>2 DEF InFlight
    <3>2. {tab'[t].access : t \in Tab} = {tab[t].access : t \in Tab}
      BY <2>1
    <3>3. \A p \in InFlight' : req'[p].token \in {req[r].token : r \in InFlight}
      BY <3>1 DEF InFlight
    <3> QED
      BY <3>2, <3>3 DEF Outstanding
  <2>4. \A tok \in Outstanding' : tok.iat <= revokedAt'
    BY <1>0, <2>1, <2>3 DEF TokensArePast
  <2> QED
    BY <1>1, <2>1, <2>2, <2>4 DEF EndsWhatItFound, Ending
<1>8. CASE ResetMint(q)
  <2>1. /\ req[q].at = "ended" /\ req[q].kind = "reset"
        /\ req'[q].at = "answered" /\ req'[q].kind = "reset" /\ req'[q].found = req[q].found
    BY <1>0, <1>8, StepWrites DEF ResetMint, Mint
  <2>2. req[q].found \cap Active = {} /\ req[q].found \subseteq revokedSid
    BY <1>0, <2>1 DEF EndsWhatItFound, Ending
  <2> QED
    BY <1>1, <2>1, <2>2 DEF EndsWhatItFound, Ending
<1>9. CASE Receive(q)
  <2>1. /\ req[q].at \in {"answered", "refused"}
        /\ Finish(q)
    BY <1>9 DEF Receive, Dropped, SignedIn, Expired, LoggedOut, Changed
  <2>2. /\ req'[q].at = "done"
        /\ \/ req'[q].kind = req[q].kind /\ req'[q].found = req[q].found
           \/ req'[q].kind = "none"
    BY <1>0, <2>1, StepWrites
  <2>3. CASE req'[q].kind \notin Ending
    BY <2>2, <2>3 DEF EndsWhatItFound
  <2>4. CASE req'[q].kind \in Ending
    <3>1. req[q].kind \in Ending /\ req'[q].kind = req[q].kind /\ req'[q].found = req[q].found
      BY <2>2, <2>4 DEF Ending
    <3>2. req[q].at = "answered" /\ req[q].found \cap Active = {}
      BY <1>0, <2>1, <3>1 DEF EndsWhatItFound
    <3>3. UNCHANGED <<revokedSid, revokedAt>>
      BY <1>9 DEF Receive, Dropped, SignedIn, Expired, LoggedOut, Changed, redis
    <3>4. req[q].kind = "change" =>
             \A s \in req[q].found : \A tok \in Outstanding' : tok.sid = s => tok.iat <= revokedAt
      <4> SUFFICES ASSUME req[q].kind = "change", NEW s \in req[q].found,
                          NEW tok \in Outstanding', tok.sid = s
                   PROVE  tok.iat <= revokedAt
        OBVIOUS
      <4>1. s \in Minted \ Active /\ s # NoSid
        BY <1>0, <3>1, <3>2, NoSidIsNobody DEF EndsWhatItFound, Minted
      <4>2. TokensAreFresh
        BY <1>0, <1>9, TokensStayFresh DEF Next
      <4>3. tok \in Outstanding
        BY <4>1, <4>2 DEF TokensAreFresh, NoToken
      <4> QED
        BY <1>0, <3>1, <3>2, <4>3 DEF EndsWhatItFound
    <3>5. /\ req[q].kind = "logout" => req[q].found \subseteq revokedSid
          /\ req[q].kind = "reset" => req[q].found \subseteq revokedSid
      BY <1>0, <3>1, <3>2 DEF EndsWhatItFound
    <3> QED
      BY <1>1, <2>2, <3>1, <3>2, <3>3, <3>4, <3>5 DEF EndsWhatItFound
  <2> QED
    BY <2>3, <2>4
<1> QED
  BY <1>2, <1>3, <1>4, <1>5, <1>6, <1>7, <1>8, <1>9 DEF Handle, Receive, ChangeFind

LEMMA EndInvInit == Init => EndInv
<1> SUFFICES ASSUME Init PROVE EndInv
  OBVIOUS
<1>1. Inv /\ Active \subseteq Minted
  BY InvInit DEF Init, Active
<1>2. \A q \in Request : EndsWhatItFound(q)
  BY DEF Init, EndsWhatItFound, Unsent, Ending
<1>3. TokensArePast
  BY DEF Init, TokensArePast, Outstanding, InFlight, Unsent, Anonymous, NoToken
<1> QED
  BY <1>1, <1>2, <1>3 DEF EndInv

LEMMA EndInvStep == EndInv /\ [Next]_vars => EndInv'
<1> SUFFICES ASSUME EndInv, [Next]_vars PROVE EndInv'
  OBVIOUS
<1>0. Inv /\ Inv' /\ TypeOK /\ TypeOK' /\ Forward /\ TokensAreFresh
  BY InvStep, MovesForward, TokensStayFresh DEF EndInv, Inv
<1>1. TokensArePast'
  BY <1>0, PastKept DEF EndInv
<1>2. (Active \subseteq Minted)'
  BY <1>0 DEF Forward, EndInv
<1>3. ASSUME NEW q \in Request PROVE EndsWhatItFound(q)'
  <2>1. CASE Handle(q) \/ Receive(q)
    BY <1>0, <2>1, MoverEnds
  <2>2. CASE \E t \in Tab : \E kind : Send(q, t, kind)
    <3>1. req'[q].at = "sent" /\ req'[q].found = {}
      BY <1>0, <2>2 DEF Send, TypeOK
    <3> QED
      BY <3>1 DEF EndsWhatItFound
  <2>3. CASE req'[q].kind = req[q].kind /\ req'[q].at = req[q].at /\ req'[q].found = req[q].found
    BY <1>0, <2>3, EndsKept DEF EndInv
  <2>4. CASE \E t \in Tab : Reload(t)
    <3>1. req'[q].kind = req[q].kind /\ req'[q].at = req[q].at /\ req'[q].found = req[q].found
      BY <1>0, <2>4, RequestFields DEF Reload, RequestRecord
    <3> QED
      BY <2>3, <3>1
  <2>5. CASE \E p \in Request \ {q} : Handle(p) \/ Receive(p)
    <3>1. PICK p \in Request \ {q} : Handle(p) \/ Receive(p)
      BY <2>5
    <3>2. \/ \E step : Goto(p, step)
          \/ \E step, f : GotoWith(p, step, f)
          \/ \E s, j : Answered(p, s, j)
          \/ Finish(p)
      BY <3>1 DEF Handle, LookUp, AskGrace, Converge, PublishGrace, CommitRotation, FailRotation,
         RaiseAlarm, Login, LogoutFind, LogoutCommit, LogoutMark, ChangeFind, ChangeCommit, ChangeMark,
         ResetFind, ResetMark, ResetCommit, ResetMint, Mint,
         Receive, Dropped, SignedIn, Expired, LoggedOut, Changed
    <3>3. req'[q] = req[q]
      BY <1>0, <3>2, OthersUntouched
    <3> QED
      BY <2>3, <3>3
  <2>6. CASE \E p \in Request \ {q} : \E t \in Tab : \E kind : Send(p, t, kind)
    <3>1. req'[q] = req[q]
      BY <1>0, <2>6 DEF Send, TypeOK
    <3> QED
      BY <2>3, <3>1
  <2>7. CASE UNCHANGED req
    BY <2>3, <2>7
  <2> QED
    BY <2>1, <2>2, <2>4, <2>5, <2>6, <2>7 DEF Next, SendRefresh, SendFromForm, SendFromSettings,
       RefreshWithoutCookie, Tick, GraceLapses, vars
<1> QED
  BY <1>0, <1>1, <1>2, <1>3 DEF EndInv

(* Once a logout, a password change or a reset is answered, the sessions   *)
(* it found are ended and no access token of theirs is accepted, wherever  *)
(* the token is (auth_service.py:229-251, 299-322; account_service.py:     *)
(* 60-75; dependencies/auth.py:12-41).                                     *)
THEOREM EndedMeansRefusedHolds == Spec => []EndedMeansRefused
<1>1. Spec => []EndInv
  BY EndInvInit, EndInvStep, PTL DEF Spec
<1> QED
  BY <1>1, EndInvImplies, PTL

-----------------------------------------------------------------------------
(* Why nobody is taken for a thief.                                        *)

(* The refreshes in flight, and those whose answer the tab will take.      *)
Refreshing == {q \in InFlight : req[q].kind = "refresh"}
Expected == {q \in Refreshing : ~req[q].orphan}
Home(q) == BrowserOf[req[q].tab]

(* What the session of a JTI has now. *)
Current(j) == sessions[issued[j]].jti
Alive(j) == sessions[issued[j]].active

(* The JTIs a browser has in its cookie or on their way to the server, and *)
(* their sessions.                                                         *)
Shown(b) ==
    {j \in 1 .. Len(issued) :
        cookie[b] = j \/ \E q \in Refreshing : Home(q) = b /\ req[q].jti = j}
Holds(b) == {issued[j] : j \in Shown(b)}

Known(j) == [jti |-> j, sid |-> issued[j]] \in grace
Resolves(j) == Alive(j) => Current(j) = j \/ Known(j)

KindsInStep ==
    \A q \in InFlight :
        /\ req[q].tab \in Tab /\ req[q].kind # "none"
        /\ req[q].kind = "login" => req[q].at \in {"sent", "answered"}

(* A refresh that found no row presents a spent JTI; the answer it is      *)
(* given, while a tab waits for it, stays the current JTI.                 *)
RefreshKnows(q) ==
    /\ req[q].at \in {"sent", "held", "published", "unknown", "graced", "alarm",
                      "answered", "refused"}
    /\ req[q].jti # 0
    /\ req[q].at \in {"unknown", "graced", "alarm", "answered"} => req[q].jti # Current(req[q].jti)
    /\ req[q].at = "graced" => req[q].found = {issued[req[q].jti]}
    /\ req[q].at = "published" => Known(req[q].jti)
    /\ req[q].at = "alarm" => ~Alive(req[q].jti)
    /\ req[q].at = "answered" /\ ~req[q].orphan => req[q].jar = Current(req[q].jti)
RefreshesKnow == \A q \in Refreshing : RefreshKnows(q)

(* The JTI of a new session is known to its answer only.                   *)
Minting ==
    {q \in InFlight : /\ req[q].kind \in {"login", "reset"}
                      /\ req[q].at = "answered" /\ ~req[q].orphan}
MintsArePrivate ==
    \A q \in Minting :
        /\ req[q].jar # 0 /\ req[q].jar = Current(req[q].jar)
        /\ \A b \in Browser : issued[req[q].jar] \notin Holds(b)
        /\ \A p \in Minting \ {q} : issued[req[p].jar] # issued[req[q].jar]

GraceIsTrue == \A g \in grace : g.sid = issued[g.jti]
CurrentIsLatest == \A j \in 1 .. Len(issued) : j <= Current(j)

(* A session lives in one browser.  The refreshes of a browser that tabs   *)
(* wait for carry one JTI; an abandoned one carries that JTI or an older   *)
(* one, and so does every refresh next to the cookie.                      *)
OneBrowser == \A b \in Browser : \A c \in Browser \ {b} : Holds(b) \cap Holds(c) = {}
SameJti == \A p, q \in Expected : Home(p) = Home(q) => req[p].jti = req[q].jti
OrphansAreOlder ==
    \A p \in Refreshing \ Expected, q \in Expected :
        issued[req[p].jti] = issued[req[q].jti] => req[p].jti <= req[q].jti
CookieIsLatest ==
    \A p \in Refreshing :
        cookie[Home(p)] # 0 /\ issued[req[p].jti] = issued[cookie[Home(p)]] =>
            req[p].jti <= cookie[Home(p)]
NoOrphanYet == mishaps = 0 => Expected = Refreshing
Carried == OneBrowser /\ SameJti /\ OrphansAreOlder /\ CookieIsLatest /\ NoOrphanYet

ShownResolve == \A b \in Browser : \A j \in Shown(b) : Resolves(j)

(* A cookie is spent, or about to be by an abandoned refresh: then a tab   *)
(* that loads, or an answer that a tab waits for, brings the next one.     *)
Abandoned(j) ==
    \E p \in Refreshing \ Expected : req[p].jti = j /\ req[p].at \in {"sent", "held", "published"}
Exposed(b) ==
    cookie[b] # 0 /\ Alive(cookie[b]) /\ (Current(cookie[b]) # cookie[b] \/ Abandoned(cookie[b]))
LoadingIn(b) ==
    \E t \in Tab : BrowserOf[t] = b /\ tab[t].status = "loading" /\ Awaited(t, {"refresh"}) = {}
AnswerFor(b) ==
    \E p \in Expected : Home(p) = b /\ req[p].jti = cookie[b] /\ req[p].at \notin {"alarm", "refused"}
ExposedIsRestored == \A b \in Browser : Exposed(b) => LoadingIn(b) \/ AnswerFor(b)

(* A commit fails only while no abandoned refresh is on its way: it could  *)
(* be the very answer that is to restore a cookie that the abandoned one   *)
(* goes on to spend.                                                       *)
FailuresApart == \A q \in Request : FailRotation(q) => Expected = Refreshing

CalmInv ==
    /\ EndInv
    /\ KindsInStep /\ RefreshesKnow /\ MintsArePrivate
    /\ GraceIsTrue /\ CurrentIsLatest
    /\ Carried
    /\ ShownResolve /\ ExposedIsRestored

-----------------------------------------------------------------------------
(* What the invariant says of the numbers in it. *)
LEMMA CalmTypes ==
    ASSUME CalmInv
    PROVE  /\ TypeOK /\ Inv /\ Len(issued) \in Nat
           /\ \A j \in 1 .. Len(issued) :
                 /\ issued[j] \in Sid /\ Current(j) \in 0 .. Len(issued) /\ j <= Current(j)
                 /\ issued[j] \in Minted /\ j # 0
                 /\ Current(j) \in 1 .. Len(issued) /\ issued[Current(j)] = issued[j]
           /\ \A q \in Refreshing :
                 /\ q \in Request /\ req[q].jti \in 1 .. Len(issued)
                 /\ req[q].tab \in Tab /\ Home(q) \in Browser /\ RefreshKnows(q)
                 /\ req[q].jti \in Shown(Home(q))
           /\ \A b \in Browser : cookie[b] \in 0 .. Len(issued)
<1>1. TypeOK /\ Inv /\ Len(issued) \in Nat
  BY IssuedLength DEF CalmInv, EndInv, Inv
<1>2. ASSUME NEW j \in 1 .. Len(issued)
      PROVE /\ issued[j] \in Sid /\ Current(j) \in 0 .. Len(issued) /\ j <= Current(j)
            /\ issued[j] \in Minted /\ j # 0
            /\ Current(j) \in 1 .. Len(issued) /\ issued[Current(j)] = issued[j]
  <2>1. issued[j] \in Sid
    BY <1>1 DEF TypeOK
  <2>2. Current(j) \in 0 .. Len(issued)
    BY <1>1, <2>1 DEF TypeOK, SessionRecord, Current
  <2>3. j <= Current(j)
    BY DEF CalmInv, CurrentIsLatest
  <2>4. Current(j) \in 1 .. Len(issued) /\ Current(j) # 0
    BY <1>1, <2>2, <2>3
  <2>5. issued[Current(j)] = issued[j]
    BY <1>1, <2>1, <2>4 DEF Inv, RowsHoldTheirOwn, Current
  <2> QED
    BY <1>1, <2>1, <2>2, <2>3, <2>4, <2>5 DEF Minted, Current
<1>3. ASSUME NEW q \in Refreshing
      PROVE /\ q \in Request /\ req[q].jti \in 1 .. Len(issued)
            /\ req[q].tab \in Tab /\ Home(q) \in Browser /\ RefreshKnows(q)
            /\ req[q].jti \in Shown(Home(q))
  <2>1. q \in InFlight /\ q \in Request
    BY DEF Refreshing, InFlight
  <2>2. RefreshKnows(q) /\ req[q].tab \in Tab
    BY <2>1 DEF CalmInv, RefreshesKnow, KindsInStep
  <2>3. req[q].jti \in 1 .. Len(issued)
    BY <1>1, <2>1, <2>2, RequestFields DEF RefreshKnows
  <2>4. Home(q) \in Browser
    BY <2>2, TabsHaveBrowsers DEF Home
  <2> QED
    BY <2>1, <2>2, <2>3, <2>4 DEF Shown
<1>4. \A b \in Browser : cookie[b] \in 0 .. Len(issued)
  BY <1>1 DEF TypeOK
<1> QED
  BY <1>1, <1>2, <1>3, <1>4

(* What a step of a request keeps. *)
LEMMA StepKeeps ==
    ASSUME TypeOK, NEW q \in Request
    PROVE  /\ \A step : Goto(q, step) =>
                  /\ req'[q].at = step /\ req'[q].found = req[q].found /\ req'[q].jar = req[q].jar
                  /\ req'[q].kind = req[q].kind /\ req'[q].tab = req[q].tab
                  /\ req'[q].jti = req[q].jti /\ req'[q].orphan = req[q].orphan
           /\ \A step, f : GotoWith(q, step, f) =>
                  /\ req'[q].at = step /\ req'[q].found = f /\ req'[q].jar = req[q].jar
                  /\ req'[q].kind = req[q].kind /\ req'[q].tab = req[q].tab
                  /\ req'[q].jti = req[q].jti /\ req'[q].orphan = req[q].orphan
           /\ \A s, j : Answered(q, s, j) =>
                  /\ req'[q].at = "answered" /\ req'[q].jar = j
                  /\ req'[q].kind = req[q].kind /\ req'[q].tab = req[q].tab
                  /\ req'[q].jti = req[q].jti /\ req'[q].orphan = req[q].orphan
<1>0. req \in [Request -> RequestRecord] /\ req[q] \in RequestRecord
  BY RequestFields DEF TypeOK
<1>1. \A step : Goto(q, step) =>
                  /\ req'[q].at = step /\ req'[q].found = req[q].found /\ req'[q].jar = req[q].jar
                  /\ req'[q].kind = req[q].kind /\ req'[q].tab = req[q].tab
                  /\ req'[q].jti = req[q].jti /\ req'[q].orphan = req[q].orphan
  BY <1>0 DEF Goto, RequestRecord
<1>2. \A step, f : GotoWith(q, step, f) =>
                  /\ req'[q].at = step /\ req'[q].found = f /\ req'[q].jar = req[q].jar
                  /\ req'[q].kind = req[q].kind /\ req'[q].tab = req[q].tab
                  /\ req'[q].jti = req[q].jti /\ req'[q].orphan = req[q].orphan
  BY <1>0 DEF GotoWith, RequestRecord
<1>3. \A s, j : Answered(q, s, j) =>
                  /\ req'[q].at = "answered" /\ req'[q].jar = j
                  /\ req'[q].kind = req[q].kind /\ req'[q].tab = req[q].tab
                  /\ req'[q].jti = req[q].jti /\ req'[q].orphan = req[q].orphan
  BY <1>0 DEF Answered, RequestRecord
<1> QED
  BY <1>1, <1>2, <1>3

(* The row of a JTI, and what the holder of a row carries. *)
LEMMA RowOf ==
    ASSUME CalmInv, NEW j \in 1 .. Len(issued)
    PROVE  /\ \A s \in WithJti(j) : s = issued[j] /\ Current(j) = j
           /\ WithJti(j) = {} => Current(j) # j
<1>1. issued[j] \in Sid /\ issued[j] \in Minted /\ Inv
  BY CalmTypes
<1> QED
  BY <1>1 DEF WithJti, Minted, Inv, RowsHoldTheirOwn, Current

(* Who holds a row carries the JTI that the row has. *)
LEMMA HolderOf ==
    ASSUME CalmInv, NEW q \in Refreshing, req[q].at \in {"held", "published"}
    PROVE  /\ req[q].found = {issued[req[q].jti]} /\ issued[req[q].jti] \in Sid
           /\ Current(req[q].jti) = req[q].jti /\ Alive(req[q].jti)
<1>1. q \in Request /\ Inv /\ req[q].jti \in 1 .. Len(issued)
  BY CalmTypes
<1>2. PICK s \in Sid : HoldsRow(q, s)
  BY <1>1 DEF Inv, HeldRows
<1>3. issued[req[q].jti] = s
  BY <1>1, <1>2 DEF HoldsRow, Inv, RowsHoldTheirOwn
<1> QED
  BY <1>2, <1>3 DEF HoldsRow, Current, Alive

(* Nobody on the way presents the JTI of an answer that a tab waits for.   *)
LEMMA AnswersAreUnused ==
    ASSUME CalmInv, NEW q \in Expected \cup Minting, req[q].at = "answered", NEW p \in Refreshing
    PROVE  req[p].jti # req[q].jar
<1>0. req[p].jti \in 1 .. Len(issued) /\ req[p].jti \in Shown(Home(p)) /\ Home(p) \in Browser
  BY CalmTypes
<1>1. CASE q \in Minting
  BY <1>0, <1>1 DEF CalmInv, MintsArePrivate, Holds
<1>2. CASE q \in Expected
  <2> SUFFICES ASSUME req[p].jti = req[q].jar PROVE FALSE
    OBVIOUS
  <2> DEFINE j == req[q].jti
             k == req[p].jti
  <2>1. /\ q \in Refreshing /\ j \in 1 .. Len(issued) /\ Home(q) \in Browser /\ RefreshKnows(q)
        /\ j \in Shown(Home(q))
    BY <1>2, CalmTypes DEF Expected
  <2>2. k = Current(j) /\ j # Current(j)
    BY <1>2, <2>1 DEF RefreshKnows, Expected
  <2>3. issued[k] = issued[j] /\ j <= k /\ j \in Nat /\ k \in Nat
    BY <1>0, <2>1, <2>2, CalmTypes
  <2>4. Home(p) = Home(q)
    BY <1>0, <2>1, <2>3 DEF CalmInv, Carried, OneBrowser, Holds
  <2>5. p \notin Expected
    BY <1>2, <2>2, <2>4 DEF CalmInv, Carried, SameJti
  <2>6. k <= j
    BY <1>2, <2>3, <2>5 DEF CalmInv, Carried, OrphansAreOlder
  <2> QED
    BY <2>2, <2>3, <2>6
<1> QED
  BY <1>1, <1>2

-----------------------------------------------------------------------------
(* What a step does to the rows: JTIs are only added, sessions only end,   *)
(* and the JTI of a session that exists changes by a rotation only.        *)
Rotated(j) ==
    \E r \in Refreshing :
        /\ CommitRotation(r) /\ issued[j] = issued[req[r].jti]
        /\ Current(j) = req[r].jti /\ Known(req[r].jti)
Flow ==
    /\ Len(issued') \in Nat /\ Len(issued) <= Len(issued')
    /\ \A j \in 1 .. Len(issued) :
          /\ issued'[j] = issued[j] /\ j \in 1 .. Len(issued')
          /\ Alive(j)' => Alive(j)
          /\ Current(j)' = Current(j) \/ (Current(j)' = Len(issued) + 1 /\ Rotated(j))
    /\ Len(issued') # Len(issued) =>
          Len(issued') = Len(issued) + 1 /\ sessions'[issued'[Len(issued')]].jti = Len(issued')

(* The four ways a step treats the rows: not at all, ... *)
LEMMA SameRowsFlow ==
    ASSUME CalmInv, UNCHANGED <<sessions, issued>>
    PROVE  Flow
<1>1. \A j : (Alive(j)' <=> Alive(j)) /\ Current(j)' = Current(j)
  BY DEF Alive, Current
<1> QED
  BY <1>1, CalmTypes DEF Flow

(* ... ending sessions, ... *)
LEMMA EndFlow ==
    ASSUME CalmInv, NEW q \in Request, EndFound(q), UNCHANGED issued
    PROVE  Flow /\ (\A j \in 1 .. Len(issued) : Current(j)' = Current(j))
<1>1. \A s \in Sid : sessions'[s].jti = sessions[s].jti /\ (sessions'[s].active => sessions[s].active)
  BY CalmTypes DEF EndFound, TypeOK, SessionRecord
<1>2. \A j \in 1 .. Len(issued) : (Alive(j)' => Alive(j)) /\ Current(j)' = Current(j)
  BY <1>1, CalmTypes DEF Alive, Current
<1> QED
  BY <1>2, CalmTypes DEF Flow

(* ... minting one, ... *)
LEMMA MintFlow ==
    ASSUME CalmInv, NEW q \in Request, Mint(q)
    PROVE  /\ Flow
           /\ \A j \in 1 .. Len(issued) : Current(j)' = Current(j)
           /\ Len(issued') = Len(issued) + 1
           /\ issued'[Len(issued')] \in Sid \ Minted
           /\ sessions'[issued'[Len(issued')]].jti = Len(issued')
           /\ Answered(q, issued'[Len(issued')], Len(issued'))
<1>0. TypeOK /\ Len(issued) \in Nat
  BY CalmTypes
<1>1. PICK s \in Sid \ Minted :
          /\ issued' = Append(issued, s)
          /\ sessions' = [sessions EXCEPT ![s] = [jti |-> Len(issued'), active |-> TRUE]]
          /\ Answered(q, s, Len(issued'))
  BY DEF Mint
<1>2. /\ Len(issued') = Len(issued) + 1 /\ issued'[Len(issued')] = s
      /\ \A j \in 1 .. Len(issued) : issued'[j] = issued[j] /\ j \in 1 .. Len(issued')
  BY <1>0, <1>1, IssueOne
<1>3. sessions'[s].jti = Len(issued') /\ \A r \in Sid \ {s} : sessions'[r] = sessions[r]
  BY <1>0, <1>1 DEF TypeOK
<1>4. \A j \in 1 .. Len(issued) : (Alive(j)' <=> Alive(j)) /\ Current(j)' = Current(j)
  BY <1>1, <1>2, <1>3, CalmTypes DEF Alive, Current
<1> QED
  BY <1>0, <1>1, <1>2, <1>3, <1>4 DEF Flow

(* ... and rotating one. *)
LEMMA CommitFlow ==
    ASSUME CalmInv, NEW q \in Refreshing, CommitRotation(q)
    PROVE  /\ Flow
           /\ Len(issued') = Len(issued) + 1
           /\ issued'[Len(issued')] = issued[req[q].jti]
           /\ Answered(q, issued[req[q].jti], Len(issued'))
           /\ \A j \in 1 .. Len(issued) :
                 /\ issued[j] = issued[req[q].jti] => Current(j)' = Len(issued')
                 /\ issued[j] # issued[req[q].jti] => Current(j)' = Current(j)
           /\ sessions'[issued[req[q].jti]].jti = Len(issued')
<1> DEFINE k == req[q].jti
           s == issued[k]
<1>0. TypeOK /\ Len(issued) \in Nat /\ k \in 1 .. Len(issued) /\ req[q].at = "published"
  BY CalmTypes DEF CommitRotation
<1>1. req[q].found = {s} /\ s \in Sid /\ Current(k) = k /\ Known(k)
  BY <1>0, HolderOf, CalmTypes DEF RefreshKnows
<1> HIDE DEF k, s
<1>2. /\ issued' = Append(issued, s)
      /\ sessions' = [sessions EXCEPT ![s].jti = Len(issued')]
      /\ Answered(q, s, Len(issued'))
  BY <1>1 DEF CommitRotation
<1>3. /\ Len(issued') = Len(issued) + 1 /\ issued'[Len(issued')] = s
      /\ \A j \in 1 .. Len(issued) : issued'[j] = issued[j] /\ j \in 1 .. Len(issued')
  BY <1>0, <1>1, <1>2, IssueOne
<1>4. /\ sessions'[s].jti = Len(issued') /\ sessions'[s].active = sessions[s].active
      /\ \A r \in Sid \ {s} : sessions'[r] = sessions[r]
  BY <1>0, <1>1, <1>2 DEF TypeOK, SessionRecord
<1>5. \A j \in 1 .. Len(issued) :
          /\ Alive(j)' <=> Alive(j)
          /\ issued[j] = s => Current(j)' = Len(issued')
          /\ issued[j] # s => Current(j)' = Current(j)
  BY <1>3, <1>4, CalmTypes DEF Alive, Current
<1>6. \A j \in 1 .. Len(issued) : issued[j] = s => Rotated(j)
  BY <1>0, <1>1 DEF Rotated, Current, k, s
<1>7. Flow
  BY <1>0, <1>3, <1>4, <1>5, <1>6 DEF Flow
<1> QED
  BY <1>2, <1>3, <1>4, <1>5, <1>7 DEF k, s

(* Every step. *)
LEMMA StepFlows ==
    ASSUME CalmInv, [Next]_vars
    PROVE  Flow
<1>1. CASE UNCHANGED <<sessions, issued>>
  BY <1>1, SameRowsFlow
<1>2. CASE \E q \in Request : CommitRotation(q)
  <2>1. PICK q \in Request : CommitRotation(q)
    BY <1>2
  <2>2. q \in Refreshing
    <3>1. q \in InFlight /\ req[q].at = "published" /\ req[q].kind \in Kinds
      BY <2>1, CalmTypes, RequestFields DEF CommitRotation, InFlight
    <3>2. req[q].kind \notin {"none", "login"} \cup Ending
      BY <3>1 DEF CalmInv, KindsInStep, EndInv, EndsWhatItFound
    <3> QED
      BY <3>1, <3>2 DEF Refreshing, Kinds, Ending
  <2> QED
    BY <2>1, <2>2, CommitFlow
<1>3. CASE \E q \in Request : Mint(q)
  BY <1>3, MintFlow
<1>4. CASE \E q \in Request : EndFound(q) /\ UNCHANGED issued
  BY <1>4, EndFlow
<1>5. CASE \E q \in Request : Handle(q)
  <2>1. PICK q \in Request : Handle(q)
    BY <1>5
  <2>2. \/ CommitRotation(q) \/ Mint(q)
        \/ EndFound(q) /\ UNCHANGED issued
        \/ UNCHANGED <<sessions, issued>>
    BY <2>1
       DEF Handle, database, LookUp, AskGrace, Converge, PublishGrace, FailRotation, RaiseAlarm,
           Login, LogoutFind, LogoutCommit, LogoutMark, ChangeFind, ChangeCommit, ChangeMark, ResetFind,
           ResetMark, ResetCommit, ResetMint
  <2> QED
    BY <1>1, <1>2, <1>3, <1>4, <2>2
<1>6. CASE \E q \in Request : Receive(q)
  BY <1>1, <1>6 DEF Receive, Dropped, SignedIn, Expired, LoggedOut, Changed, database
<1> QED
  BY <1>1, <1>5, <1>6
     DEF Next, database, SendRefresh, SendFromForm, SendFromSettings, Send, Reload,
         RefreshWithoutCookie, Tick, GraceLapses, vars

-----------------------------------------------------------------------------
(* What a step of a request writes to it, and to no other.                 *)
Carries(q) == [kind |-> req[q].kind, tab |-> req[q].tab, jti |-> req[q].jti, orphan |-> req[q].orphan]

LEMMA HandleShape ==
    ASSUME CalmInv, NEW q \in Request, Handle(q) \/ Receive(q)
    PROVE  /\ q \in InFlight
           /\ \A p \in Request \ {q} : req'[p] = req[p]
           /\ req'[q].at = "done" \/ Carries(q)' = Carries(q)
           /\ mishaps \in Nat /\ mishaps' \in Nat /\ mishaps <= mishaps'
<1>0. TypeOK /\ mishaps \in Nat
  BY CalmTypes DEF TypeOK
<1>1. q \in InFlight /\ mishaps' \in Nat /\ mishaps <= mishaps'
  BY <1>0 DEF InFlight, Handle, Receive, LookUp, AskGrace, Converge, PublishGrace, CommitRotation,
              FailRotation, RaiseAlarm, Login, LogoutFind, LogoutCommit, LogoutMark, ChangeFind,
              ChangeCommit, ChangeMark, ResetFind, ResetMark, ResetCommit, ResetMint, Mint, Dropped,
              SignedIn, Expired, LoggedOut, Changed
<1>2. CASE Finish(q)
  BY <1>0, <1>1, <1>2, StepWrites, OthersUntouched
<1>3. CASE \/ \E step : Goto(q, step)
           \/ \E step, f : GotoWith(q, step, f)
           \/ \E s, j : Answered(q, s, j)
  BY <1>0, <1>1, <1>3, StepKeeps, OthersUntouched DEF Carries
<1> QED
  BY <1>2, <1>3
     DEF Handle, Receive, LookUp, AskGrace, Converge, PublishGrace, CommitRotation,
         FailRotation, RaiseAlarm, Login, LogoutFind, LogoutCommit, LogoutMark, ChangeFind,
         ChangeCommit, ChangeMark, ResetFind, ResetMark, ResetCommit, ResetMint, Mint, Dropped,
         SignedIn, Expired, LoggedOut, Changed

(* A step after which no browser shows more than before. *)
Narrower ==
    /\ \A p \in Refreshing' : p \in Refreshing /\ Carries(p)' = Carries(p)
    /\ \A b \in Browser : cookie'[b] \in {0, cookie[b]}
    /\ mishaps \in Nat /\ mishaps' \in Nat /\ mishaps <= mishaps'

(* Such a step keeps what the cookies and the refreshes say of each other. *)
LEMMA NarrowerIsCarried ==
    ASSUME CalmInv, Flow, Narrower
    PROVE  /\ Carried'
           /\ \A b \in Browser : Shown(b)' \subseteq Shown(b) /\ Holds(b)' \subseteq Holds(b)
<1>1. \A p \in Refreshing' :
          /\ p \in Refreshing /\ Home(p)' = Home(p) /\ req'[p].jti = req[p].jti
          /\ req'[p].orphan = req[p].orphan
          /\ req[p].jti \in 1 .. Len(issued) /\ issued'[req[p].jti] = issued[req[p].jti]
          /\ Home(p) \in Browser
  BY CalmTypes DEF Narrower, Carries, Home, Flow
<1>2. \A b \in Browser : Shown(b)' \subseteq Shown(b)
  <2> SUFFICES ASSUME NEW b \in Browser, NEW j \in Shown(b)' PROVE j \in Shown(b)
    OBVIOUS
  <2>1. CASE cookie'[b] = j
    <3>1. cookie'[b] = cookie[b] /\ j # 0 /\ cookie[b] \in 0 .. Len(issued) /\ Len(issued) \in Nat
      BY <2>1, CalmTypes DEF Narrower, Shown
    <3> QED
      BY <2>1, <3>1 DEF Shown
  <2>2. CASE \E q \in Refreshing' : Home(q)' = b /\ req'[q].jti = j
    BY <1>1, <2>2 DEF Shown
  <2> QED
    BY <2>1, <2>2 DEF Shown
<1>3. \A b \in Browser : Holds(b)' \subseteq Holds(b)
  <2>1. \A b \in Browser : \A j \in Shown(b)' : j \in Shown(b) /\ issued'[j] = issued[j]
    BY <1>2 DEF Shown, Flow
  <2> QED
    BY <2>1 DEF Holds
<1>4. OneBrowser'
  BY <1>3 DEF CalmInv, Carried, OneBrowser
<1>5. \A p \in Expected' : p \in Expected
  BY <1>1 DEF Expected
<1>6. SameJti'
  BY <1>1, <1>5 DEF CalmInv, Carried, SameJti, Expected
<1>7. \A p \in (Refreshing \ Expected)' : p \in Refreshing \ Expected
  BY <1>1 DEF Expected
<1>8. OrphansAreOlder'
  BY <1>1, <1>5, <1>7 DEF CalmInv, Carried, OrphansAreOlder, Expected
<1>9. CookieIsLatest'
  <2> SUFFICES ASSUME NEW p \in Refreshing', cookie'[Home(p)'] # 0,
                      issued'[req'[p].jti] = issued'[cookie'[Home(p)']]
               PROVE  req'[p].jti <= cookie'[Home(p)']
    BY DEF CookieIsLatest
  <2>1. cookie'[Home(p)] = cookie[Home(p)] /\ cookie[Home(p)] \in 1 .. Len(issued)
    BY <1>1, CalmTypes DEF Narrower
  <2>2. issued'[cookie[Home(p)]] = issued[cookie[Home(p)]]
    BY <2>1 DEF Flow
  <2> QED
    BY <1>1, <2>1, <2>2 DEF CalmInv, Carried, CookieIsLatest
<1>10. NoOrphanYet'
  <2> SUFFICES ASSUME mishaps' = 0 PROVE Expected' = Refreshing'
    BY DEF NoOrphanYet
  <2>1. mishaps = 0
    BY DEF Narrower
  <2> QED
    BY <1>1, <2>1 DEF CalmInv, Carried, NoOrphanYet, Expected
<1> QED
  BY <1>2, <1>3, <1>4, <1>6, <1>8, <1>9, <1>10 DEF Carried

(* Handling a request, dropping its answer, and signing out narrow.        *)
LEMMA HandleNarrows ==
    ASSUME CalmInv, NEW q \in Request, Handle(q) \/ Receive(q), ~SignedIn(q)
    PROVE  Narrower
<1>1. \A p \in Refreshing' : p \in Refreshing /\ Carries(p)' = Carries(p)
  BY HandleShape DEF Refreshing, InFlight, Carries
<1>2. \A b \in Browser : cookie'[b] \in {0, cookie[b]}
  <2>1. CASE cookie' = cookie
    BY <2>1
  <2>2. CASE LoggedOut(q)
    <3>1. cookie \in [Browser -> 0 .. Len(issued)] /\ cookie' = [cookie EXCEPT ![BrowserOf[req[q].tab]] = 0]
      BY <2>2, CalmTypes DEF TypeOK, LoggedOut
    <3> QED
      BY <3>1
  <2> QED
    BY <2>1, <2>2
       DEF Handle, Receive, LookUp, AskGrace, Converge, PublishGrace, CommitRotation,
           FailRotation, RaiseAlarm, Login, LogoutFind, LogoutCommit, LogoutMark, ChangeFind,
           ChangeCommit, ChangeMark, ResetFind, ResetMark, ResetCommit, ResetMint, Mint, Dropped,
           Expired, Changed, browsers
<1> QED
  BY <1>1, <1>2, HandleShape DEF Narrower

(* A request that was just sent. *)
WasSent(q, t, kind) ==
    /\ \A p \in Request \ {q} : req'[p] = req[p]
    /\ req'[q].kind = kind /\ req'[q].tab = t /\ req'[q].jti = cookie[BrowserOf[t]]
    /\ req'[q].at = "sent" /\ req'[q].orphan = FALSE
    /\ q \notin InFlight /\ InFlight' = InFlight \cup {q}
    /\ UNCHANGED <<database, redis, clock, browsers, mishaps>>

LEMMA SendShape ==
    ASSUME CalmInv, NEW q \in Request, NEW t \in Tab, NEW kind \in Kinds, Send(q, t, kind)
    PROVE  WasSent(q, t, kind)
<1>0. req \in [Request -> RequestRecord]
  BY CalmTypes DEF TypeOK
<1>1. /\ \A p \in Request \ {q} : req'[p] = req[p]
      /\ req'[q].kind = kind /\ req'[q].tab = t /\ req'[q].jti = cookie[BrowserOf[t]]
      /\ req'[q].at = "sent" /\ req'[q].orphan = FALSE
  BY <1>0 DEF Send
<1>2. q \notin InFlight
  BY DEF Send, InFlight
<1>3. InFlight' = InFlight \cup {q}
  BY <1>1 DEF InFlight
<1> QED
  BY <1>1, <1>2, <1>3 DEF Send, WasSent

(* Whatever a tab sends that is not a refresh is not counted here.         *)
LEMMA ElsewhereNarrows ==
    ASSUME CalmInv,
           \/ \E q \in Request, t \in Tab : SendFromForm(q, t) \/ SendFromSettings(q, t)
           \/ \E t \in Tab : RefreshWithoutCookie(t)
           \/ Tick
           \/ \E g \in grace : GraceLapses(g)
           \/ UNCHANGED vars
    PROVE  Narrower
<1>0. mishaps \in Nat
  BY CalmTypes DEF TypeOK
<1>1. CASE \E q \in Request, t \in Tab : SendFromForm(q, t) \/ SendFromSettings(q, t)
  <2>1. PICK q \in Request, t \in Tab, kind \in Kinds \ {"refresh"} : Send(q, t, kind)
    BY <1>1 DEF SendFromForm, SendFromSettings, SignedOutForms, Kinds
  <2>3. /\ \A p \in Request \ {q} : req'[p] = req[p]
        /\ req'[q].kind # "refresh" /\ UNCHANGED <<cookie, mishaps>>
    <3>1. WasSent(q, t, kind)
      BY <2>1, SendShape
    <3> QED
      BY <2>1, <3>1 DEF WasSent, browsers
  <2>2. \A p \in Refreshing' : p \in Refreshing /\ Carries(p)' = Carries(p)
    BY <2>3 DEF Refreshing, InFlight, Carries
  <2> QED
    BY <1>0, <2>2, <2>3 DEF Narrower
<1>2. CASE req' = req /\ cookie' = cookie /\ mishaps' = mishaps
  <2>1. \A p \in Refreshing' : p \in Refreshing /\ Carries(p)' = Carries(p)
    BY <1>2 DEF Refreshing, InFlight, Carries
  <2> QED
    BY <1>0, <1>2, <2>1 DEF Narrower
<1> QED
  BY <1>1, <1>2 DEF RefreshWithoutCookie, Tick, GraceLapses, vars, browsers

(* A tab refreshes with the cookie of its browser; the refreshes that      *)
(* other tabs wait for carry the same one.                                 *)
LEMMA RefreshIsCarried ==
    ASSUME CalmInv, ~Overtaking, NEW q \in Request, NEW t \in Tab, SendRefresh(q, t)
    PROVE  /\ Carried'
           /\ \A b \in Browser : Shown(b)' = Shown(b) /\ Holds(b)' = Holds(b)
<1> DEFINE b0 == BrowserOf[t]
           c == cookie[BrowserOf[t]]
<1>0. /\ \A p \in Request \ {q} : req'[p] = req[p]
      /\ req'[q].kind = "refresh" /\ req'[q].tab = t /\ req'[q].jti = c
      /\ req'[q].at = "sent" /\ req'[q].orphan = FALSE
      /\ q \notin InFlight /\ InFlight' = InFlight \cup {q}
      /\ cookie' = cookie /\ issued' = issued /\ sessions' = sessions /\ mishaps' = mishaps
  <2>1. Send(q, t, "refresh") /\ "refresh" \in Kinds
    BY DEF SendRefresh, Kinds
  <2> QED
    <3>1. WasSent(q, t, "refresh")
      BY <2>1, SendShape
    <3> QED
      BY <2>1, <3>1 DEF WasSent, database, browsers
<1>1. /\ b0 \in Browser /\ c \in 1 .. Len(issued)
      /\ \A p \in From(b0) : req[p].kind = "refresh" /\ ~req[p].orphan => req[p].jti = c
  BY TabsHaveBrowsers, CalmTypes DEF SendRefresh
<1>2. \A p \in Refreshing : p \in From(Home(p)) /\ p # q /\ p \in Request
  BY <1>0 DEF From, Refreshing, Home, InFlight
<1>3. Refreshing' = Refreshing \cup {q} /\ \A p \in Refreshing : req'[p] = req[p] /\ Home(p)' = Home(p)
  BY <1>0, <1>2 DEF Refreshing, InFlight, Home
<1>4. Expected' = Expected \cup {q}
  BY <1>0, <1>3 DEF Expected
<1>5. Home(q)' = b0
  BY <1>0 DEF Home
<1>6. \A b \in Browser : Shown(b)' = Shown(b)
  <2>1. \A b \in Browser, j \in 1 .. Len(issued) :
            (\E p \in Refreshing' : Home(p)' = b /\ req'[p].jti = j)
              <=> (\E p \in Refreshing : Home(p) = b /\ req[p].jti = j) \/ (b = b0 /\ j = c)
    BY <1>0, <1>3, <1>5
  <2> QED
    BY <1>0, <2>1 DEF Shown
<1>7. \A b \in Browser : Holds(b)' = Holds(b)
  BY <1>0, <1>6 DEF Holds
<1> HIDE DEF b0, c
<1>8. OneBrowser'
  BY <1>7 DEF CalmInv, Carried, OneBrowser
<1>9. SameJti'
  <2>1. \A p \in Expected : Home(p) = b0 => req[p].jti = c
    BY <1>1, <1>2 DEF Expected, Refreshing
  <2>2. \A p \in Expected : req'[p] = req[p] /\ Home(p)' = Home(p)
    BY <1>3 DEF Expected
  <2> QED
    BY <1>0, <1>4, <1>5, <2>1, <2>2 DEF CalmInv, Carried, SameJti
<1>10. OrphansAreOlder'
  <2> SUFFICES ASSUME NEW p \in (Refreshing \ Expected)', NEW r \in Expected',
                      issued'[req'[p].jti] = issued'[req'[r].jti]
               PROVE  req'[p].jti <= req'[r].jti
    BY DEF OrphansAreOlder
  <2>1. p \in Refreshing \ Expected /\ req'[p] = req[p]
    BY <1>0, <1>2, <1>3, <1>4 DEF Expected
  <2>2. CASE r \in Expected
    BY <1>0, <1>3, <2>1, <2>2 DEF CalmInv, Carried, OrphansAreOlder, Expected
  <2>3. CASE r = q
    <3>1. issued[req[p].jti] = issued[c]
      BY <1>0, <2>1, <2>3
    <3>2. issued[c] \in Holds(b0) /\ issued[req[p].jti] \in Holds(Home(p)) /\ Home(p) \in Browser
      BY <1>1, <2>1, CalmTypes DEF Holds, Shown, b0, c
    <3>3. Home(p) = b0
      BY <1>1, <3>1, <3>2 DEF CalmInv, Carried, OneBrowser
    <3>4. req[p].jti <= c
      BY <1>1, <2>1, <3>1, <3>3, CalmTypes DEF CalmInv, Carried, CookieIsLatest, b0, c
    <3> QED
      BY <1>0, <2>1, <2>3, <3>4
  <2> QED
    BY <1>4, <2>2, <2>3
<1>11. CookieIsLatest'
  <2>1. \A p \in Refreshing' : cookie'[Home(p)'] # 0 /\ issued'[req'[p].jti] = issued'[cookie'[Home(p)']] =>
            req'[p].jti <= cookie'[Home(p)']
    <3> SUFFICES ASSUME NEW p \in Refreshing', cookie'[Home(p)'] # 0,
                        issued'[req'[p].jti] = issued'[cookie'[Home(p)']]
                 PROVE  req'[p].jti <= cookie'[Home(p)']
      OBVIOUS
    <3>1. CASE p = q
      <4>1. cookie'[Home(p)'] = c /\ req'[p].jti = c /\ c \in Nat
        BY <1>0, <1>1, <1>5, <3>1 DEF b0, c
      <4> QED
        BY <4>1
    <3>2. CASE p \in Refreshing
      BY <1>0, <1>3, <3>2 DEF CalmInv, Carried, CookieIsLatest
    <3> QED
      BY <1>3, <3>1, <3>2
  <2> QED
    BY <2>1 DEF CookieIsLatest
<1>12. NoOrphanYet'
  BY <1>0, <1>3, <1>4 DEF CalmInv, Carried, NoOrphanYet
<1> QED
  BY <1>6, <1>7, <1>8, <1>9, <1>10, <1>11, <1>12 DEF Carried

(* A reload abandons the refresh of its tab, which carries the JTI that    *)
(* the other tabs of the browser wait for.                                 *)
LEMMA ReloadShape ==
    ASSUME CalmInv, NEW t \in Tab, Reload(t)
    PROVE  /\ mishaps' # 0
           /\ Refreshing' = Refreshing /\ Expected' \subseteq Expected
           /\ InFlight' = InFlight
           /\ \A p \in Request :
                 /\ req'[p].kind = req[p].kind /\ req'[p].tab = req[p].tab /\ req'[p].jti = req[p].jti
                 /\ req'[p].at = req[p].at /\ req'[p].found = req[p].found /\ req'[p].jar = req[p].jar
                 /\ req[p].orphan => req'[p].orphan
                 /\ p \in InFlight /\ req[p].tab = t => req'[p].orphan
                 /\ req[p].tab # t => req'[p].orphan = req[p].orphan
           /\ tab' = [tab EXCEPT ![t] = [access |-> NoToken, status |-> "loading"]]
           /\ UNCHANGED <<sessions, issued, grace, cookie>>
<1>1. \A p \in Request : req[p] \in RequestRecord
  BY CalmTypes, RequestFields
<1>2. req' = [q \in Request |-> [req[q] EXCEPT !.orphan = @ \/ (q \in InFlight /\ req[q].tab = t)]]
  BY DEF Reload
<1>3. \A p \in Request :
          /\ req'[p].kind = req[p].kind /\ req'[p].tab = req[p].tab /\ req'[p].jti = req[p].jti
          /\ req'[p].at = req[p].at /\ req'[p].found = req[p].found /\ req'[p].jar = req[p].jar
          /\ req'[p].orphan = (req[p].orphan \/ (p \in InFlight /\ req[p].tab = t))
  BY <1>1, <1>2 DEF RequestRecord
<1>5. mishaps' # 0
  BY CalmTypes DEF TypeOK, Reload
<1>6. InFlight' = InFlight
  BY <1>3 DEF InFlight
<1>7. Refreshing' = Refreshing
  BY <1>3, <1>6 DEF Refreshing, InFlight
<1>9. Expected' \subseteq Expected
  BY <1>3, <1>7 DEF Expected, Refreshing, InFlight
<1>10. /\ tab' = [tab EXCEPT ![t] = [access |-> NoToken, status |-> "loading"]]
       /\ UNCHANGED <<sessions, issued, grace, cookie>>
  BY DEF Reload, database, redis
<1>11. \A p \in Request :
          /\ req[p].orphan => req'[p].orphan
          /\ p \in InFlight /\ req[p].tab = t => req'[p].orphan
  BY <1>3
<1>12. \A p \in Request : req[p].tab # t => req'[p].orphan = req[p].orphan
  <2>1. \A p \in Request : req[p].orphan \in BOOLEAN
    BY <1>1 DEF RequestRecord
  <2> QED
    BY <1>3, <2>1
<1> QED
  BY <1>3, <1>5, <1>6, <1>7, <1>9, <1>10, <1>11, <1>12

(* An abandoned refresh carries what the others carry, or something older. *)
LEMMA ReloadIsCarried ==
    ASSUME CalmInv, NEW t \in Tab, Reload(t)
    PROVE  /\ Carried'
           /\ \A b \in Browser : Shown(b)' = Shown(b) /\ Holds(b)' = Holds(b)
<1>1. /\ mishaps' # 0 /\ Refreshing' = Refreshing /\ Expected' \subseteq Expected
      /\ UNCHANGED <<issued, cookie>>
  BY ReloadShape
<1>2. \A p \in Refreshing : req'[p].jti = req[p].jti /\ Home(p)' = Home(p)
  BY ReloadShape DEF Home, Refreshing, InFlight
<1>3. \A b \in Browser : Shown(b)' = Shown(b)
  BY <1>1, <1>2 DEF Shown
<1>4. \A b \in Browser : Holds(b)' = Holds(b)
  BY <1>1, <1>3 DEF Holds
<1>5. OneBrowser'
  BY <1>4 DEF CalmInv, Carried, OneBrowser
<1>6. \A p, q \in Expected : Home(p) = Home(q) => req[p].jti = req[q].jti
  BY DEF CalmInv, Carried, SameJti
<1>7. SameJti'
  <2>1. \A p \in Expected' : p \in Expected /\ p \in Refreshing
    BY <1>1 DEF Expected
  <2> QED
    BY <1>2, <1>6, <2>1 DEF SameJti
<1>8. OrphansAreOlder'
  <2>0. \A q \in Expected' : q \in Expected /\ q \in Refreshing
    BY <1>1 DEF Expected
  <2> SUFFICES ASSUME NEW p \in Refreshing, NEW q \in Expected, q \in Refreshing,
                      issued[req[p].jti] = issued[req[q].jti]
               PROVE  req[p].jti <= req[q].jti
    BY <1>1, <1>2, <2>0 DEF OrphansAreOlder
  <2>4. CASE p \notin Expected
    BY <2>4 DEF CalmInv, Carried, OrphansAreOlder
  <2>5. CASE p \in Expected
    <3>1. /\ Home(p) \in Browser /\ Home(q) \in Browser /\ req[p].jti \in Nat
          /\ req[p].jti \in Shown(Home(p)) /\ req[q].jti \in Shown(Home(q))
      BY CalmTypes
    <3>2. Home(p) = Home(q)
      BY <3>1 DEF CalmInv, Carried, OneBrowser, Holds
    <3>3. req[p].jti = req[q].jti
      BY <1>6, <2>5, <3>2
    <3> QED
      BY <3>1, <3>3
  <2> QED
    BY <2>4, <2>5
<1>9. CookieIsLatest'
  BY <1>1, <1>2 DEF CalmInv, Carried, CookieIsLatest
<1>10. NoOrphanYet'
  BY <1>1 DEF NoOrphanYet
<1> QED
  BY <1>3, <1>4, <1>5, <1>7, <1>8, <1>9, <1>10 DEF Carried

(* The answer that reaches a tab brings the current JTI of a session that  *)
(* no other browser has, and nobody presents it yet.                       *)
LEMMA SignedInShape ==
    ASSUME CalmInv, NEW q \in Request, SignedIn(q)
    PROVE  /\ q \in InFlight /\ q \in Expected \cup Minting
           /\ req[q].jar \in 1 .. Len(issued) /\ Current(req[q].jar) = req[q].jar
           /\ Home(q) \in Browser
           /\ \A b \in Browser : issued[req[q].jar] \in Holds(b) => b = Home(q)
           /\ q \in Expected => issued[req[q].jar] \in Holds(Home(q))
           /\ \A p \in Refreshing : req[p].jti # req[q].jar
           /\ InFlight' = InFlight \ {q} /\ \A p \in Request \ {q} : req'[p] = req[p]
           /\ Refreshing' = Refreshing \ {q} /\ Expected' = Expected \ {q}
           /\ \A b \in Browser : cookie'[b] = IF b = Home(q) THEN req[q].jar ELSE cookie[b]
           /\ UNCHANGED <<sessions, issued, grace, mishaps>>
<1>0. TypeOK /\ q \in InFlight /\ req[q].at = "answered" /\ ~req[q].orphan
  BY CalmTypes DEF SignedIn, InFlight
<1>1. q \in Expected \cup Minting
  BY <1>0 DEF SignedIn, Expected, Refreshing, Minting
<1>2. Home(q) \in Browser
  BY <1>0, TabsHaveBrowsers DEF CalmInv, KindsInStep, Home
<1>3. /\ req[q].jar \in 1 .. Len(issued) /\ Current(req[q].jar) = req[q].jar
      /\ \A b \in Browser : issued[req[q].jar] \in Holds(b) => b = Home(q)
      /\ q \in Expected => issued[req[q].jar] \in Holds(Home(q))
  <2>1. CASE q \in Minting
    <3>1. req[q].jar \in 0 .. Len(issued) /\ Len(issued) \in Nat
      BY CalmTypes, RequestFields
    <3> QED
      BY <2>1, <3>1 DEF CalmInv, MintsArePrivate, Minting, Expected, Refreshing
  <2>2. CASE q \in Expected
    <3>1. /\ q \in Refreshing /\ req[q].jti \in 1 .. Len(issued) /\ RefreshKnows(q)
          /\ req[q].jti \in Shown(Home(q))
      BY <2>2, CalmTypes DEF Expected
    <3>2. req[q].jar = Current(req[q].jti)
      BY <1>0, <3>1 DEF RefreshKnows
    <3>3. req[q].jar \in 1 .. Len(issued) /\ issued[req[q].jar] = issued[req[q].jti]
      BY <3>1, <3>2, CalmTypes
    <3>4. Current(req[q].jar) = req[q].jar
      BY <3>2, <3>3 DEF Current
    <3>5. issued[req[q].jar] \in Holds(Home(q))
      BY <3>1, <3>3 DEF Holds
    <3> QED
      BY <1>2, <3>3, <3>4, <3>5 DEF CalmInv, Carried, OneBrowser
  <2> QED
    BY <1>1, <2>1, <2>2
<1>4. \A p \in Refreshing : req[p].jti # req[q].jar
  BY <1>0, <1>1, AnswersAreUnused
<1>5. req'[q].at = "done" /\ \A p \in Request \ {q} : req'[p] = req[p]
  BY <1>0, FinishedIsDone DEF SignedIn
<1>6. InFlight' = InFlight \ {q}
  BY <1>5 DEF InFlight
<1>7. Refreshing' = Refreshing \ {q} /\ Expected' = Expected \ {q}
  <2>1. Refreshing' = Refreshing \ {q}
    BY <1>5, <1>6 DEF Refreshing, InFlight
  <2> QED
    BY <1>5, <2>1 DEF Expected, Refreshing, InFlight
<1>8. \A b \in Browser : cookie'[b] = IF b = Home(q) THEN req[q].jar ELSE cookie[b]
  BY <1>0 DEF TypeOK, SignedIn, Home
<1>9. UNCHANGED <<sessions, issued, grace, mishaps>>
  BY DEF SignedIn, database, redis
<1> QED
  BY <1>0, <1>1, <1>2, <1>3, <1>4, <1>5, <1>6, <1>7, <1>8, <1>9

(* A new cookie is the current JTI, so none on the way is later. *)
LEMMA SignedInIsCarried ==
    ASSUME CalmInv, NEW q \in Request, SignedIn(q)
    PROVE  /\ Carried'
           /\ \A b \in Browser : /\ Shown(b)' \subseteq Shown(b) \cup {req[q].jar}
                                 /\ b # Home(q) => Shown(b)' \subseteq Shown(b)
                                 /\ Holds(b)' \subseteq Holds(b) \cup {issued[req[q].jar]}
                                 /\ b # Home(q) => Holds(b)' \subseteq Holds(b)
<1> DEFINE k == req[q].jar
           h == Home(q)
<1>0. /\ k \in 1 .. Len(issued) /\ Current(k) = k /\ h \in Browser
      /\ \A b \in Browser : issued[k] \in Holds(b) => b = h
      /\ \A p \in Request \ {q} : req'[p] = req[p]
      /\ Refreshing' = Refreshing \ {q} /\ Expected' = Expected \ {q}
      /\ \A b \in Browser : cookie'[b] = IF b = h THEN k ELSE cookie[b]
      /\ UNCHANGED <<sessions, issued, mishaps>>
  BY SignedInShape
<1> HIDE DEF k, h
<1>1. \A p \in Refreshing' : p \in Refreshing /\ p # q /\ req'[p] = req[p] /\ Home(p)' = Home(p)
  BY <1>0 DEF Refreshing, InFlight, Home
<1>2. \A b \in Browser : /\ Shown(b)' \subseteq Shown(b) \cup {k}
                         /\ b # h => Shown(b)' \subseteq Shown(b)
  BY <1>0, <1>1 DEF Shown
<1>3. \A b \in Browser : /\ Holds(b)' \subseteq Holds(b) \cup {issued[k]}
                         /\ b # h => Holds(b)' \subseteq Holds(b)
  BY <1>0, <1>2 DEF Holds
<1>4. OneBrowser'
  BY <1>0, <1>3 DEF CalmInv, Carried, OneBrowser
<1>5. \A p \in Expected' : p \in Expected /\ p \in Refreshing'
  BY <1>0 DEF Expected
<1>6. SameJti'
  BY <1>1, <1>5 DEF CalmInv, Carried, SameJti
<1>7. OrphansAreOlder'
  BY <1>0, <1>1, <1>5 DEF CalmInv, Carried, OrphansAreOlder
<1>8. CookieIsLatest'
  <2> SUFFICES ASSUME NEW p \in Refreshing', cookie'[Home(p)'] # 0,
                      issued'[req'[p].jti] = issued'[cookie'[Home(p)']]
               PROVE  req'[p].jti <= cookie'[Home(p)']
    BY DEF CookieIsLatest
  <2>1. p \in Refreshing /\ req'[p] = req[p] /\ Home(p)' = Home(p) /\ Home(p) \in Browser
    BY <1>1, CalmTypes
  <2>2. CASE Home(p) # h
    BY <1>0, <2>1, <2>2 DEF CalmInv, Carried, CookieIsLatest
  <2>3. CASE Home(p) = h
    <3>1. cookie'[Home(p)'] = k /\ issued[req[p].jti] = issued[k]
      BY <1>0, <2>1, <2>3
    <3>2. req[p].jti <= Current(req[p].jti)
      BY <2>1, CalmTypes
    <3>3. Current(req[p].jti) = k
      BY <1>0, <3>1 DEF Current
    <3> QED
      BY <2>1, <3>1, <3>2, <3>3
  <2> QED
    BY <2>2, <2>3
<1>9. NoOrphanYet'
  BY <1>0 DEF CalmInv, Carried, NoOrphanYet
<1> QED
  BY <1>2, <1>3, <1>4, <1>6, <1>7, <1>8, <1>9 DEF Carried, k, h

(* Every step. *)
LEMMA CarriedStep ==
    ASSUME CalmInv, [Next]_vars, ~Overtaking
    PROVE  /\ Carried'
           /\ \/ \A b \in Browser : Shown(b)' \subseteq Shown(b) /\ Holds(b)' \subseteq Holds(b)
              \/ \E q \in Request : SignedIn(q)
<1>1. CASE \E q \in Request : Handle(q) \/ Receive(q)
  <2>1. PICK q \in Request : Handle(q) \/ Receive(q)
    BY <1>1
  <2>2. CASE SignedIn(q)
    BY <2>2, SignedInIsCarried
  <2>3. CASE ~SignedIn(q)
    BY <2>1, <2>3, HandleNarrows, StepFlows, NarrowerIsCarried
  <2> QED
    BY <2>2, <2>3
<1>2. CASE \E q \in Request, t \in Tab : SendRefresh(q, t)
  BY <1>2, RefreshIsCarried
<1>3. CASE \E t \in Tab : Reload(t)
  BY <1>3, ReloadIsCarried
<1>4. CASE \/ \E q \in Request, t \in Tab : SendFromForm(q, t) \/ SendFromSettings(q, t)
           \/ \E t \in Tab : RefreshWithoutCookie(t)
           \/ Tick
           \/ \E g \in grace : GraceLapses(g)
           \/ UNCHANGED vars
  BY <1>4, ElsewhereNarrows, StepFlows, NarrowerIsCarried
<1> QED
  BY <1>1, <1>2, <1>3, <1>4 DEF Next

(* The grace keys: one is added by a rotation, one goes with time.         *)
LEMMA GraceMoves ==
    ASSUME CalmInv, [Next]_vars
    PROVE  \/ grace' = grace
           \/ \E q \in Refreshing :
                  /\ PublishGrace(q) /\ UNCHANGED <<sessions, issued>>
                  /\ grace' = grace \cup {[jti |-> req[q].jti, sid |-> issued[req[q].jti]]}
           \/ \E g \in grace : GraceLapses(g) /\ grace' = grace \ {g}
<1>1. CASE \E q \in Request : PublishGrace(q)
  <2>1. PICK q \in Request : PublishGrace(q)
    BY <1>1
  <2>2. q \in InFlight /\ req[q].at = "held" /\ req[q].kind \in Kinds
    BY <2>1, CalmTypes, RequestFields DEF PublishGrace, InFlight
  <2>3. req[q].kind \notin {"none", "login"} \cup Ending
    BY <2>2 DEF CalmInv, KindsInStep, EndInv, EndsWhatItFound
  <2>4. q \in Refreshing
    BY <2>2, <2>3 DEF Refreshing, Kinds, Ending
  <2>5. req[q].found = {issued[req[q].jti]}
    BY <2>2, <2>4, HolderOf
  <2> QED
    BY <2>1, <2>4, <2>5 DEF PublishGrace, database
<1>2. CASE \E g \in grace : GraceLapses(g)
  BY <1>2 DEF GraceLapses
<1>3. CASE grace' = grace
  BY <1>3
<1>4. CASE \E q \in Request : Handle(q) \/ Receive(q)
  <2>1. PICK q \in Request : Handle(q) \/ Receive(q)
    BY <1>4
  <2>2. PublishGrace(q) \/ grace' = grace
    BY <2>1
       DEF Handle, Receive, redis, LookUp, AskGrace, Converge, CommitRotation, FailRotation, RaiseAlarm,
           Login, LogoutFind, LogoutCommit, LogoutMark, ChangeFind, ChangeCommit, ChangeMark, ResetFind,
           ResetMark, ResetCommit, ResetMint, Mint, Dropped, SignedIn, Expired, LoggedOut, Changed
  <2> QED
    BY <1>1, <1>3, <2>2
<1> QED
  BY <1>2, <1>3, <1>4
     DEF Next, redis, SendRefresh, SendFromForm, SendFromSettings, Send, Reload,
         RefreshWithoutCookie, Tick, vars

(* The grace key of a spent JTI that a browser still shows does not lapse: *)
(* a request carries it, or a tab that loads is about to.                  *)
LEMMA KnownKept ==
    ASSUME CalmInv, [Next]_vars
    PROVE  /\ \A j \in {req[p].jti : p \in Refreshing} : Known(j) => Known(j)'
           /\ \A b \in Browser : \A j \in Shown(b) :
                  Alive(j) /\ Current(j) # j /\ Known(j) => Known(j)'
<1>0. Flow
  BY StepFlows
<1>1. \A b \in Browser : \A j \in Shown(b) : j \in 1 .. Len(issued)
  BY DEF Shown
<1>2. CASE grace \subseteq grace'
  BY <1>0, <1>1, <1>2, CalmTypes DEF Known, Flow
<1>3. CASE \E g \in grace : GraceLapses(g) /\ grace' = grace \ {g}
  <2>1. PICK g \in grace : GraceLapses(g) /\ grace' = grace \ {g}
    BY <1>3
  <2>2. UNCHANGED issued
    BY <2>1 DEF GraceLapses, database
  <2>3. \A p \in Refreshing : req[p].jti # g.jti
    BY <2>1 DEF GraceLapses, Refreshing
  <2>4. ASSUME NEW b \in Browser, NEW j \in Shown(b), Alive(j), Current(j) # j
        PROVE  j # g.jti
    <3>1. CASE \E p \in Refreshing : req[p].jti = j
      BY <2>3, <3>1
    <3>2. CASE cookie[b] = j
      <4>1. Exposed(b)
        BY <1>1, <2>4, <3>2, CalmTypes DEF Exposed
      <4>2. CASE LoadingIn(b)
        BY <2>1, <3>2, <4>2 DEF LoadingIn, GraceLapses
      <4>3. CASE AnswerFor(b)
        BY <2>3, <3>2, <4>3 DEF AnswerFor, Expected
      <4> QED
        BY <4>1, <4>2, <4>3 DEF CalmInv, ExposedIsRestored
    <3> QED
      BY <3>1, <3>2 DEF Shown
  <2> QED
    BY <2>1, <2>2, <2>3, <2>4 DEF Known
<1> QED
  BY <1>2, <1>3, GraceMoves

(* A grace key leads to the session its JTI was issued to. *)
LEMMA GraceStaysTrue ==
    ASSUME CalmInv, [Next]_vars
    PROVE  GraceIsTrue'
<1>0. Flow /\ \A g \in grace : g.jti \in 1 .. Len(issued) /\ g.sid = issued[g.jti]
  BY StepFlows, CalmTypes DEF CalmInv, GraceIsTrue, TypeOK
<1>1. CASE grace' \subseteq grace
  BY <1>0, <1>1 DEF GraceIsTrue, Flow
<1>2. CASE \E q \in Refreshing :
              grace' = grace \cup {[jti |-> req[q].jti, sid |-> issued[req[q].jti]]}
  BY <1>0, <1>2, CalmTypes DEF GraceIsTrue, Flow
<1> QED
  BY <1>1, <1>2, GraceMoves

(* The JTI that a row has is the last one issued to it. *)
LEMMA LatestStep ==
    ASSUME CalmInv, [Next]_vars
    PROVE  CurrentIsLatest'
<1>0. Flow /\ Len(issued) \in Nat
  BY StepFlows, CalmTypes
<1>1. ASSUME NEW j \in 1 .. Len(issued) PROVE j <= Current(j)'
  BY <1>0, <1>1, CalmTypes DEF Flow
<1>2. ASSUME NEW j \in 1 .. Len(issued'), j \notin 1 .. Len(issued) PROVE j <= Current(j)'
  <2>1. j = Len(issued') /\ Len(issued') # Len(issued)
    BY <1>0, <1>2 DEF Flow
  <2>2. Current(j)' = j
    BY <1>0, <2>1 DEF Flow, Current
  <2> QED
    BY <1>0, <2>1, <2>2 DEF Flow
<1> QED
  BY <1>1, <1>2 DEF CurrentIsLatest

(* Logins are answered at once, and whatever is in flight came from a tab. *)
LEMMA KindsStep ==
    ASSUME CalmInv, [Next]_vars
    PROVE  KindsInStep'
<1>0. TypeOK
  BY CalmTypes
<1>1. CASE \E q \in Request : Handle(q) \/ Receive(q)
  <2>1. PICK q \in Request : Handle(q) \/ Receive(q)
    BY <1>1
  <2>2. /\ q \in InFlight /\ \A p \in Request \ {q} : req'[p] = req[p]
        /\ req'[q].at = "done" \/ Carries(q)' = Carries(q)
    BY <2>1, HandleShape
  <2>3. q \in InFlight' => req'[q].tab \in Tab /\ req'[q].kind = req[q].kind /\ req[q].kind # "none"
    BY <2>2 DEF InFlight, Carries, CalmInv, KindsInStep
  <2>4. q \in InFlight' /\ req[q].kind = "login" => req'[q].at \in {"sent", "answered"}
    <3> SUFFICES ASSUME q \in InFlight', req[q].kind = "login" PROVE req'[q].at = "answered"
      OBVIOUS
    <3>1. req[q].at \in {"sent", "answered"}
      BY <2>2 DEF CalmInv, KindsInStep
    <3>2. CASE Mint(q)
      BY <1>0, <3>2, StepKeeps DEF Mint
    <3>3. CASE Finish(q)
      BY <1>0, <3>3, StepWrites DEF InFlight
    <3> QED
      BY <2>1, <3>1, <3>2, <3>3
         DEF Handle, Receive, LookUp, AskGrace, Converge, PublishGrace, CommitRotation,
             FailRotation, RaiseAlarm, Login, LogoutFind, LogoutCommit, LogoutMark, ChangeFind,
             ChangeCommit, ChangeMark, ResetFind, ResetMark, ResetCommit, ResetMint, Dropped,
             SignedIn, Expired, LoggedOut, Changed
  <2>5. \A p \in InFlight' : p = q \/ (p \in InFlight /\ req'[p] = req[p])
    BY <2>2 DEF InFlight
  <2> QED
    BY <2>3, <2>4, <2>5 DEF CalmInv, KindsInStep
<1>2. CASE \E q \in Request, t \in Tab : SendRefresh(q, t) \/ SendFromForm(q, t) \/ SendFromSettings(q, t)
  <2>1. PICK q \in Request, t \in Tab, kind \in Kinds \ {"none"} : Send(q, t, kind)
    BY <1>2 DEF SendRefresh, SendFromForm, SendFromSettings, SignedOutForms, Kinds
  <2>2. /\ \A p \in Request \ {q} : req'[p] = req[p]
        /\ req'[q].kind = kind /\ req'[q].tab = t /\ req'[q].at = "sent"
        /\ InFlight' = InFlight \cup {q} /\ q \notin InFlight
    <3>1. WasSent(q, t, kind)
      BY <2>1, SendShape
    <3> QED
      BY <2>1, <3>1 DEF WasSent
  <2>3. \A p \in InFlight : p \in Request /\ p # q
    BY <2>2 DEF InFlight
  <2> QED
    BY <2>1, <2>2, <2>3 DEF CalmInv, KindsInStep
<1>3. CASE \E t \in Tab : Reload(t)
  <2>1. \A p \in Request : /\ req'[p].kind = req[p].kind /\ req'[p].tab = req[p].tab
                           /\ req'[p].at = req[p].at
    BY <1>0, <1>3, RequestFields DEF Reload, RequestRecord
  <2> QED
    BY <2>1 DEF CalmInv, KindsInStep, InFlight
<1>4. CASE req' = req
  BY <1>4 DEF CalmInv, KindsInStep, InFlight
<1> QED
  BY <1>1, <1>2, <1>3, <1>4 DEF Next, RefreshWithoutCookie, Tick, GraceLapses, vars

(* A refresh that the step does not handle: no rotation touches the answer *)
(* a tab waits for, and its grace key stays.                               *)
LEMMA KnowsKept ==
    ASSUME CalmInv, [Next]_vars, NEW p \in Refreshing,
           req'[p].jti = req[p].jti, req'[p].at = req[p].at, req'[p].found = req[p].found,
           req'[p].jar = req[p].jar, req[p].orphan => req'[p].orphan
    PROVE  RefreshKnows(p)'
<1>0. Flow /\ RefreshKnows(p) /\ Len(issued) \in Nat
  BY StepFlows, CalmTypes
<1>1. PICK k \in 1 .. Len(issued) : k = req[p].jti
  BY CalmTypes
<1>2. issued'[k] = issued[k] /\ (Alive(k)' => Alive(k)) /\ (Known(k) => Known(k)')
  BY <1>0, <1>1, KnownKept DEF Flow
<1>3. k # Current(k) => k # Current(k)'
  BY <1>0 DEF Flow
<1>4. req[p].at = "answered" /\ ~req'[p].orphan => req[p].jar = Current(k)'
  <2> SUFFICES ASSUME req[p].at = "answered", ~req'[p].orphan PROVE req[p].jar = Current(k)'
    OBVIOUS
  <2>1. p \in Expected /\ req[p].jar = Current(k)
    BY <1>0, <1>1 DEF Expected, RefreshKnows
  <2>2. \A r \in Refreshing : req[r].jti # Current(k)
    BY <2>1, AnswersAreUnused
  <2> QED
    BY <1>0, <2>1, <2>2 DEF Flow, Rotated
<1> QED
  BY <1>0, <1>1, <1>2, <1>3, <1>4 DEF RefreshKnows, Current, Alive, Known

(* The refresh that a step handles. *)
LEMMA HandledKnows ==
    ASSUME CalmInv, [Next]_vars, NEW q \in Request, Handle(q), q \in Refreshing
    PROVE  RefreshKnows(q)'
<1>0. Flow /\ RefreshKnows(q) /\ Len(issued) \in Nat /\ TypeOK /\ req[q].kind = "refresh"
  BY StepFlows, CalmTypes DEF Refreshing
<1>1. PICK k \in 1 .. Len(issued) : k = req[q].jti
  BY CalmTypes
<1>2. issued'[k] = issued[k] /\ (Alive(k)' => Alive(k)) /\ k # 0
  BY <1>0, CalmTypes DEF Flow
<1>3. k # Current(k) => k # Current(k)'
  BY <1>0 DEF Flow
<1>4. k \in Shown(Home(q)) /\ Home(q) \in Browser
  BY <1>1, CalmTypes
<1>5. CASE LookUp(q)
  <2>1. UNCHANGED <<sessions, issued>>
    BY <1>5 DEF LookUp
  <2>2. Current(k)' = Current(k)
    BY <2>1 DEF Current
  <2>3. CASE WithJti(k) = {} /\ Goto(q, "unknown")
    <3>1. Current(k) # k
      BY <2>3, RowOf
    <3>2. req'[q].at = "unknown" /\ req'[q].jti = k
      BY <1>0, <1>1, <2>3, StepKeeps
    <3> QED
      BY <1>2, <2>2, <3>1, <3>2 DEF RefreshKnows, Current
  <2>4. CASE \E s : GotoWith(q, "held", {s})
    <3>1. req'[q].at = "held" /\ req'[q].jti = k
      BY <1>0, <1>1, <2>4, StepKeeps
    <3> QED
      BY <1>2, <3>1 DEF RefreshKnows
  <2>5. CASE Goto(q, "refused")
    <3>1. req'[q].at = "refused" /\ req'[q].jti = k
      BY <1>0, <1>1, <2>5, StepKeeps
    <3> QED
      BY <1>2, <3>1 DEF RefreshKnows
  <2> QED
    BY <1>1, <1>5, <2>3, <2>4, <2>5 DEF LookUp
<1>6. CASE AskGrace(q)
  <2>1. UNCHANGED <<sessions, issued>> /\ k # Current(k) /\ k # Current(k)'
    BY <1>0, <1>1, <1>3, <1>6 DEF AskGrace, database, RefreshKnows
  <2>2. CASE GraceOf(k) = {} /\ GotoWith(q, "alarm", Active)
    <3>1. ~Known(k)
      BY <2>2 DEF GraceOf, Known
    <3>2. ~Alive(k)
      BY <1>4, <2>1, <3>1 DEF CalmInv, ShownResolve, Resolves
    <3>3. req'[q].at = "alarm" /\ req'[q].jti = k
      BY <1>0, <1>1, <2>2, StepKeeps
    <3> QED
      BY <1>2, <2>1, <3>2, <3>3 DEF RefreshKnows, Current, Alive
  <2>3. CASE \E g \in GraceOf(k) : GotoWith(q, "graced", {g.sid})
    <3>1. PICK g \in GraceOf(k) : GotoWith(q, "graced", {g.sid})
      BY <2>3
    <3>2. g.sid = issued[k]
      BY <3>1 DEF GraceOf, CalmInv, GraceIsTrue
    <3>3. req'[q].at = "graced" /\ req'[q].jti = k /\ req'[q].found = {issued[k]}
      BY <1>0, <1>1, <3>1, <3>2, StepKeeps
    <3> QED
      BY <1>2, <2>1, <3>3 DEF RefreshKnows, Current
  <2> QED
    BY <1>1, <1>6, <2>2, <2>3 DEF AskGrace
<1>7. CASE Converge(q)
  <2>1. UNCHANGED <<sessions, issued>> /\ k # Current(k) /\ k # Current(k)' /\ req[q].found = {issued[k]}
    BY <1>0, <1>1, <1>3, <1>7 DEF Converge, database, RefreshKnows
  <2>2. Current(k)' = Current(k)
    BY <2>1 DEF Current
  <2>3. CASE Answered(q, issued[k], sessions[issued[k]].jti)
    <3>1. req'[q].at = "answered" /\ req'[q].jti = k /\ req'[q].jar = Current(k)
      BY <1>0, <1>1, <2>3, StepKeeps DEF Current
    <3> QED
      BY <1>2, <2>1, <2>2, <3>1 DEF RefreshKnows, Current
  <2>4. CASE Goto(q, "refused")
    <3>1. req'[q].at = "refused" /\ req'[q].jti = k
      BY <1>0, <1>1, <2>4, StepKeeps
    <3> QED
      BY <1>2, <3>1 DEF RefreshKnows
  <2> QED
    BY <1>7, <2>1, <2>3, <2>4 DEF Converge
<1>8. CASE PublishGrace(q)
  <2>1. req'[q].at = "published" /\ req'[q].jti = k /\ req[q].at = "held"
    BY <1>0, <1>1, <1>8, StepKeeps DEF PublishGrace
  <2>2. req[q].found = {issued[k]}
    BY <1>1, <2>1, HolderOf
  <2>3. Known(k)'
    BY <1>1, <1>2, <1>8, <2>2 DEF PublishGrace, Known
  <2> QED
    BY <1>2, <2>1, <2>3 DEF RefreshKnows, Known
<1>9. CASE CommitRotation(q)
  <2>1. /\ Len(issued') = Len(issued) + 1 /\ Answered(q, issued[k], Len(issued'))
        /\ Current(k)' = Len(issued')
    BY <1>1, <1>9, CommitFlow
  <2>2. req'[q].at = "answered" /\ req'[q].jti = k /\ req'[q].jar = Len(issued')
    BY <1>0, <1>1, <2>1, StepKeeps
  <2>3. k # Current(k)'
    BY <1>0, <2>1
  <2> QED
    BY <1>2, <2>1, <2>2, <2>3 DEF RefreshKnows, Current
<1>10. CASE FailRotation(q) \/ RaiseAlarm(q)
  <2>1. req'[q].at = "refused" /\ req'[q].jti = k
    BY <1>0, <1>1, <1>10, StepKeeps DEF FailRotation, RaiseAlarm
  <2> QED
    BY <1>2, <2>1 DEF RefreshKnows
<1>11. ~ResetCommit(q)
  BY <1>0 DEF ResetCommit, RefreshKnows
<1> QED
  BY <1>0, <1>5, <1>6, <1>7, <1>8, <1>9, <1>10, <1>11
     DEF Handle, Login, LogoutFind, LogoutCommit, LogoutMark, ChangeFind, ChangeCommit, ChangeMark,
         ResetFind, ResetMark, ResetMint

(* Every refresh. *)
LEMMA RefreshesKnowStep ==
    ASSUME CalmInv, [Next]_vars
    PROVE  RefreshesKnow'
<1>1. CASE \E q \in Request : Handle(q) \/ Receive(q)
  <2>1. PICK q \in Request : Handle(q) \/ Receive(q)
    BY <1>1
  <2>2. /\ q \in InFlight /\ \A p \in Request \ {q} : req'[p] = req[p]
        /\ req'[q].at = "done" \/ Carries(q)' = Carries(q)
    BY <2>1, HandleShape
  <2>3. \A p \in Refreshing' : p \in Refreshing /\ (p # q => req'[p] = req[p])
    BY <2>2 DEF Refreshing, InFlight, Carries
  <2>4. q \in Refreshing' => Handle(q)
    <3>1. Receive(q) => Finish(q)
      BY DEF Receive, Dropped, SignedIn, Expired, LoggedOut, Changed
    <3>2. Finish(q) => q \notin Refreshing'
      BY CalmTypes, StepWrites DEF Refreshing, InFlight
    <3> QED
      BY <2>1, <3>1, <3>2
  <2> SUFFICES ASSUME NEW p \in Refreshing' PROVE RefreshKnows(p)'
    BY DEF RefreshesKnow
  <2>5. CASE p = q
    BY <2>3, <2>4, <2>5, HandledKnows
  <2>6. CASE p # q
    BY <2>3, <2>6, KnowsKept
  <2> QED
    BY <2>5, <2>6
<1>2. CASE \E q \in Request, t \in Tab : SendRefresh(q, t) \/ SendFromForm(q, t) \/ SendFromSettings(q, t)
  <2>1. PICK q \in Request, t \in Tab, kind \in Kinds :
            Send(q, t, kind) /\ (kind = "refresh" => cookie[BrowserOf[t]] # 0)
    BY <1>2 DEF SendRefresh, SendFromForm, SendFromSettings, SignedOutForms, Kinds
  <2>2. /\ \A p \in Request \ {q} : req'[p] = req[p]
        /\ req'[q].kind = kind /\ req'[q].jti = cookie[BrowserOf[t]] /\ req'[q].at = "sent"
        /\ InFlight' = InFlight \cup {q} /\ q \notin InFlight
    <3>1. WasSent(q, t, kind)
      BY <2>1, SendShape
    <3> QED
      BY <2>1, <3>1 DEF WasSent
  <2>3. \A p \in Refreshing' : p = q \/ (p \in Refreshing /\ req'[p] = req[p])
    BY <2>2 DEF Refreshing, InFlight
  <2>4. q \in Refreshing' => RefreshKnows(q)'
    BY <2>1, <2>2 DEF RefreshKnows, Refreshing
  <2> SUFFICES ASSUME NEW p \in Refreshing' PROVE RefreshKnows(p)'
    BY DEF RefreshesKnow
  <2>5. CASE p # q
    BY <2>3, <2>5, KnowsKept
  <2> QED
    BY <2>4, <2>5
<1>3. CASE \E t \in Tab : Reload(t)
  <2>1. \A p \in Request : /\ req'[p].kind = req[p].kind /\ req'[p].jti = req[p].jti
                           /\ req'[p].at = req[p].at /\ req'[p].found = req[p].found
                           /\ req'[p].jar = req[p].jar /\ (req[p].orphan => req'[p].orphan)
    BY <1>3, CalmTypes, RequestFields DEF Reload, RequestRecord
  <2>2. \A p \in Refreshing' : p \in Refreshing /\ p \in Request
    BY <2>1 DEF Refreshing, InFlight
  <2> SUFFICES ASSUME NEW p \in Refreshing' PROVE RefreshKnows(p)'
    BY DEF RefreshesKnow
  <2> QED
    BY <2>1, <2>2, KnowsKept
<1>4. CASE req' = req
  <2>1. Refreshing' = Refreshing
    BY <1>4 DEF Refreshing, InFlight
  <2> SUFFICES ASSUME NEW p \in Refreshing PROVE RefreshKnows(p)'
    BY <2>1 DEF RefreshesKnow
  <2> QED
    BY <1>4, KnowsKept
<1> QED
  BY <1>1, <1>2, <1>3, <1>4 DEF Next, RefreshWithoutCookie, Tick, GraceLapses, vars

(* Sessions are minted by logins and resets only. *)
LEMMA MintingOfStep ==
    ASSUME CalmInv, [Next]_vars, NEW p \in Minting'
    PROVE  \/ p \in Minting /\ req'[p].jar = req[p].jar
           \/ p \in Request /\ Mint(p)
<1>0. TypeOK /\ p \in Request
  BY CalmTypes DEF Minting, InFlight
<1>1. CASE \E q \in Request : Handle(q) \/ Receive(q)
  <2>1. PICK q \in Request : Handle(q) \/ Receive(q)
    BY <1>1
  <2>2. /\ q \in InFlight /\ \A r \in Request \ {q} : req'[r] = req[r]
        /\ req'[q].at = "done" \/ Carries(q)' = Carries(q)
    BY <2>1, HandleShape
  <2>3. CASE p # q
    BY <1>0, <2>2, <2>3 DEF Minting, InFlight
  <2>4. CASE p = q
    <3>1. req[p].kind \in {"login", "reset"} /\ req'[p].at = "answered"
      BY <2>2, <2>4 DEF Minting, InFlight, Carries
    <3>2. req[p].at \in {"sent", "answered", "listed", "marked", "ended"}
      BY <2>2, <2>4, <3>1 DEF CalmInv, KindsInStep, EndInv, EndsWhatItFound, Ending, InFlight
    <3>3. ~Finish(p)
      BY <1>0, <3>1, StepWrites
    <3>4. ~\E step \in Steps \ {"answered"} : Goto(p, step) \/ \E f : GotoWith(p, step, f)
      BY <1>0, <3>1, StepKeeps
    <3>5. {"sent", "held", "published", "unknown", "graced", "alarm", "listed", "marked", "ended",
           "refused"} \subseteq Steps \ {"answered"}
      BY DEF Steps
    <3> QED
      BY <2>1, <2>4, <3>1, <3>2, <3>3, <3>4, <3>5
         DEF Handle, Receive, LookUp, AskGrace, Converge, PublishGrace, CommitRotation,
             FailRotation, RaiseAlarm, Login, LogoutFind, LogoutCommit, LogoutMark, ChangeFind,
             ChangeCommit, ChangeMark, ResetFind, ResetMark, ResetCommit, ResetMint, Dropped,
             SignedIn, Expired, LoggedOut, Changed
  <2> QED
    BY <2>3, <2>4
<1>2. CASE \E q \in Request, t \in Tab : SendRefresh(q, t) \/ SendFromForm(q, t) \/ SendFromSettings(q, t)
  <2>1. PICK q \in Request, t \in Tab, kind \in Kinds : Send(q, t, kind)
    BY <1>2 DEF SendRefresh, SendFromForm, SendFromSettings, SignedOutForms, Kinds
  <2>2. req'[q].at = "sent" /\ \A r \in Request \ {q} : req'[r] = req[r]
    <3>1. WasSent(q, t, kind)
      BY <2>1, SendShape
    <3> QED
      BY <2>1, <3>1 DEF WasSent
  <2> QED
    BY <1>0, <2>2 DEF Minting, InFlight
<1>3. CASE \E t \in Tab : Reload(t)
  <2>1. /\ req'[p].kind = req[p].kind /\ req'[p].at = req[p].at /\ req'[p].jar = req[p].jar
        /\ req[p].orphan => req'[p].orphan
    BY <1>0, <1>3, RequestFields DEF Reload, RequestRecord
  <2> QED
    BY <1>0, <2>1 DEF Minting, InFlight
<1>4. CASE req' = req
  BY <1>4 DEF Minting, InFlight
<1> QED
  BY <1>1, <1>2, <1>3, <1>4 DEF Next, RefreshWithoutCookie, Tick, GraceLapses, vars

(* A JTI that an answer brings to a tab is its session's until it arrives. *)
LEMMA MintsStep ==
    ASSUME CalmInv, [Next]_vars, ~Overtaking
    PROVE  MintsArePrivate'
<1>0. Flow /\ Len(issued) \in Nat /\ TypeOK
  BY StepFlows, CalmTypes
<1>1. \A p \in Minting :
          /\ p \in Request /\ req[p].jar \in 1 .. Len(issued) /\ req[p].at = "answered"
          /\ req[p].jar = Current(req[p].jar)
          /\ \A b \in Browser : issued[req[p].jar] \notin Holds(b)
          /\ \A q \in Minting \ {p} : issued[req[q].jar] # issued[req[p].jar]
  BY <1>0, RequestFields DEF CalmInv, MintsArePrivate, Minting, InFlight
<1>2. CASE \E q \in Request : Mint(q)
  <2>1. PICK q \in Request : Mint(q)
    BY <1>2
  <2> DEFINE n == Len(issued')
             s == issued'[Len(issued')]
  <2>2. /\ n = Len(issued) + 1 /\ s \in Sid \ Minted /\ sessions'[s].jti = n
        /\ Answered(q, s, n) /\ UNCHANGED cookie
        /\ \A j \in 1 .. Len(issued) : Current(j)' = Current(j) /\ issued'[j] = issued[j]
    BY <2>1, MintFlow DEF Mint, browsers, Flow
  <2> HIDE DEF n, s
  <2>3. req'[q].jar = n /\ \A p \in Request \ {q} : req'[p] = req[p]
    BY <1>0, <2>2, StepKeeps, OthersUntouched
  <2>4. \A p \in Minting' : p = q \/ (p \in Minting /\ req'[p] = req[p])
    <3> SUFFICES ASSUME NEW p \in Minting', p # q PROVE p \in Minting /\ req'[p] = req[p]
      OBVIOUS
    <3> QED
      BY <2>3 DEF Minting, InFlight
  <2>5. \A b \in Browser : Holds(b)' \subseteq Holds(b)
    <3>1. ~\E r \in Request : SignedIn(r)
      <4>1. issued' # issued
        BY <1>0, <2>2 DEF n
      <4> QED
        BY <4>1 DEF SignedIn, database
    <3> QED
      BY <3>1, CarriedStep
  <2>6. \A b \in Browser : s \notin Holds(b)
    BY <2>2, CalmTypes DEF Holds, Shown
  <2>7. \A p \in Minting : /\ issued[req[p].jar] \in Minted
                           /\ issued'[req[p].jar] = issued[req[p].jar]
                           /\ Current(req[p].jar) = sessions'[issued'[req[p].jar]].jti
    BY <1>1, <2>2, CalmTypes DEF Current
  <2>8. ASSUME NEW p \in Minting'
        PROVE  /\ req'[p].jar # 0 /\ req'[p].jar = sessions'[issued'[req'[p].jar]].jti
               /\ \A b \in Browser : issued'[req'[p].jar] \notin Holds(b)'
               /\ \A r \in Minting' \ {p} : issued'[req'[r].jar] # issued'[req'[p].jar]
    <3>1. CASE p = q
      BY <1>0, <2>2, <2>3, <2>4, <2>5, <2>6, <2>7, <3>1 DEF n, s
    <3>2. CASE p \in Minting /\ req'[p] = req[p] /\ p # q
      BY <1>1, <2>2, <2>3, <2>4, <2>5, <2>7, <3>2 DEF n, s
    <3> QED
      BY <2>4, <3>1, <3>2
  <2> QED
    BY <2>8 DEF MintsArePrivate, Current
<1>3. CASE ~\E q \in Request : Mint(q)
  <2>1. \A p \in Minting' : p \in Minting /\ req'[p].jar = req[p].jar
    BY <1>3, MintingOfStep
  <2>2. ASSUME NEW p \in Minting
        PROVE  /\ issued'[req[p].jar] = issued[req[p].jar]
               /\ sessions'[issued'[req[p].jar]].jti = req[p].jar
    <3>1. PICK k \in 1 .. Len(issued) : k = req[p].jar
      BY <1>1
    <3>2. ~Rotated(k)
      BY <1>1, <3>1, AnswersAreUnused DEF Rotated
    <3>3. issued'[k] = issued[k] /\ Current(k)' = Current(k)
      BY <1>0, <3>2 DEF Flow
    <3> QED
      BY <1>1, <3>1, <3>3 DEF Current
  <2>3. ASSUME NEW p \in Minting', NEW b \in Browser PROVE issued'[req'[p].jar] \notin Holds(b)'
    <3>1. p \in Minting /\ req'[p].jar = req[p].jar /\ issued'[req'[p].jar] = issued[req[p].jar]
      BY <2>1, <2>2
    <3>2. issued[req[p].jar] \notin Holds(b)
      BY <1>1, <3>1
    <3>3. CASE Holds(b)' \subseteq Holds(b)
      BY <3>1, <3>2, <3>3
    <3>4. CASE \E q \in Request : SignedIn(q)
      <4>1. PICK q \in Request : SignedIn(q)
        BY <3>4
      <4>2. Holds(b)' \subseteq Holds(b) \cup {issued[req[q].jar]}
        BY <4>1, SignedInIsCarried
      <4>3. /\ q \in Expected \cup Minting /\ InFlight' = InFlight \ {q} /\ Home(q) \in Browser
            /\ q \in Expected => issued[req[q].jar] \in Holds(Home(q))
        BY <4>1, SignedInShape
      <4>4. p # q
        BY <4>3 DEF Minting
      <4>5. issued[req[q].jar] # issued[req[p].jar]
        BY <1>1, <3>1, <4>3, <4>4
      <4> QED
        BY <3>1, <3>2, <4>2, <4>5
    <3> QED
      BY <3>3, <3>4, CarriedStep
  <2> QED
    BY <1>1, <2>1, <2>2, <2>3 DEF MintsArePrivate, Current
<1> QED
  BY <1>2, <1>3

(* What a browser shows resolves: the row still has it, or its grace key   *)
(* leads there, or the session is over.                                    *)
LEMMA ResolvesKept ==
    ASSUME CalmInv, [Next]_vars, NEW b \in Browser, NEW j \in Shown(b)
    PROVE  Resolves(j)'
<1>1. Flow /\ Resolves(j) /\ j \in 1 .. Len(issued)
  BY StepFlows DEF CalmInv, ShownResolve, Shown
<1> SUFFICES ASSUME Alive(j)', Current(j)' # j PROVE Known(j)'
  BY DEF Resolves
<1>2. Alive(j)
  BY <1>1 DEF Flow
<1>3. CASE Current(j) # j
  BY <1>1, <1>2, <1>3, KnownKept DEF Resolves
<1>4. CASE Current(j) = j
  <2>1. PICK r \in Refreshing : Current(j) = req[r].jti /\ Known(req[r].jti)
    BY <1>1, <1>4 DEF Flow, Rotated
  <2> QED
    BY <1>4, <2>1, KnownKept
<1> QED
  BY <1>3, <1>4

(* Every browser, also with the cookie it has just got. *)
LEMMA ShownStep ==
    ASSUME CalmInv, [Next]_vars, ~Overtaking
    PROVE  ShownResolve'
<1> SUFFICES ASSUME NEW b \in Browser, NEW j \in Shown(b)' PROVE Resolves(j)'
  BY DEF ShownResolve
<1>1. CASE j \in Shown(b)
  BY <1>1, ResolvesKept
<1>2. CASE j \notin Shown(b)
  <2>1. PICK q \in Request : SignedIn(q)
    BY <1>2, CarriedStep
  <2>2. j = req[q].jar
    BY <1>2, <2>1, SignedInIsCarried
  <2>3. Current(j) = j /\ UNCHANGED <<sessions, issued>>
    BY <2>1, <2>2, SignedInShape
  <2> QED
    BY <2>3 DEF Resolves, Current
<1> QED
  BY <1>1, <1>2

(* A cookie stays, goes, or is replaced by an answer.                      *)
LEMMA CookieMoves ==
    ASSUME CalmInv, [Next]_vars, NEW b \in Browser
    PROVE  \/ cookie'[b] \in {0, cookie[b]}
           \/ \E q \in Request : SignedIn(q) /\ Home(q) = b
<1>1. CASE \E q \in Request : SignedIn(q)
  BY <1>1, SignedInShape
<1>2. CASE \E q \in Request : (Handle(q) \/ Receive(q)) /\ ~SignedIn(q)
  BY <1>2, HandleNarrows DEF Narrower
<1>3. CASE cookie' = cookie
  BY <1>3
<1> QED
  BY <1>1, <1>2, <1>3
     DEF Next, SendRefresh, SendFromForm, SendFromSettings, Send, Reload, RefreshWithoutCookie,
         Tick, GraceLapses, vars, browsers

(* The rotation that is on its way: before it, and after it.               *)
Rotating == {"sent", "held", "published"}

(* A refresh in flight was there before and has only gone on, or a tab has *)
(* just sent it; only a reload abandons it.                                *)
LEMMA RefreshMoves ==
    ASSUME CalmInv, [Next]_vars, NEW p \in Refreshing'
    PROVE  \/ /\ p \in Refreshing /\ req'[p].jti = req[p].jti /\ req'[p].tab = req[p].tab
              /\ \/ req'[p].orphan = req[p].orphan
                 \/ req'[p].orphan /\ req[p].tab \in Tab /\ Reload(req[p].tab)
              /\ req'[p].at \in Rotating => req[p].at \in Rotating
           \/ \E t \in Tab : SendRefresh(p, t) /\ ~req'[p].orphan
<1>0. TypeOK /\ p \in Request
  BY CalmTypes DEF Refreshing, InFlight
<1>1. CASE \E q \in Request : Handle(q) \/ Receive(q)
  <2>1. PICK q \in Request : Handle(q) \/ Receive(q)
    BY <1>1
  <2>2. /\ q \in InFlight /\ \A r \in Request \ {q} : req'[r] = req[r]
        /\ req'[q].at = "done" \/ Carries(q)' = Carries(q)
    BY <2>1, HandleShape
  <2>3. CASE p # q
    BY <1>0, <2>2, <2>3 DEF Refreshing, InFlight
  <2>4. CASE p = q
    <3>1. p \in Refreshing /\ Carries(p)' = Carries(p)
      BY <2>2, <2>4 DEF Refreshing, InFlight, Carries
    <3>2. req'[p].at \in Rotating => req[p].at \in Rotating
      <4> SUFFICES ASSUME req'[p].at \in Rotating, req[p].at \notin Rotating PROVE FALSE
        OBVIOUS
      <4>1. /\ req[p].kind = "refresh"
            /\ req[p].at \in {"unknown", "graced", "alarm", "answered", "refused"}
        BY <3>1, CalmTypes DEF Refreshing, RefreshKnows, Rotating
      <4>2. ~Finish(p)
        BY <1>0, StepWrites DEF Rotating
      <4>3. ~\E step \in Steps \ Rotating : Goto(p, step) \/ \E f : GotoWith(p, step, f)
        BY <1>0, StepKeeps
      <4>4. ~\E s, j : Answered(p, s, j)
        BY <1>0, StepKeeps DEF Rotating
      <4>5. {"graced", "alarm", "refused"} \subseteq Steps \ Rotating
        BY DEF Steps, Rotating
      <4> QED
        BY <2>1, <2>4, <4>1, <4>2, <4>3, <4>4, <4>5
           DEF Handle, Receive, LookUp, AskGrace, Converge, PublishGrace, CommitRotation,
               FailRotation, RaiseAlarm, Login, LogoutFind, LogoutCommit, LogoutMark, ChangeFind,
               ChangeCommit, ChangeMark, ResetFind, ResetMark, ResetCommit, ResetMint, Dropped,
               SignedIn, Expired, LoggedOut, Changed
    <3> QED
      BY <3>1, <3>2 DEF Carries
  <2> QED
    BY <2>3, <2>4
<1>2. CASE \E q \in Request, t \in Tab : SendRefresh(q, t)
  <2>1. PICK q \in Request, t \in Tab : SendRefresh(q, t)
    BY <1>2
  <2>2. Send(q, t, "refresh") /\ "refresh" \in Kinds
    BY <2>1 DEF SendRefresh, Kinds
  <2>3. ~req'[q].orphan /\ \A r \in Request \ {q} : req'[r] = req[r]
    <3>1. WasSent(q, t, "refresh")
      BY <2>2, SendShape
    <3> QED
      BY <2>2, <3>1 DEF WasSent
  <2>4. CASE p # q
    BY <1>0, <2>3, <2>4 DEF Refreshing, InFlight
  <2> QED
    BY <2>1, <2>3, <2>4
<1>3. CASE \E q \in Request, t \in Tab : SendFromForm(q, t) \/ SendFromSettings(q, t)
  <2>1. PICK q \in Request, t \in Tab, kind \in Kinds \ {"refresh"} : Send(q, t, kind)
    BY <1>3 DEF SendFromForm, SendFromSettings, SignedOutForms, Kinds
  <2>3. kind \in Kinds /\ kind # "refresh"
    OBVIOUS
  <2>2. req'[q].kind # "refresh" /\ \A r \in Request \ {q} : req'[r] = req[r]
    <3>1. req'[q].kind = kind /\ \A r \in Request \ {q} : req'[r] = req[r]
      <4>1. WasSent(q, t, kind)
        BY <2>1, <2>3, SendShape
      <4> QED
        BY <2>1, <2>3, <4>1 DEF WasSent
    <3> QED
      BY <2>3, <3>1
  <2> QED
    BY <1>0, <2>2 DEF Refreshing, InFlight
<1>4. CASE \E t \in Tab : Reload(t)
  <2>1. PICK t \in Tab : Reload(t)
    BY <1>4
  <2>2. /\ req'[p].kind = req[p].kind /\ req'[p].at = req[p].at /\ req'[p].jti = req[p].jti
        /\ req'[p].tab = req[p].tab
        /\ req'[p].orphan = (req[p].orphan \/ (p \in InFlight /\ req[p].tab = t))
        /\ req[p].orphan \in BOOLEAN
    BY <1>0, <2>1, RequestFields DEF Reload, RequestRecord
  <2>3. p \in Refreshing
    BY <1>0, <2>2 DEF Refreshing, InFlight
  <2>4. CASE req[p].tab = t
    BY <2>1, <2>2, <2>3, <2>4 DEF Refreshing
  <2>5. CASE req[p].tab # t
    BY <2>2, <2>3, <2>5
  <2> QED
    BY <2>4, <2>5
<1>5. CASE req' = req
  BY <1>5 DEF Refreshing, InFlight
<1> QED
  BY <1>1, <1>2, <1>3, <1>4, <1>5 DEF Next, RefreshWithoutCookie, Tick, GraceLapses, vars

(* What carries the JTI of a browser's cookie comes from that browser.     *)
LEMMA CarriersLiveHere ==
    ASSUME CalmInv, NEW b \in Browser, cookie[b] # 0, NEW p \in Refreshing,
           issued[req[p].jti] = issued[cookie[b]]
    PROVE  Home(p) = b
<1>1. cookie[b] \in Shown(b) /\ req[p].jti \in Shown(Home(p)) /\ Home(p) \in Browser
  BY CalmTypes DEF Shown
<1>2. issued[cookie[b]] \in Holds(b) \cap Holds(Home(p))
  BY <1>1 DEF Holds
<1> QED
  BY <1>1, <1>2 DEF CalmInv, Carried, OneBrowser

(* After a reload its tab loads, and waits for nothing yet.                *)
LEMMA ReloadLoads ==
    ASSUME CalmInv, NEW t \in Tab, Reload(t)
    PROVE  LoadingIn(BrowserOf[t])'
<1>1. tab'[t].status = "loading"
  BY ReloadShape, CalmTypes DEF TypeOK
<1>2. Awaited(t, {"refresh"})' = {}
  <2> SUFFICES ASSUME NEW p \in InFlight', req'[p].tab = t PROVE req'[p].orphan
    BY DEF Awaited
  <2> QED
    BY ReloadShape DEF InFlight
<1> QED
  BY <1>1, <1>2 DEF LoadingIn

(* A cookie that is exposed after a step was exposed before, or the step   *)
(* that exposes it brings what will restore it: the rotation's own answer, *)
(* or the tab that was reloaded.                                           *)
LEMMA ExposedBefore ==
    ASSUME CalmInv, [Next]_vars, NEW b \in Browser, Exposed(b)'
    PROVE  /\ cookie'[b] = cookie[b] /\ cookie[b] \in 1 .. Len(issued)
           /\ Alive(cookie[b]) /\ Alive(cookie[b])'
           /\ ~\E q \in Request : SignedIn(q) /\ Home(q) = b
           /\ Exposed(b) \/ LoadingIn(b)' \/ AnswerFor(b)'
<1>0. Flow /\ TypeOK /\ Len(issued) \in Nat
  BY StepFlows, CalmTypes
<1>1. ~\E q \in Request : SignedIn(q) /\ Home(q) = b
  <2> SUFFICES ASSUME NEW q \in Request, SignedIn(q), Home(q) = b PROVE FALSE
    OBVIOUS
  <2>1. /\ cookie'[b] = req[q].jar /\ Current(req[q].jar) = req[q].jar
        /\ \A p \in Refreshing : req[p].jti # req[q].jar
        /\ Refreshing' = Refreshing \ {q} /\ \A p \in Request \ {q} : req'[p] = req[p]
        /\ UNCHANGED <<sessions, issued>>
    BY SignedInShape
  <2>2. Current(req[q].jar) = sessions'[issued'[cookie'[b]]].jti
    BY <2>1 DEF Current
  <2>3. Abandoned(cookie[b])'
    BY <2>1, <2>2 DEF Exposed, Current
  <2>4. PICK p \in Refreshing' : req'[p].jti = cookie'[b]
    BY <2>3 DEF Abandoned
  <2>5. p \in Refreshing /\ req'[p] = req[p]
    BY <2>1, <2>4 DEF Refreshing, InFlight
  <2> QED
    BY <2>1, <2>4, <2>5
<1>2. cookie'[b] = cookie[b] /\ cookie[b] # 0
  BY <1>1, CookieMoves DEF Exposed
<1>3. PICK c \in 1 .. Len(issued) : c = cookie[b] /\ cookie'[b] = c
  BY <1>0, <1>2, CalmTypes
<1>4. /\ Alive(c)' /\ (Current(c)' # c \/ Abandoned(c)')
  BY <1>3 DEF Exposed, Alive, Current, Abandoned
<1>5. Alive(c) /\ issued'[c] = issued[c]
  BY <1>0, <1>4 DEF Flow
<1>6. CASE Current(c) # c
  BY <1>1, <1>3, <1>4, <1>5, <1>6 DEF Exposed, Alive, Current
<1>7. CASE Current(c) = c /\ Current(c)' # c
  <2>1. PICK r \in Refreshing : CommitRotation(r) /\ issued[c] = issued[req[r].jti] /\ req[r].jti = c
    BY <1>0, <1>7 DEF Flow, Rotated
  <2>2. Home(r) = b
    BY <1>2, <1>3, <2>1, CarriersLiveHere
  <2>3. CASE r \in Expected
    <3>1. r \in Request /\ Answered(r, issued[req[r].jti], Len(issued'))
      BY <2>1, CommitFlow, CalmTypes
    <3>2. /\ req'[r].at = "answered" /\ req'[r].kind = req[r].kind /\ req'[r].tab = req[r].tab
          /\ req'[r].jti = c /\ req'[r].orphan = req[r].orphan
      BY <1>0, <2>1, <3>1, StepKeeps
    <3>3. r \in Expected' /\ Home(r)' = b
      BY <2>2, <2>3, <3>1, <3>2 DEF Expected, Refreshing, InFlight, Home
    <3> QED
      BY <1>3, <1>4, <1>5, <1>1, <3>2, <3>3 DEF AnswerFor, Alive
  <2>4. CASE r \notin Expected
    <3>1. Abandoned(c)
      BY <2>1, <2>4 DEF Abandoned, CommitRotation
    <3> QED
      BY <1>3, <1>4, <1>5, <1>1, <3>1 DEF Exposed, Alive
  <2> QED
    BY <2>3, <2>4
<1>8. CASE Current(c) = c /\ Abandoned(c)'
  <2>1. PICK p \in (Refreshing \ Expected)' : req'[p].jti = c /\ req'[p].at \in Rotating
    BY <1>8 DEF Abandoned, Rotating
  <2>2. p \in Refreshing' /\ req'[p].orphan
    BY <2>1 DEF Expected
  <2>3. /\ p \in Refreshing /\ req[p].jti = c /\ req[p].at \in Rotating
        /\ \/ req'[p].orphan = req[p].orphan
           \/ req[p].tab \in Tab /\ Reload(req[p].tab)
    BY <2>1, <2>2, RefreshMoves
  <2>4. CASE req'[p].orphan = req[p].orphan
    <3>1. Abandoned(c)
      BY <2>2, <2>3, <2>4 DEF Abandoned, Expected, Rotating
    <3> QED
      BY <1>1, <1>3, <1>4, <1>5, <3>1 DEF Exposed, Alive
  <2>5. CASE req[p].tab \in Tab /\ Reload(req[p].tab)
    <3>1. Home(p) = b
      BY <1>2, <1>3, <2>3, CarriersLiveHere
    <3>2. PICK t \in Tab : t = req[p].tab /\ Reload(t)
      BY <2>5
    <3>3. BrowserOf[t] = b
      BY <3>1, <3>2 DEF Home
    <3>4. LoadingIn(BrowserOf[t])'
      BY <3>2, ReloadLoads
    <3>5. LoadingIn(b)'
      BY <3>3, <3>4 DEF LoadingIn
    <3> QED
      BY <1>1, <1>3, <1>4, <1>5, <3>5 DEF Alive
  <2> QED
    BY <2>3, <2>4, <2>5
<1> QED
  BY <1>4, <1>6, <1>7, <1>8, <1>1, <1>3, <1>5 DEF Alive

(* A tab that loads goes on loading, or it refreshes with the cookie.      *)
LEMMA LoadingKept ==
    ASSUME CalmInv, [Next]_vars, NEW b \in Browser, LoadingIn(b),
           cookie'[b] = cookie[b], cookie[b] \in 1 .. Len(issued),
           ~\E q \in Request : SignedIn(q) /\ Home(q) = b
    PROVE  LoadingIn(b)' \/ AnswerFor(b)'
<1>0. TypeOK /\ tab \in [Tab -> TabRecord] /\ cookie[b] # 0
  BY CalmTypes DEF TypeOK
<1>1. PICK t \in Tab : BrowserOf[t] = b /\ tab[t].status = "loading" /\ Awaited(t, {"refresh"}) = {}
  BY DEF LoadingIn
<1>3. CASE \E q \in Request : SendRefresh(q, t)
  <2>1. PICK q \in Request : SendRefresh(q, t)
    BY <1>3
  <2>2. Send(q, t, "refresh") /\ "refresh" \in Kinds
    BY <2>1 DEF SendRefresh, Kinds
  <2>3. /\ req'[q].kind = "refresh" /\ req'[q].tab = t /\ req'[q].jti = cookie[b]
        /\ req'[q].at = "sent" /\ ~req'[q].orphan
    <3>1. WasSent(q, t, "refresh")
      BY <1>1, <2>2, SendShape
    <3> QED
      BY <1>1, <2>2, <3>1 DEF WasSent
  <2>4. q \in Expected' /\ Home(q)' = b
    BY <1>1, <2>3 DEF Expected, Refreshing, InFlight, Home
  <2> QED
    BY <2>3, <2>4 DEF AnswerFor
<1>4. CASE ~\E q \in Request : SendRefresh(q, t)
  <2>1. Awaited(t, {"refresh"})' = {}
    <3> SUFFICES ASSUME NEW p \in InFlight', req'[p].tab = t, req'[p].kind = "refresh", ~req'[p].orphan
                 PROVE  FALSE
      BY DEF Awaited
    <3>1. p \in Refreshing'
      BY DEF Refreshing
    <3>2. CASE p \in Refreshing /\ req'[p].tab = req[p].tab /\ (req'[p].orphan = req[p].orphan)
      BY <1>1, <3>2 DEF Awaited, Refreshing
    <3>3. CASE \E u \in Tab : SendRefresh(p, u)
      <4>1. PICK u \in Tab : SendRefresh(p, u) /\ p \in Request
        BY <3>1, <3>3 DEF Refreshing, InFlight
      <4>2. Send(p, u, "refresh") /\ "refresh" \in Kinds
        BY <4>1 DEF SendRefresh, Kinds
      <4>3. req'[p].tab = u
        <5>1. WasSent(p, u, "refresh")
          BY <4>1, <4>2, SendShape
        <5> QED
          BY <4>1, <4>2, <5>1 DEF WasSent
      <4> QED
        BY <1>4, <4>1, <4>3
    <3> QED
      BY <3>1, <3>2, <3>3, RefreshMoves
  <2>2. tab'[t].status = "loading"
    <3>1. CASE tab' = tab
      BY <1>1, <3>1
    <3>2. ASSUME NEW q \in Request, SignedIn(q) PROVE tab'[t] = tab[t]
      <4>1. BrowserOf[req[q].tab] # b
        BY <3>2 DEF Home
      <4> QED
        BY <1>0, <1>1, <3>2, <4>1 DEF SignedIn
    <3>3. ASSUME NEW q \in Request, Expired(q) PROVE tab'[t] = tab[t]
      <4>1. q \in InFlight /\ req[q].at = "refused" /\ ~req[q].orphan /\ req[q].kind \in Kinds
        BY <1>0, <3>3, RequestFields DEF Expired, InFlight
      <4>2. req[q].kind \notin {"none", "login"} \cup Ending
        BY <4>1 DEF CalmInv, KindsInStep, EndInv, EndsWhatItFound
      <4>3. req[q].tab # t
        BY <1>1, <4>1, <4>2 DEF Kinds, Ending, Awaited
      <4> QED
        BY <1>0, <3>3, <4>3 DEF Expired
    <3>4. ASSUME NEW q \in Request, LoggedOut(q) PROVE tab'[t] = tab[t]
      <4>1. cookie \in [Browser -> 0 .. Len(issued)] /\ cookie' = [cookie EXCEPT ![BrowserOf[req[q].tab]] = 0]
        BY <1>0, <3>4 DEF TypeOK, LoggedOut
      <4>2. req[q].tab # t
        BY <1>0, <1>1, <4>1
      <4> QED
        BY <1>0, <3>4, <4>2 DEF LoggedOut
    <3>5. ASSUME NEW u \in Tab, Reload(u) PROVE tab'[t].status = "loading"
      BY <1>0, <1>1, <3>5 DEF Reload
    <3>6. ASSUME NEW u \in Tab, RefreshWithoutCookie(u) PROVE tab'[t] = tab[t]
      BY <1>0, <1>1, <3>6 DEF RefreshWithoutCookie
    <3>7. ASSUME NEW q \in Request, Handle(q) PROVE tab' = tab
      BY <3>7
         DEF Handle, LookUp, AskGrace, Converge, PublishGrace, CommitRotation, FailRotation, RaiseAlarm,
             Login, LogoutFind, LogoutCommit, LogoutMark, ChangeFind, ChangeCommit, ChangeMark, ResetFind,
             ResetMark, ResetCommit, ResetMint, Mint, browsers
    <3>8. ASSUME NEW q \in Request, Receive(q) PROVE tab'[t].status = "loading"
      BY <1>1, <3>1, <3>2, <3>3, <3>4, <3>8 DEF Receive, Dropped, Changed, browsers
    <3> QED
      BY <1>1, <3>1, <3>5, <3>6, <3>7, <3>8
         DEF Next, SendRefresh, SendFromForm, SendFromSettings, Send, Tick, GraceLapses, vars, browsers
  <2> QED
    BY <1>1, <2>1, <2>2 DEF LoadingIn
<1> QED
  BY <1>3, <1>4

(* An answer that a tab waits for comes, as its session is alive; or the   *)
(* tab is reloaded, and asks again.                                        *)
LEMMA AnswerKept ==
    ASSUME CalmInv, [Next]_vars, FailuresApart, NEW b \in Browser, Exposed(b), AnswerFor(b),
           cookie'[b] = cookie[b], cookie[b] \in 1 .. Len(issued), Alive(cookie[b])',
           ~\E q \in Request : SignedIn(q) /\ Home(q) = b
    PROVE  LoadingIn(b)' \/ AnswerFor(b)'
<1>1. PICK p \in Expected : Home(p) = b /\ req[p].jti = cookie[b] /\ req[p].at \notin {"alarm", "refused"}
  BY DEF AnswerFor
<1>2. /\ p \in Refreshing /\ p \in Request /\ p \in InFlight /\ req[p].kind = "refresh" /\ ~req[p].orphan
      /\ TypeOK /\ RefreshKnows(p) /\ Flow
  BY StepFlows, CalmTypes DEF Expected, Refreshing
<1>3. PICK c \in 1 .. Len(issued) : c = cookie[b] /\ cookie'[b] = c /\ req[p].jti = c
  BY <1>1
<1>4. Alive(c) /\ Alive(c)' /\ issued'[c] = issued[c]
  BY <1>2, <1>3 DEF Flow, Alive
<1>5. CASE req'[p] = req[p]
  BY <1>1, <1>2, <1>3, <1>5 DEF AnswerFor, Expected, Refreshing, InFlight, Home
<1>6. CASE \E t \in Tab : Reload(t)
  <2>1. PICK t \in Tab : Reload(t)
    BY <1>6
  <2>2. CASE req[p].tab = t
    <3>1. LoadingIn(BrowserOf[t])' /\ BrowserOf[t] = b
      BY <1>1, <2>1, <2>2, ReloadLoads DEF Home
    <3> QED
      BY <3>1
  <2>3. CASE req[p].tab # t
    <3>1. /\ req'[p].kind = "refresh" /\ req'[p].tab = req[p].tab /\ req'[p].jti = c
          /\ req'[p].at = req[p].at /\ req'[p].orphan = req[p].orphan /\ p \in InFlight'
      BY <1>2, <1>3, <2>1, <2>3, ReloadShape
    <3> QED
      BY <1>1, <1>2, <1>3, <3>1 DEF AnswerFor, Expected, Refreshing, Home
  <2> QED
    BY <2>2, <2>3
<1>7. CASE Handle(p) \/ Receive(p)
  <2>1. req'[p].at = "done" \/ Carries(p)' = Carries(p)
    BY <1>2, <1>7, HandleShape
  <2>2. ~Receive(p)
    <3>1. ~SignedIn(p)
      BY <1>1, <1>2
    <3> QED
      BY <1>1, <1>2, <3>1 DEF Receive, Dropped, Expired, LoggedOut, Changed
  <2>6. /\ \A step : Goto(p, step) => req'[p].at = step /\ req'[p].jti = c
        /\ \A step, f : GotoWith(p, step, f) => req'[p].at = step /\ req'[p].jti = c
        /\ \A s, j : Answered(p, s, j) => req'[p].at = "answered" /\ req'[p].jti = c
    BY <1>2, <1>3, StepKeeps
  <2>3. RefreshKnows(p)' /\ req'[p].jti = c /\ req'[p].at \notin {"done", "unsent", "alarm", "refused"}
    <3>1. ASSUME Goto(p, "refused") PROVE FALSE
      <4>1. req'[p].at = "refused" /\ req[p].at # "refused"
        BY <1>1, <2>6, <3>1
      <4>8. /\ ~\E step \in {"unknown", "published"} : Goto(p, step)
            /\ ~\E step \in {"held", "alarm", "graced"} : \E f : GotoWith(p, step, f)
            /\ ~\E s, j : Answered(p, s, j)
        BY <2>6, <4>1
      <4>2. CASE LookUp(p)
        <5>1. \E s \in WithJti(c) : ~sessions[s].active
          BY <1>3, <4>8, <4>2 DEF LookUp
        <5> QED
          BY <1>4, <4>1, <5>1, RowOf DEF Alive
      <4>3. CASE Converge(p)
        <5>1. req[p].found = {issued[c]}
          BY <1>2, <1>3, <4>3 DEF Converge, RefreshKnows
        <5>2. req'[p].at = "refused" => ~sessions[issued[c]].active
          BY <2>6, <4>3, <5>1 DEF Converge
        <5> QED
          BY <1>4, <4>1, <5>2 DEF Alive
      <4>4. CASE FailRotation(p)
        <5>1. req[p].at = "published"
          BY <4>4 DEF FailRotation
        <5>2. Expected = Refreshing
          BY <1>2, <4>4 DEF FailuresApart
        <5>3. Current(c) = c
          BY <1>2, <1>3, <5>1, HolderOf
        <5> QED
          BY <1>3, <5>2, <5>3 DEF Exposed, Abandoned
      <4>5. ~RaiseAlarm(p)
        BY <1>1 DEF RaiseAlarm
      <4>6. CASE AskGrace(p) \/ PublishGrace(p) \/ CommitRotation(p)
        BY <4>8, <4>6 DEF AskGrace, PublishGrace, CommitRotation
      <4>7. ~ResetCommit(p)
        BY <1>2 DEF ResetCommit, RefreshKnows
      <4> QED
        BY <1>2, <1>7, <2>2, <4>2, <4>3, <4>4, <4>5, <4>6, <4>7
           DEF Handle, Login, LogoutFind, LogoutCommit, LogoutMark, ChangeFind, ChangeCommit, ChangeMark,
               ResetFind, ResetMark, ResetMint
    <3>2. RefreshKnows(p)'
      BY <1>2, <1>7, <2>2, HandledKnows
    <3>3. ~ResetCommit(p) /\ ~RaiseAlarm(p)
      BY <1>1, <1>2 DEF ResetCommit, RaiseAlarm, RefreshKnows
    <3>7. /\ \A step \in {"unknown", "published", "refused"} : Goto(p, step) => req'[p].at = step /\ req'[p].jti = c
          /\ \A step \in {"held", "alarm", "graced"} : \A f : GotoWith(p, step, f) => req'[p].at = step /\ req'[p].jti = c
          /\ \A s, j : Answered(p, s, j) => req'[p].at = "answered" /\ req'[p].jti = c
      BY <2>6
    <3>4. req'[p].jti = c /\ req'[p].at \in {"unknown", "held", "alarm", "graced", "answered", "published", "refused"}
      BY <1>2, <1>7, <2>2, <3>7, <3>3
         DEF Handle, LookUp, AskGrace, Converge, PublishGrace, CommitRotation, FailRotation,
             Login, LogoutFind, LogoutCommit, LogoutMark, ChangeFind, ChangeCommit, ChangeMark,
             ResetFind, ResetMark, ResetMint
    <3>5. req'[p].at # "alarm"
      BY <1>3, <1>4, <3>2, <3>4 DEF RefreshKnows, Alive
    <3>6. req'[p].at # "refused"
      <4>1. req'[p].at = "refused" => Goto(p, "refused")
        BY <1>2, <1>7, <2>2, <3>7, <3>3
           DEF Handle, LookUp, AskGrace, Converge, PublishGrace, CommitRotation, FailRotation,
               Login, LogoutFind, LogoutCommit, LogoutMark, ChangeFind, ChangeCommit, ChangeMark,
               ResetFind, ResetMark, ResetMint
      <4> QED
        BY <3>1, <4>1
    <3> QED
      BY <3>2, <3>4, <3>5, <3>6
  <2>4. Carries(p)' = Carries(p)
    BY <2>1, <2>3
  <2>5. p \in Expected' /\ Home(p)' = b
    BY <1>1, <1>2, <2>3, <2>4 DEF Expected, Refreshing, InFlight, Home, Carries
  <2> QED
    BY <1>3, <2>3, <2>5 DEF AnswerFor
<1>8. ASSUME NEW q \in Request, NEW t \in Tab, NEW kind \in Kinds, Send(q, t, kind)
      PROVE  req'[p] = req[p]
  <2>1. WasSent(q, t, kind)
    BY <1>2, <1>8, SendShape
  <2> QED
    BY <1>2, <1>8, <2>1 DEF WasSent
<1> QED
  <2>1. \A q \in Request : q # p /\ (Handle(q) \/ Receive(q)) => req'[p] = req[p]
    BY <1>2, HandleShape
  <2>2. ASSUME NEW q \in Request, NEW t \in Tab,
               SendRefresh(q, t) \/ SendFromForm(q, t) \/ SendFromSettings(q, t)
        PROVE  req'[p] = req[p]
    BY <1>8, <2>2 DEF SendRefresh, SendFromForm, SendFromSettings, SignedOutForms, Kinds
  <2> QED
    BY <1>5, <1>6, <1>7, <2>1, <2>2 DEF Next, RefreshWithoutCookie, Tick, GraceLapses, vars

(* A spent cookie is never left alone. *)
LEMMA ExposedStep ==
    ASSUME CalmInv, [Next]_vars, FailuresApart
    PROVE  ExposedIsRestored'
<1> SUFFICES ASSUME NEW b \in Browser, Exposed(b)' PROVE LoadingIn(b)' \/ AnswerFor(b)'
  BY DEF ExposedIsRestored
<1>1. /\ cookie'[b] = cookie[b] /\ cookie[b] \in 1 .. Len(issued)
      /\ Alive(cookie[b]) /\ Alive(cookie[b])'
      /\ ~\E q \in Request : SignedIn(q) /\ Home(q) = b
      /\ Exposed(b) \/ LoadingIn(b)' \/ AnswerFor(b)'
  BY ExposedBefore
<1>2. Exposed(b) => LoadingIn(b) \/ AnswerFor(b)
  BY DEF CalmInv, ExposedIsRestored
<1> QED
  BY <1>1, <1>2, LoadingKept, AnswerKept

(* At first nobody has a cookie. *)
LEMMA CalmInit == Init => CalmInv
<1> SUFFICES ASSUME Init PROVE CalmInv
  OBVIOUS
<1>1. EndInv
  BY EndInvInit
<1>2. InFlight = {} /\ Refreshing = {} /\ Expected = {} /\ Minting = {}
  BY DEF Init, InFlight, Refreshing, Expected, Minting, Unsent
<1>3. Len(issued) = 0 /\ 1 .. Len(issued) = {} /\ grace = {} /\ \A b \in Browser : cookie[b] = 0
  BY DEF Init
<1>4. \A b \in Browser : Shown(b) = {} /\ Holds(b) = {}
  BY <1>3 DEF Shown, Holds
<1>5. KindsInStep /\ RefreshesKnow /\ MintsArePrivate
  BY <1>2 DEF KindsInStep, RefreshesKnow, MintsArePrivate
<1>6. GraceIsTrue /\ CurrentIsLatest
  BY <1>3 DEF GraceIsTrue, CurrentIsLatest
<1>7. Carried
  BY <1>2, <1>4 DEF Carried, OneBrowser, SameJti, OrphansAreOlder, CookieIsLatest, NoOrphanYet
<1>8. ShownResolve /\ ExposedIsRestored
  BY <1>3, <1>4 DEF ShownResolve, ExposedIsRestored, Exposed
<1> QED
  BY <1>1, <1>5, <1>6, <1>7, <1>8 DEF CalmInv

(* The step of the invariant, from its parts. *)
LEMMA CalmStep ==
    ASSUME ~Overtaking
    PROVE  CalmInv /\ [Next]_vars /\ FailuresApart => CalmInv'
<1> SUFFICES ASSUME CalmInv, [Next]_vars, FailuresApart PROVE CalmInv'
  OBVIOUS
<1>1. EndInv'
  BY EndInvStep DEF CalmInv
<1>2. KindsInStep' /\ RefreshesKnow' /\ MintsArePrivate'
  BY KindsStep, RefreshesKnowStep, MintsStep
<1>3. GraceIsTrue' /\ CurrentIsLatest' /\ Carried'
  BY GraceStaysTrue, LatestStep, CarriedStep
<1>4. ShownResolve' /\ ExposedIsRestored'
  BY ShownStep, ExposedStep
<1> QED
  BY <1>1, <1>2, <1>3, <1>4 DEF CalmInv

(* A stuttering step fails no commit. *)
LEMMA NothingFailsAtRest ==
    ASSUME TypeOK, UNCHANGED vars
    PROVE  FailuresApart
BY DEF FailuresApart, FailRotation, TypeOK, vars

(* With one mishap in all, a reload leaves no commit to fail.              *)
LEMMA OneMishapIsApart ==
    ASSUME CalmInv, MaxMishaps <= 1
    PROVE  FailuresApart
<1> SUFFICES ASSUME NEW q \in Request, FailRotation(q) PROVE Expected = Refreshing
  BY DEF FailuresApart
<1>1. mishaps \in Nat /\ MaxMishaps \in Nat /\ mishaps < MaxMishaps
  BY CalmTypes, AuthBounds DEF TypeOK, FailRotation
<1>2. mishaps = 0
  BY <1>1
<1> QED
  BY <1>2 DEF CalmInv, Carried, NoOrphanYet

(* The two properties, of any state of the invariant. *)
LEMMA CalmImplies == CalmInv => NoFalseAlarm /\ RacersConverge
<1> SUFFICES ASSUME CalmInv PROVE NoFalseAlarm /\ RacersConverge
  OBVIOUS
<1>1. NoFalseAlarm
  <2> SUFFICES ASSUME NEW q \in Request, req[q].at = "alarm"
               PROVE  ~sessions[issued[req[q].jti]].active
    BY DEF NoFalseAlarm
  <2>1. q \in InFlight /\ req[q].kind \in Kinds
    BY CalmTypes, RequestFields DEF InFlight
  <2>2. req[q].kind \notin {"none", "login"} \cup Ending
    BY <2>1 DEF CalmInv, KindsInStep, EndInv, EndsWhatItFound
  <2>3. RefreshKnows(q)
    BY <2>1, <2>2, CalmTypes DEF Refreshing, Kinds, Ending
  <2> QED
    BY <2>3 DEF RefreshKnows, Alive
<1>2. RacersConverge
  <2> SUFFICES ASSUME NEW b \in Browser, Settled(b), cookie[b] # 0,
                      sessions[issued[cookie[b]]].active
               PROVE  sessions[issued[cookie[b]]].jti = cookie[b]
    BY DEF RacersConverge
  <2>1. ~LoadingIn(b)
    BY DEF LoadingIn, Settled
  <2>2. ~AnswerFor(b)
    BY DEF AnswerFor, Settled, From, Expected, Refreshing, Home
  <2>3. ~Exposed(b)
    BY <2>1, <2>2 DEF CalmInv, ExposedIsRestored
  <2> QED
    BY <2>3 DEF Exposed, Alive, Current
<1> QED
  BY <1>1, <1>2

(* However often tabs race and are reloaded and commits fail: as long as   *)
(* no commit fails while an abandoned refresh is on its way, no live       *)
(* session is taken for stolen, and a browser at rest has the current      *)
(* cookie of its session (auth_service.py:131-193, client.ts).             *)
THEOREM RacersAreNoThieves ==
    ASSUME ~Overtaking
    PROVE  Spec /\ [][FailuresApart]_vars => [](NoFalseAlarm /\ RacersConverge)
<1>1. CalmInv /\ [Next]_vars /\ [FailuresApart]_vars => CalmInv'
  <2> SUFFICES ASSUME CalmInv, [Next]_vars, [FailuresApart]_vars PROVE CalmInv'
    OBVIOUS
  <2>1. FailuresApart
    BY CalmTypes, NothingFailsAtRest
  <2> QED
    BY <2>1, CalmStep
<1> QED
  BY <1>1, CalmInit, CalmImplies, PTL DEF Spec

(* The invariant of the specification with one mishap. *)
LEMMA CalmHolds ==
    ASSUME ~Overtaking, MaxMishaps <= 1
    PROVE  Spec => []CalmInv
<1>1. CalmInv /\ [Next]_vars => CalmInv'
  BY CalmStep, OneMishapIsApart
<1> QED
  BY <1>1, CalmInit, PTL DEF Spec

(* One reload or one failed commit never makes a thief of a tab: the reuse *)
(* defence ends sessions that are over already (auth_service.py:144-150).  *)
THEOREM NoFalseAlarmHolds ==
    ASSUME ~Overtaking, MaxMishaps <= 1
    PROVE  Spec => []NoFalseAlarm
BY CalmHolds, CalmImplies, PTL

(* And a browser at rest has the current cookie of its session, if that is *)
(* alive: the racers of every rotation got its answer in the end           *)
(* (auth_service.py:158-168).                                              *)
THEOREM RacersConvergeHolds ==
    ASSUME ~Overtaking, MaxMishaps <= 1
    PROVE  Spec => []RacersConverge
BY CalmHolds, CalmImplies, PTL
=============================================================================
