--------------------------- MODULE MCAuthSessions ---------------------------
(* Instances of AuthSessions for TLC.                                      *)
EXTENDS AuthSessions, TLC

CONSTANTS b1, b2, t1, t2, t3, d1

TwoTabs == (t1 :> b1) @@ (t2 :> b1)
TwoDevices == (t1 :> b1) @@ (t2 :> b1) @@ (t3 :> b2)

Interchangeable == Permutations(Request) \cup Permutations({t1, t2})

(* The first browser is signed in, in all its tabs, with session d1. *)
SignedInFrom(b) ==
    /\ sessions = [s \in Sid |-> IF s = d1 THEN [jti |-> 1, active |-> TRUE]
                                          ELSE [jti |-> 0, active |-> FALSE]]
    /\ lock = [s \in Sid |-> NoSid]
    /\ issued = <<d1>>
    /\ grace = {} /\ lapsed = {} /\ revokedSid = {} /\ revokedAt = 0
    /\ clock = 1
    /\ cookie = [c \in Browser |-> IF c = b THEN 1 ELSE 0]
    /\ tab = [t \in Tab |->
                IF BrowserOf[t] = b
                THEN [access |-> [sid |-> d1, iat |-> 1], status |-> "authenticated"]
                ELSE Anonymous]
    /\ req = [q \in Request |-> Unsent]
    /\ mishaps = 0

(* The same browser a little later: a refresh has rotated the session, but *)
(* its tab was reloaded before the answer came and starts from JTI 1.      *)
AnswerLostIn(b, x) ==
    /\ sessions = [s \in Sid |-> IF s = d1 THEN [jti |-> 2, active |-> TRUE]
                                          ELSE [jti |-> 0, active |-> FALSE]]
    /\ lock = [s \in Sid |-> NoSid]
    /\ issued = <<d1, d1>>
    /\ grace = {[jti |-> 1, sid |-> d1]}
    /\ lapsed = {} /\ revokedSid = {} /\ revokedAt = 0
    /\ clock = 1
    /\ cookie = [c \in Browser |-> IF c = b THEN 1 ELSE 0]
    /\ tab = [t \in Tab |->
                IF t = x THEN [access |-> NoToken, status |-> "loading"]
                ELSE IF BrowserOf[t] = b
                THEN [access |-> [sid |-> d1, iat |-> 1], status |-> "authenticated"]
                ELSE Anonymous]
    /\ req = [q \in Request |-> Unsent]
    /\ mishaps = 1

SignedInSpec == SignedInFrom(b1) /\ [][Next]_vars
ReloadedSpec == (SignedInFrom(b1) \/ \E x \in {t1, t2} : AnswerLostIn(b1, x)) /\ [][Next]_vars
=============================================================================
