----------------------------- MODULE LegacyAuth -----------------------------
(***************************************************************************)
(* The sign-ins of a development server: a capture, which reuses the one   *)
(* stored session or opens a browser window where somebody logs in, and    *)
(* the Microsoft sign-in with its one-time states.  The window has one     *)
(* profile, the cookies of which are those of whoever used it last; a      *)
(* Kulon cookie is a number, 0 is none, and it may die at any time.        *)
(***************************************************************************)
EXTENDS Integers, FiniteSets, Functions

CONSTANTS People, Windows, States, Callbacks,
          Shared,       \* the identity "sso", of a session nobody is known for
          MaxCookies, MaxSignIns

\* Kulon's identities are its users' own; "sso" is what a session is kept under when
\* it names none, and a state is random.
ASSUME PeopleAssumption == Shared \notin People /\ States \cap People = {}

VARIABLES ownerOf,       \* Kulon cookie -> whose it is
          living,        \* the cookies that live
          jar,           \* the Kulon cookie of the browser profile
          window,        \* the capture whose window is open, if any
          capture,       \* capture -> where it is
          pendingStates, \* OIDC state -> unused, pending, expired or gone
          callback,      \* callback -> where it is
          sessions,      \* identity -> the stored session
          tokens,        \* the tokens signed, each with its session's Kulon cookie
          lastGeneration \* the generations are numbered as they are made

legacyVars == <<ownerOf, living, jar, window, capture, pendingStates, callback, sessions,
                tokens, lastGeneration>>
browserVars == <<ownerOf, living, jar>>
oidcVars == <<pendingStates, callback>>

Identities == People \cup States \cup {Shared}

Doing(step, cookie, sub, generation) ==
    [step |-> step, cookie |-> cookie, sub |-> sub, generation |-> generation]
Resting(step) == Doing(step, 0, Shared, 0)
Session(cookie, generation, fresh) ==
    [cookie |-> cookie, generation |-> generation, fresh |-> fresh]
NothingStored == Session(0, 0, FALSE)
NoWindow == {}

\* A session's generation, unlike every other one.
NewGeneration == lastGeneration + 1

LegacyInit ==
    /\ ownerOf = <<>> /\ living = {} /\ jar = 0 /\ window = NoWindow
    /\ capture = [c \in Windows |-> Resting("idle")]
    /\ pendingStates = [s \in States |-> "unused"]
    /\ callback = [b \in Callbacks |-> Resting("idle")]
    /\ sessions = [i \in Identities |-> NothingStored]
    /\ tokens = {} /\ lastGeneration = 0

Goes(c, doing) == capture' = [capture EXCEPT ![c] = doing]

(***************************************************************************)
(* captureSsoSession                                                       *)
(***************************************************************************)
Stored == {i \in Identities : sessions[i] # NothingStored}

\* With reuse on, the one stored session, when it is fresh, is probed first.
captureSsoSession(c) ==
    /\ capture[c].step = "idle"
    /\ \E reuseEnabled \in BOOLEAN :
       IF reuseEnabled /\ Cardinality(Stored) = 1
            /\ \A i \in Stored : sessions[i].fresh
       THEN \E i \in Stored :
            Goes(c, Doing("probe", sessions[i].cookie, i, sessions[i].generation))
       ELSE Goes(c, Resting("launch"))
    /\ UNCHANGED <<browserVars, oidcVars, window, sessions, tokens, lastGeneration>>

\* The probe says valid of a living cookie only, and not always.
Valid(cookie) == {FALSE} \cup {cookie \in living}

\* The token for the session of identity `sub`, which holds `cookie`.
Sign(sub, generation, by, cookie) ==
    tokens' = tokens \cup {[sub |-> sub, generation |-> generation, by |-> by, cookie |-> cookie]}

ReuseProbed(c) ==
    /\ capture[c].step = "probe"
    /\ \E valid \in Valid(capture[c].cookie) :
       IF valid
       THEN /\ Sign(capture[c].sub, capture[c].generation, "reuse", capture[c].cookie)
            /\ Goes(c, Resting("done"))
       ELSE Goes(c, Resting("launch")) /\ UNCHANGED tokens
    /\ UNCHANGED <<browserVars, oidcVars, window, sessions, lastGeneration>>

\* The profile is in use while a window is open: a second launch fails.
Launch(c) ==
    /\ capture[c].step = "launch"
    /\ IF window = NoWindow THEN window' = {c} /\ Goes(c, Resting("login"))
       ELSE UNCHANGED window /\ Goes(c, Resting("failed"))
    /\ UNCHANGED <<browserVars, oidcVars, sessions, tokens, lastGeneration>>

\* The window's page reaches the SSO dashboard, then Kulon's session is valid,
\* then SIAP's; only then are the cookies read and the window closed.
DashboardReached(c) ==
    /\ capture[c].step = "login"
    /\ Goes(c, Resting("kulon"))
    /\ UNCHANGED <<browserVars, oidcVars, window, sessions, tokens, lastGeneration>>

establishKulonSession(c) ==
    /\ capture[c].step = "kulon"
    /\ TRUE \in Valid(jar)
    /\ Goes(c, Resting("siap"))
    /\ UNCHANGED <<browserVars, oidcVars, window, sessions, tokens, lastGeneration>>

establishSiapSession(c) ==
    /\ capture[c].step = "siap"
    /\ Goes(c, Doing("check", jar, Shared, NewGeneration))
    /\ window' = NoWindow /\ lastGeneration' = NewGeneration
    /\ UNCHANGED <<browserVars, oidcVars, sessions, tokens>>

CaptureTimesOut(c) ==
    /\ capture[c].step \in {"login", "kulon", "siap"}
    /\ Goes(c, Resting("failed"))
    /\ window' = NoWindow
    /\ UNCHANGED <<browserVars, oidcVars, sessions, tokens, lastGeneration>>

\* Kulon's cookie is kept when it is valid once more, now that the window is
\* closed, and stripped otherwise.
Checked(c) ==
    /\ capture[c].step = "check"
    /\ \E valid \in Valid(capture[c].cookie) :
       Goes(c, IF valid THEN [capture[c] EXCEPT !.step = "identity"]
               ELSE [capture[c] EXCEPT !.step = "store", !.cookie = 0])
    /\ UNCHANGED <<browserVars, oidcVars, window, sessions, tokens, lastGeneration>>

\* Whom Kulon says `cookie` belongs to; nobody, when it cannot be read.
IdentityOfWindow(cookie) == {Shared} \cup (IF jar \in living THEN {ownerOf[jar]} ELSE {})
IdentityOf(cookie) == {Shared} \cup (IF cookie \in living THEN {ownerOf[cookie]} ELSE {})

getSessionIdentity(c) ==
    /\ capture[c].step = "identity"
    /\ \E sub \in IdentityOf(capture[c].cookie) :
          Goes(c, [capture[c] EXCEPT !.step = "store", !.sub = sub])
    /\ UNCHANGED <<browserVars, oidcVars, window, sessions, tokens, lastGeneration>>

StoreCapture(c) ==
    /\ capture[c].step = "store"
    /\ sessions' = [sessions EXCEPT ![capture[c].sub] =
                       Session(capture[c].cookie, capture[c].generation, TRUE)]
    /\ Goes(c, [capture[c] EXCEPT !.step = "sign"])
    /\ UNCHANGED <<browserVars, oidcVars, window, tokens, lastGeneration>>

SignCapture(c) ==
    /\ capture[c].step = "sign"
    /\ Sign(capture[c].sub, capture[c].generation, "playwright", capture[c].cookie)
    /\ Goes(c, Resting("done"))
    /\ UNCHANGED <<browserVars, oidcVars, window, sessions, lastGeneration>>

\* Another request captures, once the last one was answered.
NextCapture(c) ==
    /\ capture[c].step \in {"done", "failed"} /\ Cardinality(tokens) < MaxSignIns
    /\ Goes(c, Resting("idle"))
    /\ UNCHANGED <<browserVars, oidcVars, window, sessions, tokens, lastGeneration>>

(***************************************************************************)
(* The Microsoft sign-in                                                   *)
(***************************************************************************)

\* A state is issued, and what has expired is dropped.
issueState(s) ==
    /\ pendingStates[s] = "unused"
    /\ pendingStates' = [t \in States |->
          CASE t = s -> "pending"
            [] t # s /\ pendingStates[t] = "expired" -> "gone"
            [] OTHER -> pendingStates[t]]
    /\ UNCHANGED <<browserVars, window, capture, callback, sessions, tokens, lastGeneration>>

\* A state is good for one callback: it goes before the code is exchanged.
TakeStateLater(s) == pendingStates
TakeState(s) == [pendingStates EXCEPT ![s] = "gone"]

\* The callback comes with a state, pending or not, and a code that is one.
handleCallback(b, s) ==
    /\ callback[b].step = "idle" /\ pendingStates[s] # "unused"
    /\ IF pendingStates[s] = "pending"
       THEN /\ pendingStates' = TakeState(s)
            /\ \E codeIsOne \in BOOLEAN :
                  callback' = [callback EXCEPT ![b] =
                     IF codeIsOne THEN Doing("exchange", 0, s, 0) ELSE Resting("failed")]
       ELSE /\ pendingStates' = [pendingStates EXCEPT ![s] = "gone"]
            /\ callback' = [callback EXCEPT ![b] = Resting("failed")]
    /\ UNCHANGED <<browserVars, window, capture, sessions, tokens, lastGeneration>>

\* Microsoft's answer; the session is stored under the state.
consumeTokenResponse(b) ==
    /\ callback[b].step = "exchange"
    /\ \/ /\ callback' = [callback EXCEPT ![b] = Resting("failed")]
          /\ UNCHANGED <<sessions, lastGeneration>>
       \/ /\ lastGeneration' = NewGeneration
          /\ sessions' = [sessions EXCEPT ![callback[b].sub] = Session(0, NewGeneration, TRUE)]
          /\ callback' = [callback EXCEPT ![b] = [@ EXCEPT !.step = "sign",
                                                           !.generation = NewGeneration]]
    /\ UNCHANGED <<browserVars, pendingStates, window, capture, tokens>>

SignCallback(b) ==
    /\ callback[b].step = "sign"
    /\ Sign(callback[b].sub, callback[b].generation, "oidc", 0)
    /\ callback' = [callback EXCEPT ![b] = Resting("done")]
    /\ UNCHANGED <<browserVars, pendingStates, window, capture, sessions, lastGeneration>>

(***************************************************************************)
(* The people at the window, and time                                      *)
(***************************************************************************)
LogInAtWindow(p) ==
    /\ window # NoWindow /\ Cardinality(DOMAIN ownerOf) < MaxCookies
    /\ LET cookie == Cardinality(DOMAIN ownerOf) + 1 IN
       /\ ownerOf' = [n \in 1..cookie |-> IF n = cookie THEN p ELSE ownerOf[n]]
       /\ living' = living \cup {cookie}
       /\ jar' = cookie
    /\ UNCHANGED <<oidcVars, window, capture, sessions, tokens, lastGeneration>>

CookieDies(cookie) ==
    /\ cookie \in living
    /\ living' = living \ {cookie}
    /\ UNCHANGED <<oidcVars, ownerOf, jar, window, capture, sessions, tokens, lastGeneration>>

StateExpires(s) ==
    /\ pendingStates[s] = "pending"
    /\ pendingStates' = [pendingStates EXCEPT ![s] = "expired"]
    /\ UNCHANGED <<browserVars, window, capture, callback, sessions, tokens, lastGeneration>>

\* A session grows old, or it is gone.
SessionAges(i) ==
    /\ sessions[i] # NothingStored
    /\ sessions' = [sessions EXCEPT ![i] = IF @.fresh THEN [@ EXCEPT !.fresh = FALSE]
                                           ELSE NothingStored]
    /\ UNCHANGED <<browserVars, oidcVars, window, capture, tokens, lastGeneration>>

LegacyNext ==
    \/ \E c \in Windows :
          \/ captureSsoSession(c) \/ ReuseProbed(c) \/ Launch(c) \/ DashboardReached(c)
          \/ establishKulonSession(c) \/ establishSiapSession(c) \/ CaptureTimesOut(c)
          \/ Checked(c) \/ getSessionIdentity(c) \/ StoreCapture(c) \/ SignCapture(c)
          \/ NextCapture(c)
    \/ \E s \in States :
          issueState(s) \/ StateExpires(s) \/ \E b \in Callbacks : handleCallback(b, s)
    \/ \E b \in Callbacks : consumeTokenResponse(b) \/ SignCallback(b)
    \/ \E p \in People : LogInAtWindow(p)
    \/ \E cookie \in 1..MaxCookies : CookieDies(cookie)
    \/ \E i \in Identities : SessionAges(i)

(***************************************************************************)
(* Properties                                                              *)
(***************************************************************************)

\* A session stored under a person holds that person's Kulon cookie, or none,
\* however the window changed hands while a capture was under way
\* (captureSsoSession, launchAndCaptureSession).
StoredUnderItsOwner ==
    \A p \in People : sessions[p].cookie # 0 => ownerOf[sessions[p].cookie] = p

\* No two sign-ins with Microsoft end in tokens for the same identity, so that
\* none overwrites the session of another (handleCallback; the comment at
\* handleMicrosoftCallback says so of concurrent attempts).
SignInsStayApart ==
    \A t, u \in tokens : t.by = "oidc" /\ u.by = "oidc" /\ t.sub = u.sub => t = u

\* A token that names a person, by a capture or by reuse, was signed for a session
\* with that person's Kulon cookie (captureSsoSession).
TokensNameTheOwner ==
    \A t \in tokens : t.sub \in People => t.cookie # 0 /\ ownerOf[t.cookie] = t.sub

\* The stored session a token's generation fits is the one it was signed for: under
\* the token's identity, and with the same Kulon cookie (captureSsoSession).
TokensFitTheirSession ==
    \A t \in tokens, i \in Identities :
        (t.generation # 0 /\ sessions[i].generation = t.generation)
        => (i = t.sub /\ sessions[i].cookie = t.cookie)

=============================================================================
