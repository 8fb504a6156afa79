----------------------------- MODULE SiapClient -----------------------------
(***************************************************************************)
(* The SIAP client: SiapService over SiapUpstreamSession and SiapApi.      *)
(*                                                                         *)
(* A call reads the live session, resolves the student's identity and an   *)
(* API token, each behind a cache and a single flight per generation, and  *)
(* sends one or several requests with that token.  SIAP keeps ONE valid    *)
(* token per student: every mint, also one by SIAP's own app, revokes the  *)
(* token before.  A call whose token is rejected deletes the cached token, *)
(* resolves again and starts over, once.                                   *)
(***************************************************************************)
EXTENDS Naturals

CONSTANTS Calls,      \* runs of the service's methods
          MaxMints,   \* bound on the tokens minted, here or by SIAP's app
          MaxSessions \* bound on the logins

ASSUME SiapBounds == MaxMints \in Nat /\ MaxSessions \in Nat \ {0}

\* How a method reads: `retries` is whether a rejected token is replaced,
\* `inTry` whether the first resolution may be retried as well, `cookie` whether
\* the session must hold the page cookie, `api` whether a token is needed,
\* `current` whether the live generation is taken whatever it is, `requests` how
\* many requests are sent one after the other, two standing for many.
fetchWithSessionContext ==
    [retries |-> TRUE, inTry |-> TRUE, cookie |-> TRUE, api |-> TRUE,
     current |-> FALSE, requests |-> 1]

getJadwal == fetchWithSessionContext
getNotifications == fetchWithSessionContext

\* It runs getJadwal afterwards, a call of its own whose failure it swallows.
getAbsen == fetchWithSessionContext

getJadwalForCurrentSession == [fetchWithSessionContext EXCEPT !.current = TRUE]

\* A list, then what depends on it, in parallel.
getIrs == [fetchWithSessionContext EXCEPT !.inTry = FALSE, !.cookie = FALSE, !.requests = 2]

\* The scrape of the detail ids, with the cookie if there is one, may fail.
getKhs == getIrs

\* The merge with the scraped profile may fail.
getProfile == [getIrs EXCEPT !.retries = FALSE]

\* A profile, then a page for each semester.
getLecturers == [getProfile EXCEPT !.cookie = TRUE]

fetchWithCookie == [fetchWithSessionContext EXCEPT !.retries = FALSE, !.inTry = FALSE,
                                                   !.api = FALSE]

getKehadiran == fetchWithCookie
getNilaiDetail == fetchWithCookie
markKehadiran == fetchWithCookie
markNotification == fetchWithCookie

SiapMethods ==
    {getJadwal, getNotifications, getAbsen, getJadwalForCurrentSession, getIrs, getKhs,
     getProfile, getLecturers, getKehadiran, getNilaiDetail, markKehadiran, markNotification}

VARIABLES session,  \* the stored record: its generation (0: none), page cookie, mail address
          identity, \* generations whose identity is cached
          token,    \* the cached token of each generation; 0 is none
          flight,   \* the identity and token flights of each generation
          valid,    \* the token SIAP accepts: the last one minted
          call      \* the calls

siapVars == <<session, identity, token, flight, valid, call>>

Generations == 1..MaxSessions

NoCall == [pc |-> "idle", method |-> fetchWithCookie, ref |-> 0, cookie |-> FALSE, mail |-> FALSE,
           retried |-> FALSE, token |-> 0, left |-> 0, rejected |-> 0]

NoFlight == [pc |-> "off", mail |-> FALSE, cookie |-> FALSE, token |-> 0]

SiapInit ==
    /\ session \in [gen : {1}, cookie : BOOLEAN, mail : BOOLEAN]
    /\ identity = {}
    /\ token = [g \in Generations |-> 0]
    /\ flight = [f \in {"identity", "token"} |-> [g \in Generations |-> NoFlight]]
    /\ valid = 0
    /\ call = [c \in Calls |-> NoCall]

Of(c) == call[c].method

CallGoes(c, pc) == call' = [call EXCEPT ![c].pc = pc]

-----------------------------------------------------------------------------
(* Errors                                                                    *)

\* The catch of fetchWithResolver, fetchIrs and fetchKhs: only a rejected
\* credential is retried, and only once.
Caught(k, error, inTry) ==
    IF error = "credential" /\ k.method.retries /\ ~ k.retried /\ inTry
    THEN [k EXCEPT !.pc = "delete", !.retried = TRUE, !.rejected = k.token, !.token = 0,
                   !.left = 0]
    ELSE NoCall

\* The resolution of a call fails.
Unresolved(k, error) == Caught(k, error, k.method.inTry)

-----------------------------------------------------------------------------
(* Starting a call, and the session read                                     *)

\* A method is called, by a request whose token names a generation or by the
\* poller, and runs its fetch.
BeginCall(c) ==
    /\ call[c].pc = "idle"
    /\ \E m \in SiapMethods, g \in Generations :
         /\ g <= session.gen
         /\ call' = [call EXCEPT ![c] = [NoCall EXCEPT !.pc = "session", !.method = m,
                                                       !.ref = IF m.current THEN 0 ELSE g]]
    /\ UNCHANGED <<session, identity, token, flight, valid>>

\* getCurrentSessionRef: the poller's calls take the live generation.
CurrentRef(c) ==
    /\ call[c].pc = "session" /\ Of(c).current /\ call[c].ref = 0
    /\ call' = [call EXCEPT ![c] = IF session.gen # 0 /\ session.cookie
                                   THEN [@ EXCEPT !.ref = session.gen]
                                   ELSE Unresolved(@, "stale")]
    /\ UNCHANGED <<session, identity, token, flight, valid>>

\* readLiveSession, and the page cookie where the method needs it
ReadSession(c) ==
    LET k == call[c] IN
    /\ k.pc = "session" /\ k.ref # 0
    /\ call' = [call EXCEPT ![c] =
           IF session.gen # k.ref THEN Unresolved(k, "dead")
           ELSE IF Of(c).cookie /\ ~ session.cookie THEN Unresolved(k, "stale")
           ELSE [k EXCEPT !.pc = IF Of(c).api THEN "identity" ELSE "fetch",
                          !.cookie = session.cookie, !.mail = session.mail,
                          !.left = Of(c).requests]]
    /\ UNCHANGED <<session, identity, token, flight, valid>>

-----------------------------------------------------------------------------
(* resolveScoped: the identity, then the token                               *)

Identified(k) == [k EXCEPT !.pc = "token", !.cookie = FALSE, !.mail = FALSE]

Flying(f, g) == flight[f][g].pc # "off"

\* A call takes the cached value, joins the flight or starts one.
NeedIdentity(c) ==
    LET g == call[c].ref IN
    /\ call[c].pc = "identity"
    /\ IF g \in identity /\ ~ Flying("identity", g)
       THEN call' = [call EXCEPT ![c] = Identified(@)] /\ UNCHANGED flight
       ELSE /\ CallGoes(c, "identity flight")
            /\ flight' = IF Flying("identity", g) THEN flight
                         ELSE [flight EXCEPT !["identity"][g] =
                                 [NoFlight EXCEPT !.pc = "run", !.mail = call[c].mail,
                                                  !.cookie = call[c].cookie]]
    /\ UNCHANGED <<session, identity, token, valid>>

NeedToken(c) ==
    LET g == call[c].ref IN
    /\ call[c].pc = "token"
    /\ IF token[g] # 0 /\ ~ Flying("token", g)
       THEN call' = [call EXCEPT ![c].pc = "fetch", ![c].token = token[g]] /\ UNCHANGED flight
       ELSE /\ CallGoes(c, "token flight")
            /\ flight' = IF Flying("token", g) THEN flight
                         ELSE [flight EXCEPT !["token"][g].pc = "run"]
    /\ UNCHANGED <<session, identity, token, valid>>

\* A flight settles: its slot is freed and everyone in it hears of it, and is
\* then as `heard` says.
Settle(f, g, heard) ==
    /\ flight' = [flight EXCEPT ![f][g] = NoFlight]
    /\ call' = [c \in Calls |->
                  IF call[c].pc = (IF f = "identity" THEN "identity flight" ELSE "token flight")
                     /\ call[c].ref = g
                  THEN heard[c] ELSE call[c]]

\* resolveIdentity: from the record, or scraped from the dashboard; then it is cached.
ResolveIdentity(g) ==
    LET mine     == flight["identity"][g]
        resolved == [c \in Calls |-> Identified(call[c])]
        failed   == [c \in Calls |-> Unresolved(call[c], "stale")] IN
    /\ mine.pc = "run"
    /\ \/ /\ mine.mail \/ mine.cookie
          /\ identity' = identity \cup {g}
          /\ Settle("identity", g, resolved)
       \/ /\ ~ mine.mail
          /\ Settle("identity", g, failed)
          /\ UNCHANGED identity
    /\ UNCHANGED <<session, token, valid>>

\* mintToken: SIAP mints, or refuses the identity, or is in trouble.
Mint(g) ==
    /\ flight["token"][g].pc = "run" /\ valid < MaxMints
    /\ valid' = valid + 1
    /\ flight' = [flight EXCEPT !["token"][g].pc = "minted", !["token"][g].token = valid']
    /\ UNCHANGED <<session, identity, token, call>>

\* The answer of the mint is there and the token is cached.
TokenMinted(g) ==
    LET mine == flight["token"][g]
        resolved == [c \in Calls |-> [call[c] EXCEPT !.pc = "fetch", !.token = mine.token]] IN
    /\ mine.pc = "minted"
    /\ token' = [token EXCEPT ![g] = mine.token]
    /\ Settle("token", g, resolved)
    /\ UNCHANGED <<session, identity, valid>>

\* The mint fails, or its answer is lost after SIAP has minted.
MintFails(g) ==
    /\ flight["token"][g].pc \in {"run", "minted"}
    /\ \E error \in {"credential", "endpoint"} :
         Settle("token", g, [c \in Calls |-> Unresolved(call[c], error)])
    /\ UNCHANGED <<session, identity, token, valid>>

-----------------------------------------------------------------------------
(* Requests                                                                  *)

\* A request that is answered is followed by the next, or by the end: what the
\* parallel requests of a batch do is the same one by one, and the first may be
\* the last, as a student may have no semester yet.  An error of the endpoint or
\* a stale cookie ends the call.
Request(c) ==
    /\ call[c].pc = "fetch"
    /\ \/ call' = [call EXCEPT ![c] = NoCall]
       \/ /\ call[c].left > 1 /\ (Of(c).api => call[c].token = valid)
          /\ call' = [call EXCEPT ![c].left = @ - 1]
    /\ UNCHANGED <<session, identity, token, flight, valid>>

\* SIAP rejects the token when the request arrives; the answer may take long.
Reject(c) ==
    /\ call[c].pc = "fetch" /\ Of(c).api /\ call[c].token # valid
    /\ CallGoes(c, "rejected")
    /\ UNCHANGED <<session, identity, token, flight, valid>>

\* The catch
Rejected(c) ==
    /\ call[c].pc = "rejected"
    /\ call' = [call EXCEPT ![c] = Caught(@, "credential", TRUE)]
    /\ UNCHANGED <<session, identity, token, flight, valid>>

\* A mutation: the cached token is kept.
DeleteNothing(c) ==
    /\ call[c].pc = "delete"
    /\ CallGoes(c, "session")
    /\ UNCHANGED <<session, identity, token, flight, valid>>

\* cache.del of the generation's token, whichever it is by now; a call of the
\* poller resolves the live generation again.
Delete(c) ==
    LET g == call[c].ref IN
    /\ call[c].pc = "delete"
    /\ token' = IF g = 0 THEN token ELSE [token EXCEPT ![g] = 0]
    /\ call' = [call EXCEPT ![c].pc = "session",
                            ![c].ref = IF Of(c).current THEN 0 ELSE @]
    /\ UNCHANGED <<session, identity, flight, valid>>

-----------------------------------------------------------------------------
(* The rest of the world                                                     *)

\* SIAP's own app mints a token for the student.
OtherAppMints ==
    /\ valid < MaxMints /\ valid' = valid + 1
    /\ UNCHANGED <<session, identity, token, flight, call>>

\* A cached token expires after its ten minutes.
Expire(g) ==
    /\ token[g] # 0 /\ token' = [token EXCEPT ![g] = 0]
    /\ UNCHANGED <<session, identity, flight, valid, call>>

\* The student logs in again.
LoginAgain ==
    /\ session.gen < MaxSessions
    /\ \E cookie, mail \in BOOLEAN :
         session' = [gen |-> session.gen + 1, cookie |-> cookie, mail |-> mail]
    /\ UNCHANGED <<identity, token, flight, valid, call>>

CallStep(c) ==
    \/ CurrentRef(c) \/ ReadSession(c) \/ NeedIdentity(c) \/ NeedToken(c)
    \/ Request(c) \/ Reject(c) \/ Rejected(c) \/ Delete(c)

ResolutionStep(g) == ResolveIdentity(g) \/ Mint(g) \/ TokenMinted(g) \/ MintFails(g)

SiapNext ==
    \/ \E c \in Calls : BeginCall(c) \/ CallStep(c)
    \/ \E g \in Generations : ResolutionStep(g) \/ Expire(g)
    \/ OtherAppMints \/ LoginAgain

SiapSpec == SiapInit /\ [][SiapNext]_siapVars

-----------------------------------------------------------------------------
SiapTypeOK ==
    /\ session.gen \in Generations /\ identity \subseteq Generations
    /\ token \in [Generations -> 0..MaxMints] /\ valid \in 0..MaxMints
    /\ \A c \in Calls : call[c].token <= valid /\ call[c].left \in 0..2

\* A call never sends the token SIAP has just rejected again: not the cached
\* one, nor one a flight it joins still brings.
RetrySendsFreshToken ==
    \A c \in Calls : call[c].retried /\ call[c].pc \in {"fetch", "rejected"}
                        => call[c].token # call[c].rejected

=============================================================================
