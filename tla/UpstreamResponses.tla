------------------------- MODULE UpstreamResponses -------------------------
(***************************************************************************)
(* How the backend reads what SSO, Kulon and SIAP answer: the probes of    *)
(* the keep-alive, which walk redirects by themselves and collect cookies, *)
(* the checks of a login and of a cookie renewal, and the calls that fetch *)
(* data.  One visit at a time; between any two requests of a visit the     *)
(* session may end and the weather of the site may change.                 *)
(***************************************************************************)
EXTENDS Integers, Sequences, FiniteSets, SequencesExt

CONSTANTS MaxRequests   \* maxRedirects + 1, of a walk

\* A walk may follow at least one redirect.
ASSUME WalkBound == MaxRequests \in Nat \ {0, 1}

VARIABLES site,    \* whether the session lives there, and the weather
          visit    \* the visit under way, or the last one

vars == <<site, visit>>

Weathers == {"up", "down", "limited", "forbidding"}

Walks == {"sso-keep", "kulon-keep", "siap-keep"}
Checks == {"kulon-check", "siap-check"}
Renewals == {"kulon-renewal", "siap-renewal"}
Fetches == {"kulon-sesskey", "kulon-ajax", "kulon-page", "siap-mint", "siap-api",
            "text", "json"}
Kinds == Walks \cup Checks \cup Renewals \cup Fetches \cup {"kulon-identity"}

(***************************************************************************)
(* The sites                                                               *)
(***************************************************************************)

\* Set-Cookie headers: of a living session, and of an anonymous visitor.
OwnHeaders == {[name |-> "session", value |-> "rotated"],
               [name |-> "session", value |-> "deleted"],
               [name |-> "other", value |-> "rotated"]}
AnonHeader == [name |-> "session", value |-> "anonymous"]

Res(status, url, body, headers) ==
    [status |-> status, url |-> url, body |-> body, headers |-> headers]

Trouble(url) ==
    CASE site.weather = "down"       -> {Res(500, url, "error", <<>>)}
      [] site.weather = "limited"    -> {Res(429, url, "error", <<>>)}
      [] site.weather = "forbidding" -> {Res(403, url, "error", <<>>),
                                         Res(404, url, "error", <<>>)}

\* What one request is answered when nobody follows its redirect: `url` is
\* where the answer points, or where the page is.
OneOfLiving(kind, url) ==
    LET headers == {<<>>} \cup {<<h>> : h \in OwnHeaders}
    IN  IF kind = "sso-keep"
        THEN {Res(302, "dashboard", "none", h) : h \in headers}
        ELSE {Res(200, url, b, h) : b \in {"home", "torn"}, h \in headers}
             \cup {Res(302, "home", "none", h) : h \in {x \in headers : url = "start"}}

OneOfDead(url) ==
    {Res(302, "login", "none", <<AnonHeader>>), Res(302, "elsewhere", "none", <<>>),
     Res(200, url, IF url = "login" THEN "guest" ELSE "login", <<AnonHeader>>)}

OneAnswer(kind, url) ==
    CASE site.weather # "up"                -> Trouble(url)
      [] site.weather = "up" /\ site.alive  -> OneOfLiving(kind, url)
      [] site.weather = "up" /\ ~site.alive -> OneOfDead(url)

\* What a request ends at when fetch follows the redirects; SIAP's API may give
\* its failures a status of their own.
DataOfBroken(kind, url) ==
    IF kind \in {"siap-mint", "siap-api"} /\ site.weather = "down"
    THEN {Res(500, url, b, <<>>) : b \in {"data", "failure"}} ELSE {}

FinalOfLiving(url) ==
    {Res(200, url, b, <<>>) :
        b \in IF url \in {"api", "ajax"} THEN {"data", "failure", "torn"} ELSE {url, "torn"}}

FinalOfDead(url) ==
    {Res(s, url, b, <<>>) : s \in {200, 401},
                            b \in IF url \in {"api", "ajax"} THEN {"denial", "failure"} ELSE {"login"}}
    \cup {Res(200, "login", "guest", <<>>), Res(200, "elsewhere", "login", <<>>)}

FinalAnswer(kind, url) ==
    CASE site.weather # "up"                -> Trouble(url) \cup DataOfBroken(kind, url)
      [] site.weather = "up" /\ site.alive  -> FinalOfLiving(url)
      [] site.weather = "up" /\ ~site.alive -> FinalOfDead(url)

(***************************************************************************)
(* Classification                                                          *)
(***************************************************************************)

Ok(r) == r.status \in 200..299

isLoginRedirect(url) == url \in {"login", "elsewhere"}

hasSesskeyMarker(body) == body \in {"home", "guest"}

\* The outward status of a StaleUpstreamError; 0 for one made without response.
statusForStaleReason(reason, status) ==
    IF \/ reason \in {"fetch-threw", "api-endpoint"}
       \/ reason = "http-not-ok" /\ status >= 500
    THEN "502" ELSE "401"

classifyProbeStatus(status) ==
    CASE status = 429        -> "rate-limited"
      [] status >= 500       -> "transient"
      [] status \in 200..299 -> "valid"
      [] OTHER               -> "invalid"

\* What a consumer makes of a response: the event recorded, and what is
\* returned or thrown.
Returns(value) == [event |-> "ok", value |-> value]
Throws(event, value) == [event |-> event, value |-> value]
Stale(reason, r) == Throws("stale", statusForStaleReason(reason, r.status))
HttpError(status) == Throws("http_error", statusForStaleReason("http-not-ok", status))
Torn == Throws("parse_error", "500")

Unavailable(r) == r.status >= 500 \/ r.status = 429

\* Mutation: the page's marker is believed wherever the request ended.
CheckMarkerAnywhere(r) ==
    CASE ~Ok(r) -> HttpError(r.status)
      [] OTHER  -> IF hasSesskeyMarker(r.body) THEN Returns("valid")
                   ELSE Stale("login-redirect", r)

CheckMarker(r) ==
    IF ~Ok(r) THEN HttpError(r.status)
    ELSE IF isLoginRedirect(r.url) THEN Stale("login-redirect", r)
    ELSE IF r.body = "torn" THEN Torn
    ELSE IF hasSesskeyMarker(r.body) THEN Returns("valid") ELSE Stale("login-redirect", r)

RenewalPage(r, shown) ==
    IF ~Ok(r) THEN Throws("http_error", IF Unavailable(r) THEN "unavailable" ELSE "invalid")
    ELSE IF isLoginRedirect(r.url) THEN Throws("stale", "invalid")
    ELSE IF r.body = "torn" THEN Throws("parse_error", "unavailable")
    ELSE IF r.body = shown THEN Returns("valid") ELSE Throws("stale", "invalid")

fetchSesskeyOrThrow(r) ==
    IF ~Ok(r) THEN HttpError(0) ELSE CheckMarker(r)

IdentityPage(r) ==
    IF ~Ok(r) THEN HttpError(0)
    ELSE IF isLoginRedirect(r.url) THEN Stale("login-redirect", r)
    ELSE IF r.body = "torn" THEN Torn
    ELSE Returns(IF r.body = "profile" THEN "valid" ELSE "none")

postAjax(r) ==
    IF ~Ok(r) THEN HttpError(r.status)
    ELSE IF isLoginRedirect(r.url) THEN Stale("login-redirect", r)
    ELSE IF r.body = "data" THEN Returns("valid")
    ELSE IF r.body \in {"failure", "denial"} THEN Stale("api-endpoint", r)
    ELSE Throws("parse_error", "401")

mintToken(r) ==
    IF r.body = "data" THEN Returns("valid")
    ELSE IF r.body \in {"failure", "denial"}
         THEN Stale(IF r.status \in {401, 403} \/ r.body = "denial"
                    THEN "api-credential" ELSE "api-endpoint", r)
         ELSE Throws("parse_error", statusForStaleReason("api-endpoint", r.status))

fetchKulonPage(r) ==
    IF ~Ok(r) THEN IF r.status = 404 THEN Throws("http_error", "404") ELSE HttpError(r.status)
    ELSE IF isLoginRedirect(r.url) \/ r.body \in {"login", "guest"} THEN Stale("login-redirect", r)
    ELSE IF r.body = "torn" THEN Torn ELSE Returns("valid")

responseFailure(r) == IF Ok(r) THEN Stale("login-redirect", r) ELSE HttpError(r.status)

consumeText(r) ==
    IF ~Ok(r) \/ isLoginRedirect(r.url) THEN responseFailure(r)
    ELSE IF r.body = "torn" THEN Torn ELSE Returns("valid")

consumeJson(r) ==
    IF ~Ok(r) \/ isLoginRedirect(r.url) THEN responseFailure(r)
    ELSE IF r.body \in {"data", "failure", "denial"} THEN Returns("valid")
    ELSE Throws("parse_error", "401")

Consume(kind, url, r) ==
    IF kind \in Checks THEN CheckMarker(r)
    ELSE IF kind \in Renewals THEN RenewalPage(r, url)
    ELSE IF kind = "kulon-sesskey" THEN fetchSesskeyOrThrow(r)
    ELSE IF kind = "kulon-identity"
         THEN IF url = "home" THEN fetchSesskeyOrThrow(r)
              ELSE IF url = "ajax" THEN postAjax(r) ELSE IdentityPage(r)
    ELSE IF kind = "kulon-ajax" THEN postAjax(r)
    ELSE IF kind \in {"siap-mint", "siap-api"} THEN mintToken(r)
    ELSE IF kind = "kulon-page" THEN fetchKulonPage(r)
    ELSE IF kind = "text" THEN consumeText(r) ELSE consumeJson(r)

\* What a caller makes of a request without any response.
Unanswered(kind, reason) ==
    IF kind \in Renewals
    THEN IF kind = "kulon-renewal" /\ reason = "redirect-loop" THEN "invalid" ELSE "unavailable"
    ELSE IF kind = "kulon-sesskey" /\ reason = "fetch-threw" THEN "502"
    ELSE IF kind \in {"kulon-sesskey", "kulon-ajax", "kulon-page", "kulon-identity"}
         THEN statusForStaleReason(reason, 0) ELSE "500"

(***************************************************************************)
(* A visit                                                                 *)
(***************************************************************************)

\* A visit: the address asked next, the requests made and the cookies
\* collected, the verdict once there is one, what its answers witnessed, and
\* the events recorded: their number, and the last.
Visit(kind, url) ==
    [kind |-> kind, url |-> url, asked |-> 0, headers |-> <<>>, verdict |-> "none",
     witnessed |-> {}, events |-> 0, event |-> "none"]

Quiet == [Visit("text", "home") EXCEPT !.verdict = "valid"]

Init == site = [alive |-> TRUE, weather |-> "up"] /\ visit = Quiet

FirstUrl(kind) ==
    IF kind \in Walks THEN "start"
    ELSE IF kind = "siap-renewal" THEN "profile"
    ELSE IF kind \in {"kulon-ajax", "siap-mint", "siap-api", "json"} THEN "api" ELSE "home"

Begin(kind) ==
    /\ visit.verdict # "none"
    /\ visit' = Visit(kind, FirstUrl(kind))
    /\ UNCHANGED site

\* What an answer tells of the site, if one came.
Witness(r) ==
    CASE r.status = 500 -> "down"
      [] r.status = 429 -> "limited"
      [] r.status \in {403, 404} -> "forbidden"
      [] OTHER -> IF r.body = "torn" THEN "torn" ELSE IF site.alive THEN "alive" ELSE "dead"

Answered(r) == [visit EXCEPT !.asked = @ + 1, !.witnessed = @ \cup {Witness(r)}]

\* What a probe makes of the last answer of its walk.
SsoVerdict(r) ==
    IF r.url = "dashboard" THEN "valid"
    ELSE IF classifyProbeStatus(r.status) = "valid" THEN "invalid"
    ELSE classifyProbeStatus(r.status)

KulonVerdict(r) ==
    IF classifyProbeStatus(r.status) # "valid" THEN classifyProbeStatus(r.status)
    ELSE IF ~isLoginRedirect(r.url) /\ hasSesskeyMarker(r.body) THEN "valid" ELSE "invalid"

SiapVerdict(r) ==
    IF classifyProbeStatus(r.status) # "valid" THEN classifyProbeStatus(r.status)
    ELSE IF r.body = "home" THEN "valid" ELSE "invalid"

Verdict(kind, r) ==
    IF kind = "sso-keep" THEN SsoVerdict(r)
    ELSE IF kind = "kulon-keep" THEN KulonVerdict(r) ELSE SiapVerdict(r)

\* The end of a walk, whose event looks at nothing but the last status.
Judge(v, r) ==
    [v EXCEPT !.verdict = Verdict(v.kind, r),
              !.events = @ + 1,
              !.event = IF Ok(r) THEN "ok" ELSE "http_error"]

StopWhen(kind, r) ==
    \/ kind = "sso-keep" /\ r.url = "dashboard"
    \/ kind = "kulon-keep" /\ r.status = 302 /\ isLoginRedirect(r.url)

\* One request of a walk: it goes on along a redirect within the same origin,
\* unless the caller stops it or it has made its last request.
Hop ==
    /\ visit.kind \in Walks /\ visit.verdict = "none"
    /\ \E r \in OneAnswer(visit.kind, visit.url) :
         LET v == [Answered(r) EXCEPT !.headers = @ \o r.headers]
         IN  visit' = IF r.body = "torn"
                      THEN [v EXCEPT !.verdict = "transient", !.headers = <<>>,
                                     !.events = @ + 1, !.event = "network_error"]
                      ELSE IF /\ ~StopWhen(visit.kind, r) /\ r.status = 302
                              /\ r.url # "elsewhere" /\ v.asked < MaxRequests
                      THEN [v EXCEPT !.url = r.url]
                      ELSE Judge(v, r)
    /\ UNCHANGED site

\* A request of a walk that throws, or the walk's ten seconds are over.
WalkThrows ==
    /\ visit.kind \in Walks /\ visit.verdict = "none"
    /\ visit' = [visit EXCEPT !.verdict = "transient", !.headers = <<>>,
                              !.witnessed = @ \cup {"silent"},
                              !.events = @ + 1, !.event = "network_error"]
    /\ UNCHANGED site

\* The requests of a visit that has more than one: the sesskey page, then the
\* site's own service, then the profile.
NextUrl(kind, url, value) ==
    IF kind = "kulon-renewal" /\ url = "home" /\ value = "valid" THEN "profile"
    ELSE IF kind = "kulon-identity" /\ url = "home" /\ value = "valid" THEN "ajax"
    ELSE IF kind = "kulon-identity" /\ url = "ajax" /\ value # "valid" THEN "profile" ELSE "none"

\* The caller's catch: a check answers stale, an identity null.
Caught(kind, value) ==
    IF kind \in Checks /\ value # "valid" THEN "stale"
    ELSE IF kind = "kulon-identity" /\ value # "valid" THEN "none-found" ELSE value

Settle(v, value) ==
    LET next == NextUrl(v.kind, v.url, value)
    IN  IF next # "none" THEN [v EXCEPT !.url = next]
        ELSE [v EXCEPT !.verdict = Caught(v.kind, value)]

\* The terminal events of an attempt with a response: one, the throw of a
\* result that is not ok being caught in the same try.
TerminalEvents(result) == 1

\* One timed fetch: the response is read, one event recorded, and the value
\* returned or the error thrown.
timedFetch ==
    /\ visit.kind \notin Walks /\ visit.verdict = "none"
    /\ \E r \in FinalAnswer(visit.kind, visit.url) :
         LET result == Consume(visit.kind, visit.url, r)
         IN  visit' = [Settle(Answered(r), result.value)
                       EXCEPT !.events = @ + TerminalEvents(result), !.event = result.event]
    /\ UNCHANGED site

\* A request that throws: what that told of the site, and what the caller is told.
Throwing(reason, told) ==
    visit' = [Settle([visit EXCEPT !.asked = @ + 1, !.witnessed = @ \cup {told}],
                     Unanswered(visit.kind, reason))
              EXCEPT !.events = @ + 1, !.event = "network_error"]

\* Only a dead session makes the redirects go round.
FetchThrows ==
    /\ visit.kind \notin Walks /\ visit.verdict = "none"
    /\ \/ Throwing("fetch-threw", "silent")
       \/ ~site.alive /\ Throwing("redirect-loop", "dead")
    /\ UNCHANGED site

\* The session ends at any moment; a new one is made between two visits.
SessionEnds == site.alive /\ site' = [site EXCEPT !.alive = FALSE] /\ UNCHANGED visit
Login ==
    /\ ~site.alive /\ visit.verdict # "none"
    /\ site' = [site EXCEPT !.alive = TRUE] /\ UNCHANGED visit
WeatherChanges ==
    \E w \in Weathers \ {site.weather} : site' = [site EXCEPT !.weather = w] /\ UNCHANGED visit

Next ==
    \/ \E kind \in Kinds : Begin(kind)
    \/ Hop \/ WalkThrows \/ timedFetch \/ FetchThrows
    \/ SessionEnds \/ Login \/ WeatherChanges

Spec == Init /\ [][Next]_vars

(***************************************************************************)
(* The cookie header a keep-alive writes                                   *)
(***************************************************************************)

\* The stored pairs, once the Set-Cookies of the service's name were applied to
\* them one after the other: the last of them counts.
mergeSessionCookie(headers) ==
    LET applied == {i \in DOMAIN headers : headers[i].name = "session"}
    IN  [session |-> IF applied = {} THEN "stored" ELSE headers[Max(applied)].value,
         other |-> "stored"]

(***************************************************************************)
(* Properties                                                              *)
(***************************************************************************)

Done(kinds) == visit.kind \in kinds /\ visit.verdict # "none"

\* What may make a visit of this kind say that the session is over, besides a
\* dead session: a sesskey page keeps its historical 401 whatever the status,
\* a 429 is no outage to StaleUpstreamError, and a body that breaks off is a
\* malformed one.
TakenForDeath(kind) ==
    {told \in {"down", "limited", "torn"} :
        \/ told = "down" /\ kind = "kulon-sesskey"
        \/ told = "limited" /\ kind \in {"kulon-sesskey", "kulon-ajax", "kulon-page", "text", "json"}
        \/ told = "torn" /\ kind \in {"kulon-ajax", "json"}}

\* An outage is not a dead session: the keep-alive, a renewal and the calls that
\* fetch data say `invalid` or 401 only after an answer given while the session
\* was over or the site forbade the page, whatever changed between two requests.
OutageIsNotDeath ==
    visit.verdict \in {"invalid", "401"} =>
        visit.witnessed \cap ({"dead", "forbidden"} \cup TakenForDeath(visit.kind)) # {}

\* Nobody is taken for logged in by a page shown to anybody: what is found valid
\* was answered while the session lived, an identity is read from such an answer,
\* and the cookie a keep-alive goes on to write is never an anonymous visitor's.
ValidWasAlive ==
    Done(Kinds \ {"text", "json"}) /\ visit.verdict = "valid" /\ visit # Quiet =>
        /\ "dead" \notin visit.witnessed
        /\ visit.kind \notin {"siap-mint", "siap-api"} => "alive" \in visit.witnessed
        /\ mergeSessionCookie(visit.headers).session # "anonymous"

\* Every request of timedFetch records one terminal event, a walk one for all of
\* its requests, and `ok` is recorded exactly of an attempt that returned.
OneEventPerAttempt ==
    Done(Kinds) /\ visit # Quiet =>
        /\ visit.events = IF visit.kind \in Walks THEN 1 ELSE visit.asked
        /\ visit.kind \in Checks \cup Renewals \cup Fetches =>
              (visit.event = "ok" <=> visit.verdict = "valid")

=============================================================================
