-------------------------- MODULE ExtensionRenewal --------------------------
(***************************************************************************)
(* The renewal of an upstream cookie by the browser extension:             *)
(* performUpstreamRenewal and captureRenewalTicket.  A renewal posts the   *)
(* browser's cookie to the backend; if there is none, or it is rejected,   *)
(* it opens a tab on the service's ticket page, waits for the page to land *)
(* and posts the cookie it finds then.  A logout cancels every renewal.    *)
(* A renewal and its tab race with the timer, the user and the browser.    *)
(***************************************************************************)
EXTENDS Naturals

CONSTANTS Renewals,    \* the keys of renewalFlights: requesting tab and service
          Interactive, \* those the user asked for
          MaxFences    \* bound on the logouts and new logins

ASSUME RenewalBounds == Interactive \subseteq Renewals /\ MaxFences \in Nat

VARIABLES fence,  \* the coordinator's operation epoch
          flight  \* the renewal of each key

renewalVars == <<fence, flight>>

\* `tab` is the ticket tab: none, being created, open, or open with nobody
\* left to close it; `settled` is how the capture ended; `listening` is
\* whether its listeners, its timer and its cancel are registered.
NoFlight == [pc |-> "off", fence |-> 0, listening |-> FALSE, tab |-> "none",
             settled |-> "none", retried |-> FALSE, answer |-> "none"]

RenewalInit == fence = 0 /\ flight = [r \in Renewals |-> NoFlight]

Overtaken(r) == flight[r].fence # fence

Capturing(r) == flight[r].pc \in {"app", "creating", "look", "wait"}

\* The promise settles: the caller is answered and the flight forgotten.
EndWith(r, answer) ==
    flight' = [flight EXCEPT ![r].pc = "done",
                             ![r].answer = IF Overtaken(r) THEN "cancelled" ELSE answer]

\* onMessageExternal of a renewal; a second message of the key joins.  A key is
\* renewed again only when its last tab has come or failed to come.
StartRenewal(r) ==
    /\ flight[r].pc \in {"off", "done"} /\ flight[r].tab = "none"
    /\ flight' = [flight EXCEPT ![r] = [NoFlight EXCEPT !.pc = "server", !.fence = fence]]
    /\ UNCHANGED fence

\* getServerUrl has answered: performUpstreamRenewal starts.
BeginRenewal(r) ==
    /\ flight[r].pc = "server"
    /\ IF Overtaken(r) THEN EndWith(r, "cancelled")
       ELSE flight' = [flight EXCEPT ![r].pc = "cookie"]
    /\ UNCHANGED fence

\* readRenewalCookie: the store of the requesting tab holds a cookie or not,
\* or there is no such store.
ReadCookie(r) ==
    /\ flight[r].pc = "cookie"
    /\ \/ EndWith(r, "unavailable")
       \/ /\ ~ Overtaken(r)
          /\ \/ flight' = [flight EXCEPT ![r].pc = "post"]
             \/ flight' = [flight EXCEPT ![r].pc = "app", ![r].listening = TRUE]
    /\ UNCHANGED fence

\* postRenewal: only a rejected cookie (422) goes on to the ticket page.
PostCookie(r) ==
    /\ flight[r].pc = "post"
    /\ \/ \E answer \in {"recovered", "conflict", "unavailable"} : EndWith(r, answer)
       \/ /\ ~ Overtaken(r)
          /\ flight' = [flight EXCEPT ![r].pc = "app", ![r].listening = TRUE]
    /\ UNCHANGED fence

\* captureRenewalTicket has found the requesting tab and asks for another.
FindAppTab(r) ==
    /\ flight[r].pc = "app" /\ flight[r].settled = "none"
    /\ flight' = [flight EXCEPT ![r].pc = "creating", ![r].tab = "pending"]
    /\ UNCHANGED fence

\* A mutation: a tab that comes too late is kept.
TabCreatedLate(r) ==
    /\ flight[r].tab = "pending"
    /\ flight' = IF flight[r].settled # "none"
                 THEN [flight EXCEPT ![r].tab = "open"]
                 ELSE [flight EXCEPT ![r].tab = "open", ![r].pc = "look"]
    /\ UNCHANGED fence

\* The ticket tab is there; too late, it is closed at once.
TabCreated(r) ==
    /\ flight[r].tab = "pending"
    /\ flight' = IF flight[r].settled # "none"
                 THEN [flight EXCEPT ![r].tab = "none"]
                 ELSE [flight EXCEPT ![r].tab = "open", ![r].pc = "look"]
    /\ UNCHANGED fence

\* finish: only the first call counts.
Settle(r, how) ==
    /\ flight[r].listening /\ flight[r].settled = "none"
    /\ flight' = [flight EXCEPT ![r].settled = how]

\* inspect: a page of the ticket tab is classified, on an event or by the
\* first look at the tab.  An interactive renewal leaves a login page to the
\* user and returns to the ticket page once from the SSO dashboard.
Navigate(r) ==
    /\ flight[r].tab = "open"
    /\ \/ Settle(r, "ready") \/ Settle(r, "unavailable")
       \/ r \notin Interactive /\ Settle(r, "interaction-required")
       \/ /\ r \in Interactive /\ flight[r].listening /\ ~ flight[r].retried
          /\ flight' = [flight EXCEPT ![r].retried = TRUE]
    /\ UNCHANGED fence

LookAtTab(r) ==
    /\ flight[r].pc = "look" /\ flight[r].settled = "none"
    /\ flight' = [flight EXCEPT ![r].pc = "wait"]
    /\ UNCHANGED fence

\* The user closes the tab: onRemoved.
UserClosesTab(r) ==
    /\ flight[r].tab = "open" /\ flight[r].listening
    /\ flight' = [flight EXCEPT ![r].tab = "none",
                     ![r].settled = IF @ = "none" THEN "unavailable" ELSE @]
    /\ UNCHANGED fence

\* The timer of the capture.
CaptureTimesOut(r) == Settle(r, "unavailable") /\ UNCHANGED fence

\* The end of the capture, by its result or an exception: listeners, timer and
\* tab go, and the renewal goes on with a cookie that landed.
EndCapture(r) ==
    LET ready == flight[r].settled = "ready" /\ ~ Overtaken(r) IN
    /\ Capturing(r)
    /\ flight[r].settled # "none" \/ flight[r].pc # "wait"
    /\ flight' = [flight EXCEPT ![r].listening = FALSE,
                     ![r].settled = IF @ = "none" THEN "unavailable" ELSE @,
                     ![r].tab = IF @ = "pending" /\ flight[r].settled # "none" THEN @ ELSE "none",
                     ![r].pc = IF ready THEN "cookie2" ELSE "done",
                     ![r].answer = IF ready THEN @
                                   ELSE IF Overtaken(r) THEN "cancelled"
                                   ELSE IF flight[r].settled = "none" THEN "unavailable"
                                   ELSE flight[r].settled]
    /\ UNCHANGED fence

\* The second cookie and its POST.
ReadCookieAgain(r) ==
    /\ flight[r].pc = "cookie2"
    /\ \/ EndWith(r, "unavailable")
       \/ ~ Overtaken(r) /\ flight' = [flight EXCEPT ![r].pc = "post2"]
    /\ UNCHANGED fence

PostAgain(r) ==
    /\ flight[r].pc = "post2"
    /\ \E answer \in {"recovered", "conflict", "unavailable"} : EndWith(r, answer)
    /\ UNCHANGED fence

\* invalidate and activeRenewalCancels of a logout; beginHandoff of a login
\* bumps the epoch alone.
Fence ==
    /\ fence < MaxFences
    /\ fence' = fence + 1
    /\ \/ UNCHANGED flight
       \/ flight' = [r \in Renewals |->
                       IF flight[r].listening /\ flight[r].settled = "none"
                       THEN [flight[r] EXCEPT !.settled = "unavailable"] ELSE flight[r]]

RenewalStep(r) ==
    \/ BeginRenewal(r) \/ ReadCookie(r) \/ PostCookie(r) \/ FindAppTab(r) \/ TabCreated(r)
    \/ LookAtTab(r) \/ CaptureTimesOut(r) \/ EndCapture(r) \/ ReadCookieAgain(r)
    \/ PostAgain(r)

RenewalNext ==
    \/ \E r \in Renewals : StartRenewal(r) \/ RenewalStep(r) \/ Navigate(r) \/ UserClosesTab(r)
    \/ Fence

-----------------------------------------------------------------------------
\* No ticket tab outlives its renewal: when the caller has been answered, the
\* tab is closed, or still being created and closed then.
NoTabOutlives ==
    \A r \in Renewals : flight[r].tab = "open" => Capturing(r) /\ flight[r].listening

=============================================================================
