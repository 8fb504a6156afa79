---------------------------- MODULE PairingCard ----------------------------
(***************************************************************************)
(* The card of the web client that shows a pairing code: it asks for the   *)
(* status of the code it shows every four seconds, and for a new code soon *)
(* after it was used.  A request under way is never cancelled: neither a   *)
(* request for a code nor a question about one, also when the card is gone.*)
(***************************************************************************)
EXTENDS Integers, FiniteSets

CONSTANTS Codes,    \* numbers, in the order the backend issues them
          MaxPolls  \* bound on the questions about one code under way

VARIABLES card,     \* what the card shows
          timers,   \* the handles the card has, and the timers that tick
          requests, \* how many requests for a code are under way
          polls,    \* code -> questions about it under way
          issued, used

cardVars == <<card, timers, requests, polls, issued, used>>

NoCode == 0
NoTimer == [poll |-> NoCode, refresh |-> FALSE, countdown |-> NoCode,
            polling |-> {}, refreshes |-> 0, counting |-> {}]

CardInit ==
    /\ card = [mounted |-> TRUE, data |-> NoCode, loading |-> FALSE, error |-> FALSE,
               consumed |-> FALSE]
    /\ timers = NoTimer
    /\ requests = 0 /\ issued = 0 /\ used = {}
    /\ polls = [code \in Codes |-> 0]

stopTimer(t) == [t EXCEPT !.counting = @ \ {t.countdown}, !.countdown = NoCode]
startTimer(t, code) ==
    [stopTimer(t) EXCEPT !.countdown = code, !.counting = @ \cup {code}]

stopPolling(t) ==
    [t EXCEPT !.polling = @ \ {t.poll}, !.poll = NoCode,
              !.refreshes = IF t.refresh THEN @ - 1 ELSE @, !.refresh = FALSE]

startPollingAnew(t, code) == [t EXCEPT !.poll = code, !.polling = @ \cup {code}]

startPolling(t, code) == [stopPolling(t) EXCEPT !.poll = code, !.polling = @ \cup {code}]

\* A new code is asked for: the old one is neither shown nor asked about.
requestCode(t) ==
    /\ requests < Cardinality(Codes)
    /\ card' = [card EXCEPT !.loading = TRUE, !.error = FALSE, !.consumed = FALSE,
                            !.data = NoCode]
    /\ timers' = stopPolling(t)
    /\ requests' = requests + 1
    /\ UNCHANGED <<polls, issued, used>>

\* The button, which is off while a code is loading.
Click == card.mounted /\ ~ card.loading /\ requestCode(timers)

\* The code is there; drawing its QR may fail.
CodeAnswers ==
    /\ requests > 0 /\ issued + 1 \in Codes
    /\ \E drawn \in BOOLEAN :
          card' = [card EXCEPT !.data = issued + 1, !.loading = FALSE, !.error = @ \/ ~ drawn]
    /\ timers' = startPolling(startTimer(timers, issued + 1), issued + 1)
    /\ issued' = issued + 1
    /\ requests' = requests - 1
    /\ UNCHANGED <<polls, used>>
CodeFails ==
    /\ requests > 0
    /\ card' = [card EXCEPT !.error = TRUE, !.loading = FALSE]
    /\ requests' = requests - 1
    /\ UNCHANGED <<timers, polls, issued, used>>

PollTick(code) ==
    /\ code \in timers.polling /\ polls[code] < MaxPolls
    /\ polls' = [polls EXCEPT ![code] = @ + 1]
    /\ UNCHANGED <<card, timers, requests, issued, used>>

\* The answer to a question: it may be older than the use of the code, and a
\* failure is passed over.  A code that was used is to be replaced.
StatusAnswers(code) ==
    /\ polls[code] > 0
    /\ polls' = [polls EXCEPT ![code] = @ - 1]
    /\ \/ UNCHANGED <<card, timers>>
       \/ /\ code \in used
          /\ card' = [card EXCEPT !.consumed = TRUE]
          /\ timers' = [stopPolling(timers) EXCEPT !.refresh = TRUE, !.refreshes = @ + 1]
    /\ UNCHANGED <<requests, issued, used>>

\* The delay is over.  The handle is left as it is, and cleared by requestCode.
RefreshFires == timers.refreshes > 0 /\ requestCode(timers)

CodeUsed(code) ==
    /\ code <= issued /\ code \notin used
    /\ used' = used \cup {code}
    /\ UNCHANGED <<card, timers, requests, polls, issued>>

CountdownEnds ==
    /\ timers.countdown # NoCode
    /\ timers' = stopTimer(timers)
    /\ UNCHANGED <<card, requests, polls, issued, used>>

Unmount ==
    /\ card.mounted
    /\ card' = [card EXCEPT !.mounted = FALSE]
    /\ timers' = stopPolling(stopTimer(timers))
    /\ UNCHANGED <<requests, polls, issued, used>>

CardNext ==
    \/ Click \/ CodeAnswers \/ CodeFails \/ RefreshFires \/ CountdownEnds \/ Unmount
    \/ \E code \in Codes : PollTick(code) \/ StatusAnswers(code) \/ CodeUsed(code)

\* The code on the card is the one that is asked about and counted down, and
\* nothing else is, unless the card is about to get a new one: also when several
\* requests for a code were under way, and their answers crossed the news of an
\* older code.
CardWatchesShownCode ==
    card.data # NoCode =>
        /\ \/ timers.polling = {card.data} /\ timers.refreshes = 0
           \/ timers.polling = {} /\ timers.refreshes = 1 /\ card.consumed
           \/ ~ card.mounted
        /\ timers.counting \subseteq {card.data}

\* At no time do two timers of one purpose tick.
OneTimerEach ==
    Cardinality(timers.polling) <= 1 /\ timers.refreshes <= 1 /\ Cardinality(timers.counting) <= 1

=============================================================================
