----------------------------- MODULE LoginPoll -----------------------------
(***************************************************************************)
(* poll_for_login_tokens (plugin/model-providers/cursor/                   *)
(* cursor_sdk_auth.py): the login asks the backend again and again whether *)
(* the user has completed the login in the browser.  The backend may lack  *)
(* the POST route, answer with something else, or not answer at all; what  *)
(* a 404 means is told by its body alone.                                  *)
(***************************************************************************)
EXTENDS Naturals

CONSTANTS MaxAttempts,  \* max_attempts
          MaxErrors     \* _MAX_CONSECUTIVE_ERRORS

PollBounds == MaxAttempts \in Nat /\ MaxErrors \in Nat \ {0}

VARIABLES
    browser,   \* the login in the browser: "waiting", "completed" or "redeemed"
    method,    \* "GET" if use_get, else "POST"
    errors,    \* consecutive_errors
    tried,     \* the number of attempts
    row,       \* history: how many of the last polls in a row raised an exception, up
               \* to MaxErrors; the fallback is no poll
    odd,       \* history: whether the last answer was JSON, but not the tokens
    pc         \* "polling", "tokens" or "none": what was returned

vars == <<browser, method, errors, tried, row, odd, pc>>

Methods == {"POST", "GET"}

\* the bodies of a 404, the backend's or a proxy's, that the test tells apart
Bodies == {"no JSON", "other JSON", "Route ... not found"}

IsRouteNotFoundBody(body) == body = "Route ... not found"

Init ==
    /\ browser = "waiting"
    /\ method = "POST" /\ errors = 0
    /\ tried = 0 /\ row = 0 /\ odd = FALSE
    /\ pc = "polling"

-----------------------------------------------------------------------------
\* another attempt, after which that many polls in a row have failed
Attempt(failures, strange) ==
    /\ pc = "polling" /\ tried < MaxAttempts
    /\ tried' = tried + 1
    /\ row' = failures /\ odd' = strange

OneMore == IF row < MaxErrors THEN row + 1 ELSE row

\* a 404 whose body says that there is no such route: the one fallback to GET, which
\* leaves the error count alone
FallBack(body) ==
    /\ Attempt(row, FALSE) /\ method = "POST" /\ IsRouteNotFoundBody(body)
    /\ method' = "GET"
    /\ UNCHANGED <<browser, errors, pc>>

\* any other 404, and after the fallback every one: taken for a pending login
PendingThen(body, newErrors) ==
    /\ Attempt(0, FALSE) /\ (method = "POST" => ~IsRouteNotFoundBody(body))
    /\ errors' = newErrors
    /\ UNCHANGED <<browser, method, pc>>

PendingCounts(body) == PendingThen(body, errors)  \* mutant: the count is not reset

Pending(body) == PendingThen(body, 0)

\* A 404 may have any of the bodies, whichever routes the backend has and whatever the
\* user has done: a proxy may answer like a backend without the route, a missing route
\* like a pending login.  So the routes are no part of the state.
NotFound == \E body \in Bodies : FallBack(body) \/ Pending(body)

\* a 200 with both tokens, by either method
Tokens ==
    /\ Attempt(0, FALSE) /\ browser = "completed"
    /\ browser' = "redeemed" /\ errors' = 0 /\ pc' = "tokens"
    /\ UNCHANGED method

\* a 200 with JSON that is not the tokens ends the poll
Other ==
    /\ Attempt(0, TRUE)
    /\ errors' = 0 /\ pc' = "none"
    /\ UNCHANGED <<browser, method>>

\* the except clause
CountError(before) ==
    /\ Attempt(OneMore, FALSE)
    /\ errors' = before + 1
    /\ pc' = IF errors' >= MaxErrors THEN "none" ELSE "polling"

\* a 200 that is not JSON: the count is reset before the body is parsed
Invalid ==
    /\ CountError(0)
    /\ UNCHANGED <<browser, method>>

\* no connection, no answer in time, another status; the answer that is lost may have
\* been the one with the tokens
RequestFails ==
    /\ CountError(errors)
    /\ browser' \in IF browser = "completed" THEN {"completed", "redeemed"} ELSE {browser}
    /\ UNCHANGED method

\* the attempts are used up
TimeOut ==
    /\ pc = "polling" /\ tried = MaxAttempts
    /\ pc' = "none"
    /\ UNCHANGED <<browser, method, errors, tried, row, odd>>

\* the user completes the login
Complete ==
    /\ browser = "waiting"
    /\ browser' = "completed"
    /\ UNCHANGED <<method, errors, tried, row, odd, pc>>

Next ==
    \/ NotFound \/ Tokens \/ Other \/ Invalid \/ RequestFails
    \/ TimeOut \/ Complete

Spec == Init /\ [][Next]_vars

-----------------------------------------------------------------------------
(* Properties *)

TypeOK ==
    /\ browser \in {"waiting", "completed", "redeemed"}
    /\ method \in Methods
    /\ errors \in 0 .. MaxErrors
    /\ tried \in 0 .. MaxAttempts /\ row \in 0 .. MaxErrors /\ odd \in BOOLEAN
    /\ pc \in {"polling", "tokens", "none"}

\* The poll gives up only when the attempts are used up, the backend answered with
\* something else, or the last MaxErrors polls failed: an answer that the login is
\* pending always restores the whole error budget, the fallback never spends it.
GivesUpForAReason == pc = "none" => tried = MaxAttempts \/ odd \/ row = MaxErrors

\* _MAX_CONSECUTIVE_ERRORS = 3 (cursor_sdk_auth.py:51), "None on timeout/errors"
\* (:121): that many failures in a row end the poll.
FailuresEndPoll == row = MaxErrors => pc # "polling"

=============================================================================
