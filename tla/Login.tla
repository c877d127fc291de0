------------------------------- MODULE Login --------------------------------
(***************************************************************************)
(* login (plugin/model-providers/cursor/cursor_sdk_auth.py) as a whole:    *)
(* the step of CredentialStore in which a login waits for the browser is   *)
(* the poll of LoginPoll, which each login starts anew.  A login whose     *)
(* poll ends without tokens raises, and a forced one restores the key it   *)
(* cleared.  Logins one at a time: there is one poll.                      *)
(***************************************************************************)
EXTENDS CredentialStore

CONSTANTS MaxAttempts, MaxErrors

VARIABLES
    browser, method, errors, tried, row, odd,  \* as in LoginPoll
    poll       \* pc of LoginPoll, or "idle"

Poll == INSTANCE LoginPoll WITH pc <- poll

pollVars == <<browser, method, errors, tried, row, odd, poll>>
loginVars == <<vars, pollVars>>

ASSUME LoginAssumption == ~Overlap /\ Poll!PollBounds

IdlePoll ==
    /\ browser = "waiting" /\ method = "POST"
    /\ errors = 0 /\ tried = 0 /\ row = 0 /\ odd = FALSE
    /\ poll = "idle"

LoginInit == Init /\ IdlePoll

\* create_login_handshake, the URL is shown: the poll begins
Handshake(l) ==
    /\ pc[l] = "browser" /\ poll = "idle"
    /\ poll' = "polling"
    /\ UNCHANGED <<vars, browser, method, errors, tried, row, odd>>

PollStep ==
    /\ poll = "polling"
    /\ Poll!Next
    /\ UNCHANGED vars

\* the poll is over, or nothing of it is left after an exception or a kill
EndPoll ==
    /\ browser' = "waiting" /\ method' = "POST"
    /\ errors' = 0 /\ tried' = 0 /\ row' = 0 /\ odd' = FALSE
    /\ poll' = "idle"

\* tokens, from which a key is minted
Mint(l) == poll = "tokens" /\ Browser(l) /\ EndPoll

\* the poll ended without tokens, minting failed, or anything else raised
Fail(l) == Raise(l) /\ EndPoll

Die(l) == Crash(l) /\ EndPoll

StoreStep(l) ==
    /\ \/ Begin(l) \/ Clear(l) \/ ClearInterrupted(l)
       \/ Open(l) \/ Write(l) \/ Replace(l) \/ Finish(l)
    /\ UNCHANGED pollVars

LoginNext ==
    \/ PollStep
    \/ \E l \in Logins : Handshake(l) \/ Mint(l) \/ Fail(l) \/ Die(l) \/ StoreStep(l)

LoginSpec == LoginInit /\ [][LoginNext]_loginVars

-----------------------------------------------------------------------------
(* Properties; the others are those of CredentialStore *)

LoginTypeOK ==
    /\ TypeOK
    /\ poll # "idle" => Poll!TypeOK /\ \E l \in Logins : pc[l] = "browser"
    /\ poll = "idle" => IdlePoll

\* The poll of every login gives up only when its own attempts are used up, the backend
\* answered with something else, or the last MaxErrors polls failed.
GivesUpForAReason == Poll!GivesUpForAReason

=============================================================================
