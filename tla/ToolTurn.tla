------------------------------ MODULE ToolTurn ------------------------------
(***************************************************************************)
(* What the Cursor client promises Hermes about tool calls, without        *)
(* threads, sockets or processes.  Hermes opens a turn; while the turn is  *)
(* open the model's tool calls are accepted by it, each by one turn and    *)
(* once; the turn then returns exactly what it had accepted, in the order  *)
(* of acceptance, or raises and returns nothing.  A call may be accepted   *)
(* after its turn was closed: such a call is never returned, which is the  *)
(* gap between this promise and the one the placeholder answer makes.      *)
(***************************************************************************)
EXTENDS Sequences, Functions

CONSTANTS Requests,  \* the turns
          Calls      \* the tool calls the model makes

VARIABLES turn,      \* turn[r]: "open", "returned" or "raised"
          accepted,  \* accepted[r]: the calls turn r accepted, in order
          returned   \* returned[r]: the calls turn r handed to Hermes

turnVars == <<turn, accepted, returned>>

TurnInit ==
    /\ turn = [r \in Requests |-> "open"]
    /\ accepted = [r \in Requests |-> <<>>]
    /\ returned = [r \in Requests |-> <<>>]

AcceptedBySome(c) == \E r \in Requests : c \in Range(accepted[r])

Accept(r, c) ==
    /\ ~AcceptedBySome(c)
    /\ accepted' = [accepted EXCEPT ![r] = Append(@, c)]
    /\ UNCHANGED <<turn, returned>>

Return(r) ==
    /\ turn[r] = "open"
    /\ turn' = [turn EXCEPT ![r] = "returned"]
    /\ returned' = [returned EXCEPT ![r] = accepted[r]]
    /\ UNCHANGED accepted

Raise(r) ==
    /\ turn[r] = "open"
    /\ turn' = [turn EXCEPT ![r] = "raised"]
    /\ UNCHANGED <<accepted, returned>>

TurnNext ==
    \E r \in Requests :
        \/ Return(r)
        \/ Raise(r)
        \/ \E c \in Calls : Accept(r, c)

TurnSpec == TurnInit /\ [][TurnNext]_turnVars

=============================================================================
