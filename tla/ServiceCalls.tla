---------------------------- MODULE ServiceCalls ----------------------------
(***************************************************************************)
(* What a caller of the live adapter is promised: each service call is     *)
(* issued at most once, and an issued call is settled exactly once, either *)
(* with a response or with an error.  Nothing is said of processes, pipes, *)
(* request identifiers or routes; module LiveBridge shows how the adapter  *)
(* keeps the promise with two child processes that come and go.            *)
(***************************************************************************)
CONSTANT Call              \* the service calls a behaviour may issue

VARIABLE outcome           \* what the caller of each call has seen so far

Settled == {"resolved", "rejected"}
Outcome == {"idle", "open"} \cup Settled

Init == outcome = [c \in Call |-> "idle"]

(* Where one call may go in one step.  A call is refused at once when no   *)
(* bridge process can be started.                                          *)
After(o) ==
  CASE o = "idle" -> {"idle", "open", "rejected"}
    [] o = "open" -> {"open"} \cup Settled
    [] OTHER      -> {o}

(* One event may settle many calls: a child that dies, a line that is not  *)
(* JSON, a binding that changes.                                           *)
Next == /\ outcome' \in [Call -> Outcome]
        /\ \A c \in Call : outcome'[c] \in After(outcome[c])

Settle(c) == outcome[c] = "open" /\ Next /\ outcome'[c] \in Settled

(* What happens to a call, and that something does.                        *)
SafeSpec == Init /\ [][Next]_outcome
Spec == SafeSpec /\ \A c \in Call : WF_outcome(Settle(c))
=============================================================================
