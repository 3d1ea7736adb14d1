----------------------------- MODULE LiveBridge -----------------------------
(***************************************************************************)
(* The persistent bridge of LiveSbclAgentHostAdapter                       *)
(* (src/main/live-host-adapter.ts): how a service call travels to one      *)
(* of two long-lived SBCL children, a "read" and a "write" one, and how    *)
(* its promise is settled by a response line, a failed write, the death of *)
(* a child, a line that is not JSON, or an invalidation.                   *)
(*                                                                         *)
(* Adapter steps are atomic: the main process is one JavaScript thread,    *)
(* and between two of its callbacks anything else may happen.  What a      *)
(* child answers is left open here; module BridgeStore says what the Lisp  *)
(* side computes.                                                          *)
(***************************************************************************)
EXTENDS Naturals, FiniteSets

CONSTANTS
  Call,          \* the invocations of invokeService a behaviour may make
  ReadChild,     \* the processes that may exist at a time for the read route,
  WriteChild,    \* and for the write route
  Env,           \* environment identifiers
  DefaultEnv,    \* "live-environment": a name that means no environment in particular
  NoEnv,         \* no environment identifier
  NoChild,       \* the null of PersistentBridgeState.process
  Requests       \* what callers ask: records [op, env]

Op == {"query", "command", "preferences-set", "load-image", "revert-image"}

ASSUME EnvAssumption == DefaultEnv \in Env /\ NoEnv \notin Env
ASSUME RequestAssumption == Requests \subseteq [op : Op, env : Env \cup {NoEnv}]

Route == {"read", "write"}
Child == ReadChild \cup WriteChild
ASSUME ChildAssumption == ReadChild \cap WriteChild = {} /\ NoChild \notin Child

(* A child's handlers are closed over the state of one route.              *)
Children(r) == IF r = "read" THEN ReadChild ELSE WriteChild
RouteServed(k) == IF k \in ReadChild THEN "read" ELSE "write"

(* "query" stands for the operations the code lists as read-only, all      *)
(* others are written to the write child.                                  *)
RouteOf(op) == IF op = "query" THEN "read" ELSE "write"
InvalidatesReads(op) == op # "preferences-set"
Transition == {"load-image", "revert-image"}

VARIABLES
  currentBinding,     \* the environment the adapter believes it is bound to
  transitionInFlight, \* bindingTransitionInFlight
  process,            \* the current child of each route, or NoChild
  requestId,          \* the last identifier given out on each route
  warmupRequested,    \* routes whose warm-up flag is set
  pending,            \* entries waiting for a response, by route
  status,             \* the life of each operating-system process
  killed,             \* children that kill() was called on
  stdin,              \* requests written to a child it has not executed yet
  stdout,             \* frames a child has printed that were not read yet
  broken,             \* writes whose error callback has not run yet
  call                \* the promise of each invocation

adapter  == <<currentBinding, transitionInFlight, process, requestId,
              warmupRequested, pending, call>>
children == <<status, killed, stdin, stdout, broken>>
vars     == <<currentBinding, transitionInFlight, process, requestId,
              warmupRequested, pending, call, status, killed, stdin, stdout,
              broken>>

(* A pipe delivers in the order of writing.  Identifiers only grow, so the *)
(* oldest of a set of entries is the one with the least identifier.        *)
Entry == [id : Nat, call : Call]
Frame == [id : Nat, call : Call, ok : BOOLEAN, env : Env \cup {NoEnv}]
Oldest(S) == {e \in S : \A f \in S : e.id <= f.id}
EntryOf(f) == [id |-> f.id, call |-> f.call]

CallState == {"idle", "waiting", "resuming", "resolved", "rejected"}
CallRecord == [state : CallState, op : Op, env : Env \cup {NoEnv}]

TypeOK ==
  /\ currentBinding \in Env
  /\ transitionInFlight \in BOOLEAN
  /\ process \in [Route -> Child \cup {NoChild}]
  /\ requestId \in [Route -> Nat]
  /\ warmupRequested \in SUBSET Route
  /\ pending \in [Route -> SUBSET Entry]
  /\ status \in [Child -> {"free", "running", "failed", "exited"}]
  /\ killed \in SUBSET Child
  /\ stdin \in [Child -> SUBSET Entry]
  /\ stdout \in [Child -> SUBSET Frame]
  /\ broken \in SUBSET (Route \X Entry)
  /\ call \in [Call -> CallRecord]
-----------------------------------------------------------------------------
(* The constructor asks for the read child at once.  It may come up, fail  *)
(* to start (the error event follows), or never be there because spawn     *)
(* throws; the flag is set in each case.                                   *)
Init ==
  /\ currentBinding = DefaultEnv
  /\ transitionInFlight = FALSE
  /\ requestId = [r \in Route |-> 0]
  /\ warmupRequested = {"read"}
  /\ pending = [r \in Route |-> {}]
  /\ killed = {}
  /\ stdin = [k \in Child |-> {}]
  /\ stdout = [k \in Child |-> {}]
  /\ broken = {}
  /\ call = [c \in Call |-> [state |-> "idle", op |-> "query", env |-> NoEnv]]
  /\ \/ /\ process = [r \in Route |-> NoChild]
        /\ status = [k \in Child |-> "free"]
     \/ \E first \in ReadChild, up \in {"running", "failed"} :
          /\ process = [r \in Route |-> IF r = "read" THEN first ELSE NoChild]
          /\ status = [k \in Child |-> IF k = first THEN up ELSE "free"]

(* Settling a promise a second time has no effect.                         *)
Reject(S, calls) ==
  [c \in Call |-> IF calls[c].state = "waiting" /\ \E e \in S : e.call = c
                  THEN [calls[c] EXCEPT !.state = "rejected"] ELSE calls[c]]

(* A finally that only the successful path reaches, for the mutation runs. *)
FlagKeptAfterReject(S, flag) == flag

(* The finally of loadEnvironmentImage runs when its call fails.           *)
FlagAfterReject(S, flag) ==
  flag /\ ~ \E e \in S : call[e.call].state = "waiting" /\ call[e.call].op = "load-image"

Reusable(r) == process[r] # NoChild /\ process[r] \notin killed

(* Invalidation that forgets child.kill, for the mutation runs.            *)
DropProcessesAlive(R) ==
  /\ process' = [r \in Route |-> IF r \in R THEN NoChild ELSE process[r]]
  /\ warmupRequested' = warmupRequested \ R
  /\ UNCHANGED killed

(* invalidateBridge for each route of R, but for the promises.             *)
DropProcesses(R) ==
  /\ process' = [r \in Route |-> IF r \in R THEN NoChild ELSE process[r]]
  /\ warmupRequested' = warmupRequested \ R
  /\ killed' = killed \cup ({process[r] : r \in R} \ {NoChild})
-----------------------------------------------------------------------------
(* The environment a transition names is the adapter's own binding.        *)
RequestedEnv(q) == IF q.op \in Transition THEN currentBinding ELSE q.env

Issued(q) == [state |-> "waiting", op |-> q.op, env |-> RequestedEnv(q)]

(* Identifiers taken from the size of the map, for the mutation runs.      *)
NextEntryBySize(c, r) == [id |-> Cardinality(pending[r]) + 1, call |-> c]

NextEntry(c, r) == [id |-> requestId[r] + 1, call |-> c]

(* The tail of invokeService, with no await in it: take an identifier, put *)
(* the promise in the pending map, write the request to child k.  The      *)
(* write fails if k never started, and may fail or vanish if k is gone.    *)
Write(c, q, k, life) ==
  LET r == RouteOf(q.op)
      e == NextEntry(c, r)
  IN /\ requestId' = [requestId EXCEPT ![r] = e.id]
     /\ \/ /\ life = "running"
           /\ stdin' = [stdin EXCEPT ![k] = @ \cup {e}]
           /\ UNCHANGED broken
        \/ /\ life # "running"
           /\ broken' = broken \cup {<<r, e>>}
           /\ UNCHANGED stdin
        \/ life = "exited" /\ UNCHANGED <<stdin, broken>>

Register(c, q) ==
  LET r == RouteOf(q.op)
  IN /\ pending' = [pending EXCEPT ![r] = @ \cup {NextEntry(c, r)}]
     /\ call' = [call EXCEPT ![c] = Issued(q)]
     /\ transitionInFlight' = (transitionInFlight \/ q.op = "load-image")

InvokeReuse(c, q) ==
  LET r == RouteOf(q.op)
  IN /\ Reusable(r)
     /\ Write(c, q, process[r], status[process[r]])
     /\ Register(c, q)
     /\ UNCHANGED <<currentBinding, process, warmupRequested, status, killed, stdout>>

InvokeSpawn(c, q) ==
  LET r == RouteOf(q.op)
  IN /\ ~ Reusable(r)
     /\ \E k \in Children(r), up \in {"running", "failed"} :
          /\ status[k] = "free"
          /\ status' = [status EXCEPT ![k] = up]
          /\ process' = [process EXCEPT ![r] = k]
          /\ Write(c, q, k, up)
     /\ Register(c, q)
     /\ UNCHANGED <<currentBinding, warmupRequested, killed, stdout>>

(* The error event of a failed spawn is a nextTick callback: it can run in *)
(* the await between the spawn and the write.  The adapter then registers  *)
(* the call although the route has no process any more.                    *)
InvokeAfterFailedSpawn(c, q) ==
  LET r == RouteOf(q.op)
      e == NextEntry(c, r)
  IN /\ ~ Reusable(r)
     /\ \E k \in Children(r) :
          /\ status[k] = "free"
          /\ status' = [status EXCEPT ![k] = "exited"]
     /\ process' = [process EXCEPT ![r] = NoChild]
     /\ warmupRequested' = warmupRequested \ {r}
     /\ requestId' = [requestId EXCEPT ![r] = e.id]
     /\ pending' = [pending EXCEPT ![r] = {e}]
     /\ call' = [Reject(pending[r], call) EXCEPT ![c] = Issued(q)]
     /\ broken' = broken \cup {<<r, e>>}
     /\ transitionInFlight' = (q.op = "load-image" \/ FlagAfterReject(pending[r], transitionInFlight))
     /\ UNCHANGED <<currentBinding, killed, stdin, stdout>>

(* spawn throws, as node's does when the system refuses a process for      *)
(* another reason than a missing or forbidden file: the call fails before  *)
(* it has an entry.                                                        *)
InvokeSpawnThrows(c, q) ==
  /\ ~ Reusable(RouteOf(q.op))
  /\ call' = [call EXCEPT ![c] = [Issued(q) EXCEPT !.state = "rejected"]]
  /\ transitionInFlight' = (transitionInFlight /\ q.op # "load-image")
  /\ UNCHANGED <<currentBinding, process, requestId, warmupRequested, pending, children>>

(* invokeService and invokeStreamingService.                               *)
Invoke(c) ==
  /\ call[c].state = "idle"
  /\ \E q \in Requests : \/ InvokeReuse(c, q)
                         \/ InvokeSpawn(c, q)
                         \/ InvokeAfterFailedSpawn(c, q)
                         \/ InvokeSpawnThrows(c, q)

(* A write callback that forgets rejectPromise, for the mutation runs.     *)
WriteErrorSilent(r, e) ==
  /\ <<r, e>> \in broken
  /\ broken' = broken \ {<<r, e>>}
  /\ pending' = [pending EXCEPT ![r] = {p \in @ : p.id # e.id}]
  /\ UNCHANGED <<currentBinding, transitionInFlight, process, requestId,
                 warmupRequested, call, status, killed, stdin, stdout>>

(* The error callback of stdin.write.                                      *)
WriteError(r, e) ==
  /\ <<r, e>> \in broken
  /\ broken' = broken \ {<<r, e>>}
  /\ pending' = [pending EXCEPT ![r] = {p \in @ : p.id # e.id}]
  /\ call' = Reject({e}, call)
  /\ transitionInFlight' = FlagAfterReject({e}, transitionInFlight)
  /\ UNCHANGED <<currentBinding, process, requestId, warmupRequested, status,
                 killed, stdin, stdout>>
-----------------------------------------------------------------------------
(* The children.                                                           *)

(* A child serves one request at a time; what it answers is open.          *)
Answer(k, e, ok, env) ==
  /\ status[k] = "running"
  /\ e \in Oldest(stdin[k])
  /\ stdin' = [stdin EXCEPT ![k] = @ \ {e}]
  /\ stdout' = [stdout EXCEPT ![k] = @ \cup
                  {[id |-> e.id, call |-> e.call, ok |-> ok, env |-> env]}]
  /\ UNCHANGED <<adapter, status, killed, broken>>

Execute(k) ==
  \E e \in stdin[k], ok \in BOOLEAN, env \in Env \cup {NoEnv} : Answer(k, e, ok, env)

(* A child dies, of a signal or by itself; the adapter does not know yet.  *)
Exit(k) ==
  /\ status[k] = "running"
  /\ status' = [status EXCEPT ![k] = "exited"]
  /\ stdin' = [stdin EXCEPT ![k] = {}]
  /\ UNCHANGED <<adapter, killed, stdout, broken>>

(* A close handler that forgets to reject, for the mutation runs.          *)
LoseCurrentSilently(k) ==
  LET r == RouteServed(k)
  IN IF process[r] = k
     THEN /\ process' = [process EXCEPT ![r] = NoChild]
          /\ warmupRequested' = warmupRequested \ {r}
          /\ pending' = [pending EXCEPT ![r] = {}]
          /\ UNCHANGED <<call, transitionInFlight>>
     ELSE UNCHANGED <<process, warmupRequested, pending, call, transitionInFlight>>

(* What the error and close handlers do when the child is the current one. *)
LoseCurrent(k) ==
  LET r == RouteServed(k)
  IN IF process[r] = k
     THEN /\ process' = [process EXCEPT ![r] = NoChild]
          /\ warmupRequested' = warmupRequested \ {r}
          /\ pending' = [pending EXCEPT ![r] = {}]
          /\ call' = Reject(pending[r], call)
          /\ transitionInFlight' = FlagAfterReject(pending[r], transitionInFlight)
     ELSE UNCHANGED <<process, warmupRequested, pending, call, transitionInFlight>>

SpawnError(k) ==
  /\ status[k] = "failed"
  /\ status' = [status EXCEPT ![k] = "exited"]
  /\ LoseCurrent(k)
  /\ UNCHANGED <<currentBinding, requestId, killed, stdin, stdout, broken>>

(* close comes after the end of the child's output; the identity k may     *)
(* then stand for a later process.                                         *)
Close(k) ==
  /\ status[k] = "exited"
  /\ stdout[k] = {}
  /\ status' = [status EXCEPT ![k] = "free"]
  /\ killed' = killed \ {k}
  /\ LoseCurrent(k)
  /\ UNCHANGED <<currentBinding, requestId, stdin, stdout, broken>>
-----------------------------------------------------------------------------
(* The line handler.                                                       *)

Matches(k, f) == {p \in pending[RouteServed(k)] : process[RouteServed(k)] = k /\ p.id = f.id}

ReadFrame(k, f) ==
  /\ f \in Oldest(stdout[k])
  /\ stdout' = [stdout EXCEPT ![k] = @ \ {f}]

(* A line of a child that is no longer current, or with an identifier that *)
(* is no longer pending.                                                   *)
IgnoreLine(k) ==
  \E f \in stdout[k] :
    /\ ReadFrame(k, f)
    /\ Matches(k, f) = {}
    /\ UNCHANGED <<adapter, status, killed, stdin, broken>>

(* adoptResponseBinding refuses a response of another environment than the *)
(* one the call named, unless that is the one the adapter is bound to.     *)
Drifts(c, env) ==
  /\ env # NoEnv
  /\ call[c].env \notin {NoEnv, DefaultEnv}
  /\ call[c].op \notin Transition
  /\ ~ transitionInFlight
  /\ env \notin {call[c].env, currentBinding}

RefuseResponse(k, f, p) ==
  /\ ReadFrame(k, f)
  /\ Drifts(p.call, f.env)
  /\ pending' = [pending EXCEPT ![RouteServed(k)] = @ \ {p}]
  /\ call' = Reject({p}, call)
  /\ UNCHANGED <<currentBinding, transitionInFlight, process, requestId,
                 warmupRequested, status, killed, stdin, broken>>

DriftedLine(k) == \E f \in stdout[k] : \E p \in Matches(k, f) : RefuseResponse(k, f, p)

(* A response without a binding taken for one, for the mutation runs.      *)
AdoptedUnchecked(env) == env

(* A binding that is adopted once only, for the mutation runs.             *)
AdoptedOnce(env) == IF env = NoEnv \/ currentBinding # DefaultEnv THEN currentBinding ELSE env

Adopted(env) == IF env = NoEnv THEN currentBinding ELSE env

(* A transition is not over when its response is in: its continuation runs *)
(* later, see FinishTransition.  revertEnvironmentToImage takes the new    *)
(* binding from the summary, which a failed revert does not have.          *)
Answered(c, f) ==
  IF call[c].op \in Transition
  THEN [call[c] EXCEPT !.state = "resuming",
          !.env = IF call[c].op = "load-image" \/ f.ok THEN f.env ELSE NoEnv]
  ELSE [call[c] EXCEPT !.state = "resolved"]

(* A write that leaves the read child alone, for the mutation runs.        *)
ReadsOutliveWrites(k, p, f) == FALSE

StalesReads(k, p, f) == RouteServed(k) = "write" /\ f.ok /\ InvalidatesReads(call[p.call].op)

TakeResponse(k, f, p) ==
  LET answered == [call EXCEPT ![p.call] = Answered(p.call, f)]
      rest == [pending EXCEPT ![RouteServed(k)] = @ \ {p}]
  IN /\ ReadFrame(k, f)
     /\ ~ Drifts(p.call, f.env)
     /\ currentBinding' = Adopted(f.env)
     /\ IF StalesReads(k, p, f)
        THEN /\ DropProcesses({"read"})
             /\ pending' = [rest EXCEPT !["read"] = {}]
             /\ call' = Reject(rest["read"], answered)
        ELSE /\ pending' = rest
             /\ call' = answered
             /\ UNCHANGED <<process, warmupRequested, killed>>
     /\ UNCHANGED <<transitionInFlight, requestId, status, stdin, broken>>

DeliverLine(k) == \E f \in stdout[k] : \E p \in Matches(k, f) : TakeResponse(k, f, p)

(* Standard output that is not JSON fails every pending call of the route, *)
(* but neither the child nor the requests it was sent.                     *)
MalformedLine(k) ==
  LET r == RouteServed(k)
  IN /\ status[k] \in {"running", "exited"}
     /\ process[r] = k
     /\ pending' = [pending EXCEPT ![r] = {}]
     /\ call' = Reject(pending[r], call)
     /\ transitionInFlight' = FlagAfterReject(pending[r], transitionInFlight)
     /\ UNCHANGED <<currentBinding, process, requestId, warmupRequested, children>>

Line(k) == IgnoreLine(k) \/ DriftedLine(k) \/ DeliverLine(k)
-----------------------------------------------------------------------------
(* Rebinding.                                                              *)

(* A rebinding that leaves the write bridge alone, for the mutation runs.  *)
SetEnvironmentBindingOfReads(env) ==
  /\ currentBinding' = env
  /\ DropProcesses({"read"})
  /\ pending' = [pending EXCEPT !["read"] = {}]
  /\ call' = Reject(pending["read"], call)
  /\ UNCHANGED <<transitionInFlight, requestId, status, stdin, stdout, broken>>

InvalidateBoth ==
  /\ DropProcesses(Route)
  /\ pending' = [r \in Route |-> {}]

SetEnvironmentBinding(env) ==
  /\ currentBinding' = env
  /\ InvalidateBoth
  /\ call' = Reject(pending["read"] \cup pending["write"], call)
  /\ transitionInFlight' =
       FlagAfterReject(pending["read"] \cup pending["write"], transitionInFlight)
  /\ UNCHANGED <<requestId, status, stdin, stdout, broken>>

(* What loadEnvironmentImage and revertEnvironmentToImage do after their   *)
(* await.  Only the first resets the flag, and it resets it whatever other *)
(* load may be in flight.                                                  *)
FinishTransition(c) ==
  LET done == [call EXCEPT ![c].state = "resolved"]
  IN /\ call[c].state = "resuming"
     /\ currentBinding' = Adopted(call[c].env)
     /\ InvalidateBoth
     /\ call' = Reject(pending["read"] \cup pending["write"], done)
     /\ transitionInFlight' =
          (/\ call[c].op # "load-image"
           /\ FlagAfterReject(pending["read"] \cup pending["write"], transitionInFlight))
     /\ UNCHANGED <<requestId, status, stdin, stdout, broken>>

Next ==
  \/ \E c \in Call : Invoke(c) \/ FinishTransition(c)
  \/ \E w \in broken : WriteError(w[1], w[2])
  \/ \E k \in Child : \/ Execute(k) \/ Exit(k) \/ SpawnError(k) \/ Close(k)
                      \/ IgnoreLine(k) \/ DriftedLine(k) \/ DeliverLine(k)
                      \/ MalformedLine(k)
  \/ \E env \in Env : SetEnvironmentBinding(env)

(* Node delivers every event it has, a promise continuation runs, a child  *)
(* that was killed dies, and a live one ends every request it is sent.     *)
(* Only the last is an assumption on the service and not on the platform:  *)
(* the adapter itself has no timeout.                                      *)
Fairness ==
  /\ \A c \in Call : WF_vars(FinishTransition(c))
  /\ WF_vars(\E w \in broken : WriteError(w[1], w[2]))
  /\ \A k \in Child : /\ WF_vars(Execute(k))
                      /\ WF_vars(k \in killed /\ Exit(k))
                      /\ WF_vars(SpawnError(k))
                      /\ WF_vars(Close(k))
                      /\ WF_vars(Line(k))

Spec == Init /\ [][Next]_vars
FairSpec == Spec /\ Fairness
-----------------------------------------------------------------------------
(* Properties.                                                             *)

Waiting(c) == call[c].state = "waiting"

(* An entry of the pending map still has an event coming that settles it:  *)
(* its request is with the current child, its response is on the way, the  *)
(* death of that child is about to be reported, or its write has failed.   *)
WillSettle(r, e) ==
  \/ <<r, e>> \in broken
  \/ /\ process[r] # NoChild
     /\ \/ status[process[r]] # "running"
        \/ e \in stdin[process[r]]
        \/ \E f \in stdout[process[r]] : EntryOf(f) = e

(* No promise is forgotten by respawning, invalidation or id reuse: every  *)
(* unanswered call has an entry on its route, and every entry will settle  *)
(* (the handlers of ensurePersistentBridgeForRoute, invalidateBridge and   *)
(* the write callback of invokeService together).                          *)
NoLostCall ==
  /\ \A c \in Call : Waiting(c) => \E e \in pending[RouteOf(call[c].op)] : e.call = c
  /\ \A r \in Route : \A e \in pending[r] : WillSettle(r, e)

(* A response settles the call it was computed for, however many children  *)
(* were replaced and calls failed before it arrived: identifiers are never *)
(* used twice on a route (++state.requestId in invokeService).             *)
ResponsesReachTheirCall ==
  \A k \in Child : \A f \in stdout[k] : \A p \in Matches(k, f) : p.call = f.call

(* The adapter leaves no SBCL process running that it neither uses nor has *)
(* killed: a lost one would keep writing the state file.                   *)
NoLeakedChild ==
  \A k \in Child : status[k] = "running" => process[RouteServed(k)] = k \/ k \in killed

(* While the transition flag is up, preferences are kept in memory only    *)
(* (setDesktopPreferences): whatever way a load fails, the flag must not   *)
(* outlive the last load.                                                  *)
NoStuckTransition ==
  transitionInFlight =>
    \E c \in Call : call[c].op = "load-image" /\ call[c].state \in {"waiting", "resuming"}

(* No call issued under the old binding survives an explicit rebinding     *)
(* (setEnvironmentBinding, the ends of a load and of a revert), so none of *)
(* their responses can move the binding back.                              *)
Rebinding == (\E env \in Env : SetEnvironmentBinding(env))
               \/ (\E c \in Call : FinishTransition(c))

RebindingIsABarrier ==
  [][Rebinding => \A c \in Call : ~ Waiting(c)']_vars

(* To its callers the adapter is a set of calls, each settled once.        *)
Outcome(c) == CASE call[c].state = "idle" -> "idle"
                [] call[c].state \in {"waiting", "resuming"} -> "open"
                [] OTHER -> call[c].state

Promise == INSTANCE ServiceCalls WITH outcome <- [c \in Call |-> Outcome(c)]
CallsAreSettledOnce == Promise!Spec
=============================================================================
