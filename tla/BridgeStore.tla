---------------------------- MODULE BridgeStore ----------------------------
(***************************************************************************)
(* The adapter's two children (module LiveBridge) with what each of them   *)
(* does: scripts/live-service-bridge.lisp, started once per route on the   *)
(* same state file.  A child loads the environment from that file at its   *)
(* first request, keeps it in memory, answers from memory, and saves the   *)
(* whole of it after EVERY request, a read included, before it prints the  *)
(* response.  The one exception is a message that the runtime evaluates as *)
(* a form: it is acknowledged and only kept in memory.  Nothing but        *)
(* killing the read child makes it load again.                             *)
(***************************************************************************)
EXTENDS LiveBridge

CONSTANTS
  NoStore,         \* an environment not loaded yet
  OneAtATime,      \* callers wait until no child is busy before they call again
  Circumstances    \* what else may happen in a behaviour

\* "saves": a save may signal an error or run into its limit of 2 seconds.
\* "direct": a message may be a form that is evaluated directly.
\* "rebind": a window may bind the adapter to another environment.
\* A transition: callers ask for it.
Circumstance == {"saves", "direct", "rebind"} \cup Transition
ASSUME ModeAssumption == OneAtATime \in BOOLEAN /\ Circumstances \subseteq SUBSET Circumstance

VARIABLES
  file,            \* the state file
  memory,          \* *bridge-environment* of each child
  view,            \* what the response to each query showed
  acked,           \* commands whose "ok" reached their caller, in this environment
  doubtful,        \* direct evaluations nobody may count on yet, transitions that went half-way
  due,             \* what a query may count on: the environment and acked when it was made
  circumstances    \* what may happen, never changed

store == <<file, memory, view, acked, doubtful, due, circumstances>>
all   == <<vars, store>>

(* An environment is its identifier and the commands it has taken in.      *)
Store == [env : Env, done : SUBSET Call]

(* Values have their types, and a process that is not there has no memory. *)
StoreTypeOK ==
  /\ file \in Store
  /\ memory \in [Child -> Store \cup {NoStore}]
  /\ view \in [Call -> Store]
  /\ acked \in SUBSET Call
  /\ doubtful \in SUBSET Call
  /\ due \in [Call -> Store]
  /\ circumstances \in Circumstances
  /\ \A k \in Child : status[k] # "running" => memory[k] = NoStore

Fresh(env) == [env |-> env, done |-> {}]

StoreInit ==
  /\ Init
  /\ \E env \in Env \ {DefaultEnv} :
       /\ file = Fresh(env)
       /\ view = [c \in Call |-> Fresh(env)]
       /\ due = [c \in Call |-> Fresh(env)]
  /\ memory = [k \in Child |-> NoStore]
  /\ acked = {}
  /\ doubtful = {}
  /\ circumstances \in Circumstances
-----------------------------------------------------------------------------
(* bridge-environment-for-request: memory, but for the first request and   *)
(* for the two operations that change the environment.                     *)
Head(k) == CHOOSE e \in stdin[k] : e \in Oldest(stdin[k])

(* A child that loads at every request, for the mutation runs.             *)
EnvironmentReloaded(k) == file

EnvironmentFor(k) == IF call[Head(k).call].op \in Transition THEN file ELSE memory[k]
Loaded(k) == memory[k] # NoStore \/ call[Head(k).call].op \in Transition

Load(k) ==
  /\ status[k] = "running" /\ stdin[k] # {}
  /\ memory[k] = NoStore /\ call[Head(k).call].op \notin Transition
  /\ memory' = [memory EXCEPT ![k] = file]
  /\ UNCHANGED <<vars, file, view, acked, doubtful, due, circumstances>>

(* assert-bridge-environment-match.                                        *)
Mismatch(c, env) ==
  /\ call[c].op # "load-image"
  /\ call[c].env \notin {NoEnv, DefaultEnv, env}

(* service-response-for: whether call c succeeds on environment base and   *)
(* what the environment is afterwards.  A command can fail having changed  *)
(* something (an evaluation that signals, a request awaiting approval) and *)
(* so can a transition: the desktop of the environment that was loaded is  *)
(* set up before it is answered, and that may signal.                      *)
Results(c, base) ==
  {<<FALSE, base>>} \cup
    (IF Mismatch(c, base.env) THEN {}
     ELSE CASE call[c].op = "query" -> {<<TRUE, base>>}
            [] call[c].op \in {"command", "preferences-set"} ->
                 BOOLEAN \X {[base EXCEPT !.done = @ \cup {c}]}
            [] call[c].op = "load-image" -> BOOLEAN \X {Fresh(env) : env \in Env \ {DefaultEnv}}
            [] OTHER -> BOOLEAN \X {Fresh(base.env)})

(* The environment a response names: what the operation left, or, for one  *)
(* that signalled, what it was asked of.                                   *)
AnsweredEnv(r, base) == IF r[1] THEN r[2].env ELSE base.env

(* A transition saving the environment it started from, for the mutation   *)
(* runs.                                                                   *)
PersistedBefore(c, base, result) == IF call[c].op \in Transition THEN base ELSE result

(* What the child keeps: the environment that the request left current     *)
(* (ensure-environment, after a transition).                               *)
Persisted(c, base, result) == result

(* A save that is left out, for the mutation runs.                         *)
SaveNothing(result) == UNCHANGED file

(* What save-environment signals is logged and dropped, and the response   *)
(* says nothing of it.                                                     *)
Save(result) == file' = result \/ ("saves" \in circumstances /\ UNCHANGED file)

(* skip-persist-p: conversation.send-message with a form for its prompt,   *)
(* which conversation-say-service-response has the runtime evaluate.       *)
DirectEvaluation(c, result) ==
  "direct" \in circumstances /\ call[c].op = "command" /\ c \in result.done

SaveUnlessDirect(direct, result) == IF direct THEN UNCHANGED file ELSE Save(result)

HalfWay(c, base, r) == call[c].op \in Transition /\ ~ r[1] /\ r[2] # base

(* execute-request, with the save, and the response line that follows it.  *)
Serve(k) ==
  LET c == Head(k).call
      base == EnvironmentFor(k)
  IN /\ status[k] = "running" /\ stdin[k] # {} /\ Loaded(k)
     /\ \E r \in Results(c, base), direct \in BOOLEAN :
          /\ direct => DirectEvaluation(c, r[2])
          /\ memory' = [memory EXCEPT ![k] = Persisted(c, base, r[2])]
          /\ SaveUnlessDirect(direct, Persisted(c, base, r[2]))
          /\ view' = [view EXCEPT ![c] = IF call[c].op = "query" THEN r[2] ELSE @]
          /\ doubtful' = doubtful \cup {d \in {c} : direct \/ HalfWay(c, base, r)}
          /\ Answer(k, Head(k), r[1], AnsweredEnv(r, base))
     /\ UNCHANGED <<acked, due, circumstances>>

(* A child can die between the save and the response.                      *)
ServeAndDie(k) ==
  LET c == Head(k).call
      base == EnvironmentFor(k)
  IN /\ stdin[k] # {} /\ Loaded(k)
     /\ \E r \in Results(c, base), direct \in BOOLEAN :
          /\ direct => DirectEvaluation(c, r[2])
          /\ SaveUnlessDirect(direct, Persisted(c, base, r[2]))
     /\ Exit(k)
     /\ memory' = [memory EXCEPT ![k] = NoStore]
     /\ UNCHANGED <<view, acked, doubtful, due, circumstances>>

(* A process started anew with the memory of the one before, for the       *)
(* mutation runs.                                                          *)
DieRemembering(k) == Exit(k) /\ UNCHANGED store

Die(k) ==
  /\ Exit(k)
  /\ memory' = [memory EXCEPT ![k] = NoStore]
  /\ UNCHANGED <<file, view, acked, doubtful, due, circumstances>>
-----------------------------------------------------------------------------
(* The adapter's steps, with what they mean for the caller.                *)

ChildrenIdle ==
  /\ \A c \in Call : call[c].state \notin {"waiting", "resuming"}
  /\ \A k \in Child : stdin[k] = {}

Ask(c) ==
  /\ OneAtATime => ChildrenIdle
  /\ Invoke(c)
  /\ call'[c].op \in Transition => call'[c].op \in circumstances
  /\ due' = [due EXCEPT ![c].done = IF call'[c].op = "query" THEN acked \ doubtful ELSE @]
  /\ UNCHANGED <<file, memory, view, acked, doubtful, circumstances>>

(* The next command that is saved and acknowledged takes what was          *)
(* evaluated directly into the file, and replaces the read child.          *)
Deliver(k) ==
  LET done == {f.call : f \in {g \in stdout[k] \ stdout'[k] : g.ok /\ call[g.call].op = "command"}}
  IN /\ DeliverLine(k)
     /\ acked' = acked \cup done
     /\ doubtful' = doubtful \ {d \in file.done : ~ done \subseteq doubtful /\ call[d].op \notin Transition}
     /\ UNCHANGED <<file, memory, view, due, circumstances>>

(* What later calls may count on after a transition is the environment it  *)
(* was answered with; a revert that failed leaves the one there was.       *)
LeftBy(c) == IF call[c].env = NoEnv THEN due[c].env ELSE call[c].env

Finish(c) ==
  /\ FinishTransition(c)
  /\ acked' = {}
  /\ due' = [d \in Call |-> IF call[d].state = "idle" THEN Fresh(LeftBy(c)) ELSE due[d]]
  /\ UNCHANGED <<file, memory, view, doubtful, circumstances>>

(* A window binds the adapter, as a rule to what it is bound to.           *)
Rebind(env) ==
  /\ env # currentBinding => "rebind" \in circumstances
  /\ OneAtATime => ChildrenIdle
  /\ SetEnvironmentBinding(env)
  /\ UNCHANGED store

Quiet(k) == IgnoreLine(k) \/ DriftedLine(k) \/ SpawnError(k) \/ Close(k)

StoreNext ==
  \/ \E c \in Call : Ask(c) \/ Finish(c)
  \/ \E k \in Child : Load(k) \/ Serve(k) \/ ServeAndDie(k) \/ Die(k) \/ Deliver(k)
  \/ \E k \in Child : (Quiet(k) \/ MalformedLine(k)) /\ UNCHANGED store
  \/ \E w \in broken : WriteError(w[1], w[2]) /\ UNCHANGED store
  \/ \E env \in Env : Rebind(env)

StoreSpec == StoreInit /\ [][StoreNext]_all
-----------------------------------------------------------------------------
Shown(c) == call[c].state = "resolved" /\ call[c].op = "query"

(* A load or revert under way, or one that fails after the child has       *)
(* carried it out, leaves the caller without a promise.                    *)
TransitionInDoubt ==
  \E c \in Call : /\ call[c].op \in Transition
                  /\ call[c].state \in {"waiting", "resuming", "rejected"} \/ c \in doubtful

SavesFail == "saves" \in circumstances

(* A query that was made after a command's "ok" arrived shows the command, *)
(* and after a load or a revert it shows the environment that was loaded:  *)
(* the point of killing the read child after a write                       *)
(* (shouldInvalidateReadBridgeAfterWrite, loadEnvironmentImage).  A direct *)
(* evaluation is shown from the next command on that is saved and          *)
(* acknowledged (skip-persist-p in execute-request); a save that is not    *)
(* followed by killing the read child would not do.                        *)
ReadsReflectAcknowledgedWrites ==
  \A c \in Call : Shown(c) => \/ due[c].done \subseteq view[c].done
                                /\ due[c].env = view[c].env
                             \/ TransitionInDoubt \/ SavesFail

(* A command whose "ok" has arrived is in the state file, so it outlives   *)
(* both children and the adapter (save-environment in execute-request),    *)
(* and so does a direct evaluation that a later such command has saved.    *)
AcknowledgedWritesAreDurable ==
  SavesFail \/ (acked \ doubtful) \subseteq file.done \/ TransitionInDoubt

(* The adapter stays bound to the environment that is in the state file,   *)
(* as long as no window binds it to another: any answer may move the       *)
(* binding (adoptResponseBinding), whichever child gave it, from whichever *)
(* memory, and before or after a load replaced the file.                   *)
BindingNamesTheFile ==
  \/ SavesFail \/ TransitionInDoubt \/ "rebind" \in circumstances
  \/ currentBinding \in {DefaultEnv, file.env}

(* When saves fail, the write child that took a command in remembers it as *)
(* long as it lives, whatever read children save meanwhile: its next save  *)
(* that succeeds brings the command back into the file                     *)
(* (bridge-environment-for-request keeps the environment in memory).  When *)
(* it is dead, the save of a read child that loaded an older file can      *)
(* still take the command away.                                            *)
Remembers(k, c) == memory[k] # NoStore /\ c \in memory[k].done

LossNeedsADeadWriter ==
  [][\A k \in WriteChild, c \in acked : Remembers(k, c) =>
       Remembers(k, c)' \/ memory'[k] = NoStore \/ TransitionInDoubt]_all
=============================================================================
