------------------------ MODULE BridgeStore_proofs -------------------------
(***************************************************************************)
(* The children on the state file: that they are children of module        *)
(* LiveBridge, what their memories remember, and why reads show and the    *)
(* file keeps what was acknowledged as long as callers take turns.         *)
(***************************************************************************)
EXTENDS BridgeStore, LiveBridge_proofs, WellFoundedInduction

(* An environment that has taken a command in, or started again.           *)
LEMMA StoreGrows ==
  ASSUME NEW s \in Store, NEW c \in Call
  PROVE  LET t == [s EXCEPT !.done = @ \cup {c}]
         IN t \in Store /\ t.env = s.env /\ t.done = s.done \cup {c}
BY DEF Store

LEMMA StoreStarts ==
  ASSUME NEW env \in Env
  PROVE  Fresh(env) \in Store /\ Fresh(env).env = env
BY DEF Fresh, Store

(* What a request leaves behind: only a transition replaces the            *)
(* environment; all others let it grow, and a command that succeeds is in  *)
(* it.                                                                     *)
LEMMA ResultsGrow ==
  ASSUME TypeOK, NEW c \in Call, NEW base \in Store, NEW r \in Results(c, base)
  PROVE  /\ r[1] \in BOOLEAN
         /\ r[2] \in Store
         /\ call[c].op \notin Transition => r[2].env = base.env /\ base.done \subseteq r[2].done
         /\ call[c].op = "query" => r[2] = base
         /\ call[c].op = "command" /\ r[1] = TRUE => c \in r[2].done
<1>. DEFINE op == call[c].op
            grown == [base EXCEPT !.done = @ \cup {c}]
<1>. op \in Op
  BY DEF TypeOK, CallRecord
<1>. HIDE DEF op
<1>1. CASE r = <<FALSE, base>>
  <2>1. r[1] = FALSE /\ r[2] = base
    BY <1>1
  <2>. QED BY <2>1 DEF op
<1>2. CASE r = <<TRUE, base>> /\ op = "query"
  <2>1. r[1] = TRUE /\ r[2] = base
    BY <1>2
  <2>. QED BY <2>1, <1>2 DEF op, Transition
<1>3. ASSUME NEW ok \in BOOLEAN, r = <<ok, grown>>, op \in {"command", "preferences-set"}
      PROVE  /\ r[1] \in BOOLEAN
             /\ r[2] \in Store
             /\ r[2].env = base.env /\ base.done \subseteq r[2].done
             /\ c \in r[2].done
             /\ op \notin Transition \cup {"query"}
  <2>1. r[1] = ok /\ r[2] = grown
    BY <1>3
  <2>2. grown \in Store /\ grown.env = base.env /\ grown.done = base.done \cup {c}
    BY StoreGrows
  <2>. HIDE DEF grown
  <2>. QED BY <2>1, <2>2, <1>3 DEF Transition
<1>4. ASSUME NEW ok \in BOOLEAN, NEW env \in Env, r = <<ok, Fresh(env)>>, op \in Transition
      PROVE  r[1] \in BOOLEAN /\ r[2] \in Store /\ op \notin {"query", "command"}
  <2>1. r[1] = ok /\ r[2] = Fresh(env)
    BY <1>4
  <2>. QED BY <2>1, <1>4, StoreStarts DEF Transition
<1>5. \/ r = <<FALSE, base>>
      \/ r = <<TRUE, base>> /\ op = "query"
      \/ (\E ok \in BOOLEAN : r = <<ok, grown>>) /\ op \in {"command", "preferences-set"}
      \/ (\E ok \in BOOLEAN, env \in Env : r = <<ok, Fresh(env)>>) /\ op \in Transition
  <2>. SUFFICES ASSUME r # <<FALSE, base>>
                PROVE  \/ r = <<TRUE, base>> /\ op = "query"
                       \/ (\E ok \in BOOLEAN : r = <<ok, grown>>) /\ op \in {"command", "preferences-set"}
                       \/ (\E ok \in BOOLEAN, env \in Env : r = <<ok, Fresh(env)>>) /\ op \in Transition
    OBVIOUS
  <2>1. CASE op = "query"
    BY <2>1 DEF Results, op
  <2>2. CASE op \in {"command", "preferences-set"}
    <3>1. r \in BOOLEAN \X {grown}
      BY <2>2 DEF Results, op
    <3>2. r = <<r[1], grown>> /\ r[1] \in BOOLEAN
      BY <3>1
    <3>. QED BY <2>2, <3>2
  <2>3. CASE op = "load-image"
    <3>1. r \in BOOLEAN \X {Fresh(env) : env \in Env \ {DefaultEnv}}
      BY <2>3 DEF Results, op
    <3>2. r = <<r[1], r[2]>> /\ r[1] \in BOOLEAN /\ \E env \in Env : r[2] = Fresh(env)
      BY <3>1
    <3>. QED BY <2>3, <3>2 DEF Transition
  <2>4. CASE op = "revert-image"
    <3>1. base.env \in Env
      BY DEF Store
    <3>2. r \in BOOLEAN \X {Fresh(base.env)}
      BY <2>4 DEF Results, op
    <3>3. r = <<r[1], Fresh(base.env)>> /\ r[1] \in BOOLEAN
      BY <3>2
    <3>. QED BY <2>4, <3>1, <3>3 DEF Transition
  <2>. QED BY <2>1, <2>2, <2>3, <2>4 DEF Op
<1>. QED BY <1>1, <1>2, <1>3, <1>4, <1>5 DEF op

(* A request is served on an environment: the child has loaded one, or the *)
(* operation reads the file.                                               *)
LEMMA ServedOnAStore ==
  ASSUME StoreTypeOK, NEW k \in Child, Loaded(k)
  PROVE  EnvironmentFor(k) \in Store
BY DEF Loaded, EnvironmentFor, StoreTypeOK
-----------------------------------------------------------------------------
(* What Serve and ServeAndDie have in common: the request they take and    *)
(* what it leaves.                                                         *)
Outcomes(k) == Results(Head(k).call, EnvironmentFor(k))

Served(k, r, direct) ==
  /\ direct => call[Head(k).call].op = "command"
  /\ memory' = [memory EXCEPT ![k] = r[2]]
  /\ SaveUnlessDirect(direct, r[2])
  /\ view' = [view EXCEPT ![Head(k).call] = IF call[Head(k).call].op = "query" THEN r[2] ELSE @]
  /\ doubtful' = doubtful \cup {d \in {Head(k).call} : direct \/ HalfWay(Head(k).call, EnvironmentFor(k), r)}
  /\ Answer(k, Head(k), r[1], AnsweredEnv(r, EnvironmentFor(k)))

LEMMA ServeServes ==
  ASSUME NEW k \in Child, Serve(k)
  PROVE  \E r \in Outcomes(k), direct \in BOOLEAN : Served(k, r, direct)
BY DEF Serve, Served, Outcomes, Persisted, DirectEvaluation

LEMMA DyingServes ==
  ASSUME NEW k \in Child, ServeAndDie(k)
  PROVE  \E r \in Outcomes(k), direct \in BOOLEAN :
           /\ direct => call[Head(k).call].op = "command"
           /\ SaveUnlessDirect(direct, r[2])
BY DEF ServeAndDie, Outcomes, Persisted, DirectEvaluation

(* Of the requests a child has been sent one is the oldest.                *)
LEMMA HeadIsAnEntry ==
  ASSUME TypeOK, NEW k \in Child, stdin[k] # {}
  PROVE  Head(k) \in stdin[k] /\ Head(k) \in Entry /\ Head(k).call \in Call
<1>. DEFINE ids == {e.id : e \in stdin[k]}
            less == OpToRel(<, Nat)
<1>1. stdin[k] \subseteq Entry
  BY DEF TypeOK
<1>2. ids \subseteq Nat /\ ids # {}
  BY <1>1 DEF Entry
<1>3. \A m, n \in Nat : m < n => <<m, n>> \in less
  BY DEF OpToRel
<1>4. IsWellFoundedOn(less, Nat)
  BY NatLessThanWellFounded
<1>. HIDE DEF ids, less
<1>5. PICK n \in ids : \A m \in ids : ~ (<<m, n>> \in less)
  BY <1>2, <1>4, WFMin
<1>6. ASSUME NEW m \in ids PROVE n <= m
  <2>1. m \in Nat /\ n \in Nat /\ ~ (m < n)
    BY <1>2, <1>3, <1>5
  <2>. QED BY <2>1
<1>7. \E e \in stdin[k] : e \in Oldest(stdin[k])
  BY <1>6 DEF ids, Oldest
<1>. QED BY <1>1, <1>7 DEF Head, Entry

(* Every step on the state file is a step of the bridge, or none.          *)
LEMMA StoreStepIsABridgeStep ==
  ASSUME TypeOK, StoreTypeOK, [StoreNext]_all
  PROVE  [Next]_vars
<1>1. ASSUME NEW c \in Call, Ask(c) \/ Finish(c) PROVE Next
  BY <1>1 DEF Ask, Finish, Next
<1>2. ASSUME NEW k \in Child, Load(k) PROVE UNCHANGED vars
  BY <1>2 DEF Load, vars
<1>3. ASSUME NEW k \in Child, Serve(k) PROVE Next
  <2>1. PICK r \in Outcomes(k) : Answer(k, Head(k), r[1], AnsweredEnv(r, EnvironmentFor(k)))
    BY <1>3 DEF Serve, Outcomes
  <2>2. Head(k) \in stdin[k] /\ Loaded(k)
    BY <2>1, <1>3 DEF Answer, Oldest, Serve
  <2>3. Head(k).call \in Call
    BY <2>2 DEF TypeOK, Entry
  <2>4. r[1] \in BOOLEAN /\ AnsweredEnv(r, EnvironmentFor(k)) \in Env
    BY <2>2, <2>3, ServedOnAStore, ResultsGrow DEF Outcomes, Store, AnsweredEnv
  <2>5. Execute(k)
    BY <2>1, <2>2, <2>4 DEF Execute
  <2>. QED BY <2>5 DEF Next
<1>4. ASSUME NEW k \in Child, ServeAndDie(k) \/ Die(k) PROVE Next
  BY <1>4 DEF ServeAndDie, Die, Next
<1>5. ASSUME NEW k \in Child, Deliver(k) \/ Quiet(k) \/ MalformedLine(k) PROVE Next
  BY <1>5 DEF Deliver, Quiet, Next
<1>6. ASSUME NEW w \in broken, WriteError(w[1], w[2]) PROVE Next
  BY <1>6 DEF Next
<1>7. ASSUME NEW env \in Env, Rebind(env) PROVE Next
  BY <1>7 DEF Rebind, Next
<1>8. CASE UNCHANGED all
  BY <1>8 DEF all, vars
<1>. QED BY <1>1, <1>2, <1>3, <1>4, <1>5, <1>6, <1>7, <1>8 DEF StoreNext

(* What Serve keeps and saves, or ServeAndDie saves, is an environment.    *)
LEMMA LeftIsAStore ==
  ASSUME TypeOK, StoreTypeOK, NEW k \in Child, stdin[k] # {}, Loaded(k), NEW r \in Outcomes(k)
  PROVE  r[2] \in Store /\ r[1] \in BOOLEAN
BY HeadIsAnEntry, ServedOnAStore, ResultsGrow DEF Outcomes

LEMMA StoreTypeStep ==
  ASSUME TypeOK, TypeOK', StoreTypeOK, [StoreNext]_all
  PROVE  StoreTypeOK'
<1>. USE DEF StoreTypeOK
<1>1. ASSUME NEW c \in Call, Ask(c) PROVE StoreTypeOK'
  <2>1. UNCHANGED <<file, memory, view, acked, doubtful, circumstances>>
    BY <1>1 DEF Ask
  <2>2. due' \in [Call -> Store]
    <3>. DEFINE done == IF call'[c].op = "query" THEN acked \ doubtful ELSE due[c].done
    <3>1. due' = [due EXCEPT ![c] = [@ EXCEPT !.done = done]]
      BY <1>1 DEF Ask
    <3>2. [due[c] EXCEPT !.done = done] \in Store
      BY DEF Store
    <3>. QED BY <3>1, <3>2
  <2>3. \A k \in Child : status'[k] # "running" => status[k] # "running"
    BY <1>1 DEF Ask, Invoke, InvokeReuse, InvokeSpawn, InvokeAfterFailedSpawn,
                InvokeSpawnThrows, children, TypeOK
  <2>. QED BY <2>1, <2>2, <2>3
<1>2. ASSUME NEW c \in Call, Finish(c) PROVE StoreTypeOK'
  <2>1. UNCHANGED <<file, memory, view, doubtful, circumstances, status>> /\ acked' = {}
    BY <1>2 DEF Finish, FinishTransition
  <2>2. LeftBy(c) \in Env
    BY DEF LeftBy, TypeOK, CallRecord, Store
  <2>3. due' = [d \in Call |-> IF call[d].state = "idle" THEN Fresh(LeftBy(c)) ELSE due[d]]
    BY <1>2 DEF Finish
  <2>4. due' \in [Call -> Store]
    BY <2>2, <2>3, StoreStarts
  <2>. QED BY <2>1, <2>4
<1>3. ASSUME NEW k \in Child, Load(k) PROVE StoreTypeOK'
  BY <1>3 DEF Load, vars
<1>4. ASSUME NEW k \in Child, Serve(k) PROVE StoreTypeOK'
  <2>1. PICK r \in Outcomes(k), direct \in BOOLEAN : Served(k, r, direct)
    BY <1>4, ServeServes
  <2>2. r[2] \in Store /\ Head(k).call \in Call
    BY <1>4, LeftIsAStore, HeadIsAnEntry DEF Serve
  <2>3. UNCHANGED <<acked, due, circumstances, status>> /\ status[k] = "running"
    BY <1>4, <2>1 DEF Serve, Answer, Served
  <2>4. file' \in Store /\ doubtful' \in SUBSET Call
    BY <2>1, <2>2 DEF Save, SaveUnlessDirect, Served
  <2>5. memory' \in [Child -> Store \cup {NoStore}] /\ view' \in [Call -> Store]
    BY <2>1, <2>2 DEF Served
  <2>6. \A j \in Child : status[j] # "running" => memory'[j] = NoStore
    BY <2>1, <2>3 DEF Served
  <2>. QED BY <2>3, <2>4, <2>5, <2>6
<1>5. ASSUME NEW k \in Child, ServeAndDie(k) PROVE StoreTypeOK'
  <2>1. PICK r \in Outcomes(k), direct \in BOOLEAN : SaveUnlessDirect(direct, r[2])
    BY <1>5, DyingServes
  <2>2. file' \in Store
    BY <1>5, <2>1, LeftIsAStore DEF ServeAndDie, Save, SaveUnlessDirect
  <2>3. UNCHANGED <<view, acked, doubtful, due, circumstances>>
        /\ memory' = [memory EXCEPT ![k] = NoStore]
        /\ status' = [status EXCEPT ![k] = "exited"]
    BY <1>5 DEF ServeAndDie, Exit
  <2>. QED BY <2>2, <2>3 DEF TypeOK
<1>6. ASSUME NEW k \in Child, Die(k) PROVE StoreTypeOK'
  BY <1>6 DEF Die, Exit, TypeOK
<1>7. ASSUME NEW k \in Child, Deliver(k) PROVE StoreTypeOK'
  <2>1. UNCHANGED <<file, memory, view, due, circumstances, status>>
    BY <1>7 DEF Deliver, DeliverLine, TakeResponse
  <2>2. acked' \in SUBSET Call /\ doubtful' \in SUBSET Call
    BY <1>7 DEF Deliver, TypeOK, Frame
  <2>. QED BY <2>1, <2>2
<1>8. ASSUME NEW k \in Child, Quiet(k) \/ MalformedLine(k), UNCHANGED store PROVE StoreTypeOK'
  <2>1. \A j \in Child : status'[j] # "running" => status[j] # "running"
    BY <1>8 DEF Quiet, IgnoreLine, DriftedLine, RefuseResponse, SpawnError, Close,
                MalformedLine, children, TypeOK
  <2>. QED BY <1>8, <2>1 DEF store
<1>9. ASSUME NEW w \in broken, WriteError(w[1], w[2]), UNCHANGED store PROVE StoreTypeOK'
  BY <1>9 DEF WriteError, store
<1>10. ASSUME NEW env \in Env, Rebind(env) PROVE StoreTypeOK'
  BY <1>10 DEF Rebind, SetEnvironmentBinding, store
<1>11. CASE UNCHANGED all
  BY <1>11 DEF all, vars, store
<1>. QED BY <1>1, <1>2, <1>3, <1>4, <1>5, <1>6, <1>7, <1>8, <1>9, <1>10, <1>11 DEF StoreNext

(* The children on the state file are children of the bridge: whatever the *)
(* Lisp side computes, module LiveBridge allows it, so all that is proved  *)
(* of the bridge holds of them (main and execute-request of                *)
(* scripts/live-service-bridge.lisp).                                      *)
THEOREM StoreImplementsBridge == StoreSpec => Spec /\ []StoreTypeOK
<1>1. StoreInit => Init /\ TypeOK /\ StoreTypeOK
  <2>. SUFFICES ASSUME StoreInit PROVE Init /\ TypeOK /\ StoreTypeOK
    OBVIOUS
  <2>1. Init /\ TypeOK
    BY InitType DEF StoreInit
  <2>2. PICK env \in Env :
          /\ file = Fresh(env)
          /\ view = [c \in Call |-> Fresh(env)]
          /\ due = [c \in Call |-> Fresh(env)]
    BY DEF StoreInit
  <2>3. file \in Store /\ view \in [Call -> Store] /\ due \in [Call -> Store]
    BY <2>2, StoreStarts
  <2>. QED BY <2>1, <2>3 DEF StoreInit, StoreTypeOK
<1>2. TypeOK /\ StoreTypeOK /\ [StoreNext]_all => [Next]_vars /\ TypeOK' /\ StoreTypeOK'
  BY StoreStepIsABridgeStep, TypeStep, StoreTypeStep
<1>. QED BY <1>1, <1>2, PTL DEF StoreSpec, Spec

(* The file and the memories hold environments, and a process that is not  *)
(* there has no memory.                                                    *)
THEOREM StoreTypeCorrect == StoreSpec => []StoreTypeOK
BY StoreImplementsBridge, PTL

-----------------------------------------------------------------------------
(* Requests and responses under way: a call has one or the other, once,    *)
(* and is not settled by a response while its request waits.  What waits   *)
(* for a child waits for one that runs.                                    *)
Apart ==
  /\ \A j, k \in Child : \A d \in stdin[j], e \in stdin[k] : d.call = e.call => j = k /\ d = e
  /\ \A k \in Child : \A e \in stdin[k] : call[e.call].state \in {"waiting", "rejected"}
  /\ \A j, k \in Child : \A e \in stdin[j], f \in stdout[k] : e.call # f.call
  /\ \A k \in Child : \A f \in stdout[k] : call[f.call].state # "idle"
  /\ \A k \in Child : stdin[k] # {} => status[k] = "running"

Open(c) == call[c].state \in {"waiting", "resuming"}

(* The child of its route, that requests are written to.                   *)
Current(k) == process[RouteServed(k)] = k /\ k \notin killed

(* When callers take turns, one call is open at a time, at most one request *)
(* waits in any pipe, of the open call if there is one, and it waits for a *)
(* child that is still in use.                                             *)
Serial ==
  OneAtATime =>
    /\ \A c, d \in Call : Open(c) /\ Open(d) => c = d
    /\ \A k \in Child : \A e \in stdin[k] : \A c \in Call : Open(c) => c = e.call
    /\ \A j, k \in Child : \A d \in stdin[j], e \in stdin[k] : j = k /\ d = e
    /\ \A k \in Child : stdin[k] # {} => Current(k)

(* What the bridge is proved to keep.                                      *)
Bridge == TypeOK /\ Owned /\ ResponsesReachTheirCall /\ OfItsRoute /\ SingleEntry

(* A call that does not move, or fails.                                    *)
Fails(c) ==
  /\ call'[c].op = call[c].op /\ call'[c].env = call[c].env
  /\ call'[c].state = call[c].state
       \/ (call[c].state = "waiting" /\ call'[c].state = "rejected")

(* A step that may only end things.                                        *)
Failing ==
  /\ \A c \in Call : Fails(c)
  /\ \A k \in Child : /\ stdin'[k] \subseteq stdin[k]
                      /\ stdout'[k] \subseteq stdout[k]
                      /\ Current(k)' => Current(k)
                      /\ stdin'[k] # {} => status'[k] = status[k]
                      /\ OneAtATime /\ stdin'[k] # {} /\ Current(k) => Current(k)'

LEMMA RejectFails ==
  ASSUME NEW S, NEW calls \in [Call -> CallRecord], NEW c \in Call
  PROVE  /\ Reject(S, calls)[c].op = calls[c].op /\ Reject(S, calls)[c].env = calls[c].env
         /\ Reject(S, calls)[c].state = calls[c].state
              \/ (calls[c].state = "waiting" /\ Reject(S, calls)[c].state = "rejected")
<1>1. CASE calls[c].state = "waiting" /\ \E e \in S : e.call = c
  <2>1. Reject(S, calls)[c] = [calls[c] EXCEPT !.state = "rejected"]
    BY <1>1 DEF Reject
  <2>2. calls[c] \in CallRecord
    OBVIOUS
  <2>. QED BY <1>1, <2>1, <2>2 DEF CallRecord
<1>2. CASE ~ (calls[c].state = "waiting" /\ \E e \in S : e.call = c)
  BY <1>2 DEF Reject
<1>. QED BY <1>1, <1>2

LEMMA FailingKeeps ==
  ASSUME TypeOK, Apart, Serial, Failing
  PROVE  Apart' /\ Serial'
<1>1. \A k \in Child : \A e \in stdin'[k] : e \in stdin[k] /\ e \in Entry
  BY DEF Failing, TypeOK
<1>2. \A k \in Child : \A f \in stdout'[k] : f \in stdout[k] /\ f \in Frame
  BY DEF Failing, TypeOK
<1>3. \A e \in Entry : e.call \in Call
  BY DEF Entry
<1>4. \A f \in Frame : f.call \in Call
  BY DEF Frame
<1>5. \A c \in Call : /\ call[c].state \in {"waiting", "rejected"} => call'[c].state \in {"waiting", "rejected"}
                      /\ call[c].state # "idle" => call'[c].state # "idle"
                      /\ Open(c)' => Open(c)
  BY DEF Failing, Fails, Open
<1>6. \A k \in Child : stdin'[k] # {} => stdin[k] # {}
  BY DEF Failing
<1>7. Apart'
  BY <1>1, <1>2, <1>3, <1>4, <1>5, <1>6 DEF Apart, Failing
<1>8. Serial'
  BY <1>1, <1>3, <1>5, <1>6 DEF Serial, Failing
<1>. QED BY <1>7, <1>8

LEMMA RejectedCallsFail ==
  ASSUME TypeOK, NEW S, call' = Reject(S, call) \/ call' = call
  PROVE  \A c \in Call : Fails(c)
BY RejectFails DEF TypeOK, Fails

(* What a child that is lost takes with it is not what requests wait for.  *)
LEMMA LosingFails ==
  ASSUME Bridge, Apart, NEW k \in Child, SpawnError(k) \/ Close(k)
  PROVE  Failing
<1>. DEFINE r == RouteServed(k)
<1>1. r \in Route /\ k # NoChild /\ NoChild \notin Child
  BY ServesItsRoute, ChildAssumption
<1>2. \A j \in Child : RouteServed(j) \in Route
  BY ServesItsRoute
<1>3. LoseCurrent(k) /\ status[k] # "running"
      /\ UNCHANGED <<stdin, stdout>> /\ status' \in {[status EXCEPT ![k] = s] : s \in {"exited", "free"}}
      /\ killed' \in {killed, killed \ {k}}
      /\ (k \in killed' \/ k \notin killed \/ Close(k))
  BY <1>1 DEF SpawnError, Close
<1>4. stdin[k] = {}
  BY <1>3 DEF Apart
<1>5. \A c \in Call : Fails(c)
  <2>1. call' = Reject(pending[r], call) \/ call' = call
    BY <1>3 DEF LoseCurrent
  <2>. QED BY <2>1, RejectedCallsFail DEF Bridge
<1>6. \A s \in Route : process'[s] = IF s = r /\ process[r] = k THEN NoChild ELSE process[s]
  BY <1>1, <1>3 DEF LoseCurrent, Bridge, TypeOK
<1>7. \A j \in Child : j # k => status'[j] = status[j] /\ (j \in killed' <=> j \in killed)
  BY <1>3 DEF Bridge, TypeOK
<1>8. process'[r] # k
  BY <1>1, <1>6
<1>. HIDE DEF r
<1>9. \A j \in Child : Current(j)' => Current(j)
  BY <1>1, <1>2, <1>6, <1>7, <1>8 DEF Current, r
<1>10. ASSUME NEW j \in Child, j # k, Current(j) PROVE Current(j)'
  BY <1>1, <1>2, <1>6, <1>7, <1>10 DEF Current
<1>. QED BY <1>3, <1>4, <1>5, <1>7, <1>9, <1>10 DEF Failing

LEMMA ExitFails ==
  ASSUME Bridge, NEW k \in Child, Exit(k)
  PROVE  Failing
BY DEF Exit, Failing, Fails, Current, Bridge, TypeOK, adapter

LEMMA LineFails ==
  ASSUME Bridge, NEW k \in Child, IgnoreLine(k) \/ DriftedLine(k) \/ MalformedLine(k)
  PROVE  Failing
<1>1. /\ \E S : call' = Reject(S, call) \/ call' = call
      /\ UNCHANGED <<process, killed, status, stdin>>
      /\ \A j \in Child : stdout'[j] \subseteq stdout[j]
  <2>1. CASE IgnoreLine(k)
    BY <2>1 DEF IgnoreLine, ReadFrame, adapter, Bridge, TypeOK
  <2>2. CASE DriftedLine(k)
    <3>1. PICK f \in stdout[k] : \E p \in Matches(k, f) : RefuseResponse(k, f, p)
      BY <2>2 DEF DriftedLine
    <3>2. PICK p \in Matches(k, f) : RefuseResponse(k, f, p)
      BY <3>1
    <3>3. call' = Reject({p}, call) /\ UNCHANGED <<process, killed, status, stdin>>
          /\ stdout' = [stdout EXCEPT ![k] = @ \ {f}]
      BY <3>2 DEF RefuseResponse, ReadFrame
    <3>. QED BY <3>3 DEF Bridge, TypeOK
  <2>3. CASE MalformedLine(k)
    BY <2>3 DEF MalformedLine, children
  <2>. QED BY <2>1, <2>2, <2>3
<1>2. \A c \in Call : Fails(c)
  BY <1>1, RejectedCallsFail DEF Bridge
<1>. QED BY <1>1, <1>2 DEF Failing, Current

LEMMA WriteErrorFails ==
  ASSUME Bridge, NEW w \in broken, WriteError(w[1], w[2])
  PROVE  Failing
<1>1. call' = Reject({w[2]}, call) /\ UNCHANGED <<process, killed, status, stdin, stdout>>
  BY DEF WriteError
<1>2. \A c \in Call : Fails(c)
  BY <1>1, RejectedCallsFail DEF Bridge
<1>. QED BY <1>1, <1>2 DEF Failing, Current

(* Dropping both processes leaves none in use.                             *)
LEMMA NoneCurrent ==
  ASSUME InvalidateBoth, NEW k \in Child
  PROVE  ~ Current(k)'
<1>1. RouteServed(k) \in Route /\ k # NoChild
  BY ServesItsRoute
<1>2. process'[RouteServed(k)] = NoChild
  BY <1>1 DEF InvalidateBoth, DropProcesses
<1>. QED BY <1>1, <1>2 DEF Current

LEMMA RebindFails ==
  ASSUME Bridge, NEW env \in Env, Rebind(env)
  PROVE  Failing
<1>1. call' = Reject(pending["read"] \cup pending["write"], call)
      /\ UNCHANGED <<status, stdin, stdout>> /\ InvalidateBoth
  BY DEF Rebind, SetEnvironmentBinding
<1>2. \A c \in Call : Fails(c)
  BY <1>1, RejectedCallsFail DEF Bridge
<1>3. OneAtATime => \A k \in Child : stdin[k] = {}
  BY DEF Rebind, ChildrenIdle
<1>. QED BY <1>1, <1>2, <1>3, NoneCurrent DEF Failing

(* A response line: the call it answers moves on, calls of reads may fail, *)
(* and the answer of a command leaves no read child in use.                *)
Delivering(k, f) ==
  /\ f \in stdout[k] /\ call[f.call].state = "waiting"
  /\ RouteOf(call[f.call].op) = RouteServed(k) /\ process[RouteServed(k)] = k
  /\ call'[f.call] = Answered(f.call, f)
  /\ \A c \in Call \ {f.call} : Fails(c)
  /\ stdout' = [stdout EXCEPT ![k] = @ \ {f}]
  /\ UNCHANGED <<stdin, status>>
  /\ \A j \in Child : Current(j)' => Current(j)
  /\ \A j \in Child : f.ok /\ call[f.call].op = "command" /\ Current(j)' => j = k
  /\ currentBinding' = Adopted(f.env)

LEMMA AnsweredType ==
  ASSUME TypeOK, NEW k \in Child, NEW f \in stdout[k]
  PROVE  /\ f.call \in Call /\ f.ok \in BOOLEAN
         /\ Answered(f.call, f) \in CallRecord
         /\ Answered(f.call, f).op = call[f.call].op
         /\ Answered(f.call, f).state =
              IF call[f.call].op \in Transition THEN "resuming" ELSE "resolved"
         /\ call[f.call].op \in Transition =>
              Answered(f.call, f).env =
                IF call[f.call].op = "load-image" \/ f.ok THEN f.env ELSE NoEnv
<1>1. f \in Frame /\ call[f.call] \in CallRecord
  BY DEF TypeOK, Frame
<1>. QED BY <1>1 DEF Answered, CallRecord, CallState, Frame

LEMMA DeliverDelivers ==
  ASSUME Bridge, NEW k \in Child, DeliverLine(k)
  PROVE  \E f \in stdout[k] : Delivering(k, f)
<1>. DEFINE r == RouteServed(k)
<1>1. PICK f \in stdout[k] : \E p \in Matches(k, f) : TakeResponse(k, f, p)
  BY DEF DeliverLine
<1>2. PICK p \in Matches(k, f) : TakeResponse(k, f, p)
  BY <1>1
<1>3. p.call = f.call
  BY DEF Bridge, ResponsesReachTheirCall
<1>4. r \in Route /\ process[r] = k /\ p \in pending[r]
  BY ServesItsRoute DEF Matches
<1>5. call[f.call].state = "waiting" /\ RouteOf(call[f.call].op) = r
  BY <1>3, <1>4 DEF Bridge, SingleEntry, PendingMeansWaiting, OfItsRoute
<1>. DEFINE answered == [call EXCEPT ![p.call] = Answered(p.call, f)]
<1>6. answered \in [Call -> CallRecord] /\ answered[f.call] = Answered(f.call, f)
      /\ \A c \in Call \ {f.call} : answered[c] = call[c]
  BY <1>3, AnsweredType DEF Bridge, TypeOK
<1>7. answered[f.call].state \notin {"waiting"}
  BY <1>6, AnsweredType DEF Bridge
<1>8. call' = answered \/ \E S : call' = Reject(S, answered)
  BY <1>2 DEF TakeResponse
<1>9. UNCHANGED <<stdin, status>> /\ stdout' = [stdout EXCEPT ![k] = @ \ {f}]
  BY <1>2 DEF TakeResponse, ReadFrame
<1>. HIDE DEF answered
<1>10. call'[f.call] = Answered(f.call, f)
  <2>1. f.call \in Call
    BY AnsweredType DEF Bridge
  <2>. QED BY <1>6, <1>7, <1>8, <2>1 DEF Reject
<1>11. \A c \in Call \ {f.call} : Fails(c)
  BY <1>6, <1>8, RejectFails DEF Fails
<1>12. \/ UNCHANGED <<process, killed>> /\ ~ StalesReads(k, p, f)
       \/ DropProcesses({"read"}) /\ StalesReads(k, p, f)
  BY <1>2 DEF TakeResponse
<1>13. \A s \in Route : process'[s] = process[s] \/ (s = "read" /\ process'[s] = NoChild)
  BY <1>12 DEF DropProcesses
<1>14. killed \subseteq killed'
  BY <1>12 DEF DropProcesses
<1>15. \A j \in Child : RouteServed(j) \in Route /\ j # NoChild
  BY ServesItsRoute
<1>16. \A j \in Child : Current(j)' => Current(j)
  BY <1>13, <1>14, <1>15 DEF Current
<1>17. ASSUME NEW j \in Child, f.ok, call[f.call].op = "command", Current(j)'
       PROVE  j = k
  <2>1. StalesReads(k, p, f) /\ r = "write"
    BY <1>3, <1>5, <1>17 DEF StalesReads, InvalidatesReads, RouteOf
  <2>2. process'["read"] = NoChild
    BY <1>12, <2>1 DEF DropProcesses, Route
  <2>3. RouteServed(j) = "write"
    BY <1>15, <1>17, <2>2 DEF Current, Route
  <2>4. process["write"] = j
    BY <1>16, <1>17, <2>3 DEF Current
  <2>. QED BY <1>4, <2>1, <2>4
<1>18. currentBinding' = Adopted(f.env)
  BY <1>2 DEF TakeResponse
<1>19. Delivering(k, f)
  BY <1>4, <1>5, <1>9, <1>10, <1>11, <1>16, <1>17, <1>18 DEF Delivering
<1>. QED BY <1>19

LEMMA DeliveringKeeps ==
  ASSUME TypeOK, Apart, Serial, NEW k \in Child, NEW f \in stdout[k], Delivering(k, f)
  PROVE  Apart' /\ Serial' /\ (OneAtATime => \A j \in Child : stdin[j] = {})
<1>1. f.call \in Call /\ call'[f.call].state \in {"resuming", "resolved"}
  BY AnsweredType DEF Delivering
<1>2. \A j \in Child : \A e \in stdin[j] : e.call \in Call /\ e.call # f.call
  BY DEF Apart, TypeOK, Entry
<1>3. \A j \in Child : \A g \in stdout'[j] : g \in stdout[j] /\ g.call \in Call
  BY DEF Delivering, TypeOK, Frame
<1>4. \A c \in Call \ {f.call} :
        /\ call[c].state \in {"waiting", "rejected"} => call'[c].state \in {"waiting", "rejected"}
        /\ call[c].state # "idle" => call'[c].state # "idle"
        /\ Open(c)' => Open(c)
  BY DEF Delivering, Fails, Open
<1>5. stdin' = stdin /\ status' = status /\ Open(f.call)
  BY DEF Delivering, Open
<1>6. Apart'
  BY <1>1, <1>2, <1>3, <1>4, <1>5 DEF Apart
<1>7. ASSUME OneAtATime PROVE \A j \in Child : stdin[j] = {}
  BY <1>1, <1>2, <1>5, <1>7 DEF Serial
<1>8. Serial'
  BY <1>1, <1>4, <1>5, <1>7 DEF Serial
<1>. QED BY <1>6, <1>7, <1>8

(* The continuation of a load or a revert.                                 *)
LEMMA FinishKeeps ==
  ASSUME Bridge, Apart, Serial, NEW c \in Call, Finish(c)
  PROVE  /\ Apart' /\ Serial' /\ (OneAtATime => \A j \in Child : stdin[j] = {})
         /\ call[c].state = "resuming" /\ call'[c].state = "resolved" /\ call'[c].op = call[c].op
         /\ \A d \in Call \ {c} : Fails(d)
         /\ UNCHANGED <<stdin, stdout, status>>
         /\ \A j \in Child : ~ Current(j)'
<1>. DEFINE done == [call EXCEPT ![c].state = "resolved"]
<1>1. call[c].state = "resuming" /\ call[c] \in CallRecord
  BY DEF Finish, FinishTransition, Bridge, TypeOK
<1>2. /\ done \in [Call -> CallRecord]
      /\ done[c].state = "resolved" /\ done[c].op = call[c].op
      /\ \A d \in Call \ {c} : done[d] = call[d]
  BY <1>1 DEF CallRecord, CallState, Bridge, TypeOK
<1>3. call' = Reject(pending["read"] \cup pending["write"], done)
      /\ UNCHANGED <<stdin, stdout, status>> /\ InvalidateBoth
  BY DEF Finish, FinishTransition
<1>. HIDE DEF done
<1>4. call'[c].state = "resolved" /\ call'[c].op = call[c].op
  BY <1>2, <1>3, RejectFails
<1>5. \A d \in Call \ {c} : Fails(d)
  BY <1>2, <1>3, RejectFails DEF Fails
<1>6. \A j \in Child : ~ Current(j)'
  BY <1>3, NoneCurrent
<1>7. \A j \in Child : \A e \in stdin[j] : e.call \in Call /\ e.call # c
  BY <1>1 DEF Apart, Bridge, TypeOK, Entry
<1>8. \A d \in Call \ {c} :
        /\ call[d].state \in {"waiting", "rejected"} => call'[d].state \in {"waiting", "rejected"}
        /\ call[d].state # "idle" => call'[d].state # "idle"
        /\ Open(d)' => Open(d)
  BY <1>5 DEF Fails, Open
<1>9. \A j \in Child : \A f \in stdout[j] : f.call \in Call
  BY DEF Bridge, TypeOK, Frame
<1>10. Apart'
  <2>1. \A d \in Call : call[d].state # "idle" => call'[d].state # "idle"
    BY <1>4, <1>8
  <2>2. \A j \in Child : \A e \in stdin[j] : call'[e.call].state \in {"waiting", "rejected"}
    BY <1>7, <1>8 DEF Apart
  <2>3. stdin' = stdin /\ stdout' = stdout /\ status' = status
    BY <1>3
  <2>4. \A j \in Child : \A f \in stdout[j] : call'[f.call].state # "idle"
    BY <1>9, <2>1 DEF Apart
  <2>. QED BY <2>2, <2>3, <2>4 DEF Apart
<1>11. ASSUME OneAtATime PROVE \A j \in Child : stdin[j] = {}
  BY <1>1, <1>7, <1>11 DEF Serial, Open
<1>12. ~ Open(c)'
  BY <1>4 DEF Open
<1>13. Serial'
  BY <1>3, <1>8, <1>11, <1>12 DEF Serial
<1>. QED BY <1>1, <1>3, <1>4, <1>5, <1>6, <1>10, <1>11, <1>13

(* An invocation: one more call is open, or fails at once, and its request *)
(* may wait for the child in use.                                          *)
Sent(c, k) ==
  /\ \E e \in Entry : e.call = c /\ stdin' = [stdin EXCEPT ![k] = @ \cup {e}]
  /\ status'[k] = "running" /\ Current(k)'
  /\ call'[c].state = "waiting"

Invoking(c) ==
  /\ call[c].state = "idle" /\ call'[c].state \in {"waiting", "rejected"}
  /\ \A d \in Call \ {c} : Fails(d)
  /\ UNCHANGED stdout
  /\ \A k \in Child : stdin[k] # {} => status'[k] = "running"
  /\ \A k \in Child : Current(k)' => Current(k) \/ status[k] = "free"
  /\ stdin' = stdin \/ \E k \in Child : Sent(c, k)

(* Where the tail of invokeService leaves the request.                     *)
LEMMA WriteSends ==
  ASSUME TypeOK, NEW c \in Call, NEW q \in Requests, NEW k \in Child, NEW life,
         Write(c, q, k, life), status'[k] = life, Current(k)', call'[c].state = "waiting"
  PROVE  stdin' = stdin \/ Sent(c, k)
<1>. DEFINE e == NextEntry(c, RouteOf(q.op))
<1>1. e \in Entry /\ e.call = c
  BY IssuedType, NextEntryType DEF NextEntry
<1>2. stdin' = stdin \/ (life = "running" /\ stdin' = [stdin EXCEPT ![k] = @ \cup {e}])
  BY DEF Write
<1>. QED BY <1>1, <1>2 DEF Sent

LEMMA RegisterIssues ==
  ASSUME TypeOK, NEW c \in Call, NEW q \in Requests, Register(c, q)
  PROVE  call'[c].state = "waiting" /\ \A d \in Call \ {c} : Fails(d)
<1>1. call' = [call EXCEPT ![c] = Issued(q)]
  BY DEF Register
<1>. QED BY <1>1 DEF TypeOK, Issued, Fails

LEMMA InvokeInvokes ==
  ASSUME Bridge, Apart, NEW c \in Call, Invoke(c)
  PROVE  Invoking(c)
<1>1. PICK q \in Requests : \/ InvokeReuse(c, q)
                            \/ InvokeSpawn(c, q)
                            \/ InvokeAfterFailedSpawn(c, q)
                            \/ InvokeSpawnThrows(c, q)
  BY DEF Invoke
<1>. DEFINE r == RouteOf(q.op)
<1>2. r \in Route /\ call[c].state = "idle"
  BY IssuedType DEF Bridge, Invoke
<1>3. \A j \in Child : RouteServed(j) \in Route /\ j # NoChild
  BY ServesItsRoute
<1>4. CASE InvokeReuse(c, q)
  <2>1. PICK k \in Child : k = process[r] /\ RouteServed(k) = r /\ k \notin killed
    BY <1>2, <1>4, RoutesAreDisjoint DEF InvokeReuse, Reusable, Bridge, Owned
  <2>2. Write(c, q, k, status[k]) /\ Register(c, q)
        /\ UNCHANGED <<process, killed, status, stdout>>
    BY <1>4, <2>1 DEF InvokeReuse
  <2>3. call'[c].state = "waiting" /\ \A d \in Call \ {c} : Fails(d)
    BY <2>2, RegisterIssues DEF Bridge
  <2>4. Current(k)'
    BY <2>1, <2>2 DEF Current
  <2>5. stdin' = stdin \/ Sent(c, k)
    BY <2>1, <2>2, <2>3, <2>4, WriteSends DEF Bridge
  <2>6. \A j \in Child : stdin[j] # {} => status'[j] = "running"
    BY <2>2 DEF Apart
  <2>. QED BY <1>2, <2>1, <2>2, <2>3, <2>5, <2>6 DEF Invoking, Current
<1>5. CASE InvokeSpawn(c, q)
  <2>1. PICK k \in Children(r), up \in {"running", "failed"} :
          /\ status[k] = "free"
          /\ status' = [status EXCEPT ![k] = up]
          /\ process' = [process EXCEPT ![r] = k]
          /\ Write(c, q, k, up)
    BY <1>5 DEF InvokeSpawn
  <2>2. k \in Child /\ RouteServed(k) = r
    BY <1>2, RoutesAreDisjoint
  <2>3. Register(c, q) /\ UNCHANGED <<killed, stdout>>
    BY <1>5 DEF InvokeSpawn
  <2>4. call'[c].state = "waiting" /\ \A d \in Call \ {c} : Fails(d)
    BY <2>3, RegisterIssues DEF Bridge
  <2>5. status'[k] = up /\ process'[r] = k /\ \A s \in Route \ {r} : process'[s] = process[s]
    BY <1>2, <2>1, <2>2 DEF Bridge, TypeOK
  <2>6. k \notin killed
    BY <2>1 DEF Bridge, Owned
  <2>7. Current(k)'
    BY <2>2, <2>3, <2>5, <2>6 DEF Current
  <2>8. stdin' = stdin \/ Sent(c, k)
    BY <2>1, <2>2, <2>4, <2>5, <2>7, WriteSends DEF Bridge
  <2>9. \A j \in Child : stdin[j] # {} => status'[j] = "running"
    BY <2>1 DEF Apart, Bridge, TypeOK
  <2>10. \A j \in Child : Current(j)' => Current(j) \/ status[j] = "free"
    BY <1>3, <2>1, <2>2, <2>3, <2>5 DEF Current
  <2>. QED BY <1>2, <2>2, <2>3, <2>4, <2>8, <2>9, <2>10 DEF Invoking
<1>6. CASE InvokeAfterFailedSpawn(c, q)
  <2>1. PICK k \in Children(r) : status[k] = "free" /\ status' = [status EXCEPT ![k] = "exited"]
    BY <1>6 DEF InvokeAfterFailedSpawn
  <2>2. /\ process' = [process EXCEPT ![r] = NoChild]
        /\ call' = [Reject(pending[r], call) EXCEPT ![c] = Issued(q)]
        /\ UNCHANGED <<killed, stdin, stdout>>
    BY <1>6 DEF InvokeAfterFailedSpawn
  <2>3. Reject(pending[r], call) \in [Call -> CallRecord]
    BY RejectType DEF Bridge, TypeOK
  <2>4. call'[c].state = "waiting"
    BY <2>2, <2>3 DEF Issued
  <2>5. \A d \in Call \ {c} : Fails(d)
    BY <2>2, <2>3, RejectFails DEF Bridge, TypeOK, Fails
  <2>6. \A j \in Child : stdin[j] # {} => status'[j] = "running"
    BY <2>1 DEF Apart, Bridge, TypeOK
  <2>7. \A j \in Child : Current(j)' => Current(j)
    BY <1>2, <1>3, <2>2 DEF Current, Bridge, TypeOK
  <2>. QED BY <1>2, <2>2, <2>4, <2>5, <2>6, <2>7 DEF Invoking
<1>7. CASE InvokeSpawnThrows(c, q)
  <2>1. call' = [call EXCEPT ![c] = [Issued(q) EXCEPT !.state = "rejected"]]
        /\ UNCHANGED <<process, killed, status, stdin, stdout>>
    BY <1>7 DEF InvokeSpawnThrows, children
  <2>2. call'[c].state = "rejected" /\ \A d \in Call \ {c} : Fails(d)
    BY <2>1 DEF Bridge, TypeOK, Issued, Fails
  <2>3. \A j \in Child : stdin[j] # {} => status'[j] = "running"
    BY <2>1 DEF Apart
  <2>. QED BY <1>2, <2>1, <2>2, <2>3 DEF Invoking, Current
<1>. QED BY <1>1, <1>4, <1>5, <1>6, <1>7

LEMMA InvokingKeeps ==
  ASSUME TypeOK, Apart, Serial, NEW c \in Call, Invoking(c), OneAtATime => ChildrenIdle
  PROVE  Apart' /\ Serial'
<1>1. \A d \in Call \ {c} :
        /\ call[d].state \in {"waiting", "rejected"} => call'[d].state \in {"waiting", "rejected"}
        /\ call[d].state # "idle" => call'[d].state # "idle"
        /\ Open(d)' => Open(d)
  BY DEF Invoking, Fails, Open
<1>2. /\ \A j \in Child : \A e \in stdin[j] : e.call \in Call \ {c}
      /\ \A j \in Child : \A f \in stdout[j] : f.call \in Call \ {c}
  BY DEF Invoking, Apart, TypeOK, Entry, Frame
<1>3. stdout' = stdout /\ call'[c].state \in {"waiting", "rejected"}
      /\ \A j \in Child : stdin[j] # {} => status'[j] = "running"
  BY DEF Invoking
<1>4. \A j \in Child : \A f \in stdout[j] : call'[f.call].state # "idle"
  BY <1>1, <1>2 DEF Apart
<1>5. \A j \in Child : \A e \in stdin[j] : call'[e.call].state \in {"waiting", "rejected"}
  BY <1>1, <1>2 DEF Apart
<1>6. OneAtATime => /\ \A d \in Call : ~ Open(d)
                    /\ \A j \in Child : stdin[j] = {}
  BY DEF ChildrenIdle, Open
<1>7. OneAtATime => \A d \in Call : Open(d)' => d = c
  BY <1>1, <1>6
<1>8. CASE stdin' = stdin
  <2>1. Apart'
    BY <1>3, <1>4, <1>5, <1>8 DEF Apart
  <2>2. Serial'
    BY <1>6, <1>7, <1>8 DEF Serial
  <2>. QED BY <2>1, <2>2
<1>9. ASSUME NEW k \in Child, Sent(c, k)
      PROVE  Apart' /\ Serial'
  <2>1. PICK n \in Entry : n.call = c /\ stdin' = [stdin EXCEPT ![k] = @ \cup {n}]
    BY <1>9 DEF Sent
  <2>2. status'[k] = "running" /\ Current(k)' /\ call'[c].state = "waiting"
    BY <1>9 DEF Sent
  <2>3. \A j \in Child : \A e \in stdin'[j] : (e = n /\ j = k) \/ e \in stdin[j]
    BY <2>1 DEF TypeOK
  <2>4. /\ \A i, j \in Child : \A d \in stdin'[i], e \in stdin'[j] : d.call = e.call => i = j /\ d = e
        /\ \A i, j \in Child : \A e \in stdin'[i], f \in stdout[j] : e.call # f.call
    BY <1>2, <2>1, <2>3 DEF Apart
  <2>5. \A j \in Child : \A e \in stdin'[j] : call'[e.call].state \in {"waiting", "rejected"}
    BY <1>5, <2>1, <2>2, <2>3
  <2>6. \A j \in Child : stdin'[j] # {} => status'[j] = "running"
    BY <1>3, <2>2, <2>3
  <2>7. Apart'
    BY <1>3, <1>4, <2>4, <2>5, <2>6 DEF Apart
  <2>8. OneAtATime => \A j \in Child : \A e \in stdin'[j] : e = n /\ j = k
    BY <1>6, <2>3
  <2>9. Serial'
    BY <1>7, <2>1, <2>2, <2>8 DEF Serial
  <2>. QED BY <2>7, <2>9
<1>. QED BY <1>8, <1>9 DEF Invoking

(* A child answers: the request becomes a response of the same call.       *)
LEMMA AnswerKeeps ==
  ASSUME TypeOK, Apart, Serial, NEW k \in Child, NEW e \in stdin[k], NEW ok, NEW env,
         Answer(k, e, ok, env)
  PROVE  Apart' /\ Serial'
<1>. DEFINE n == [id |-> e.id, call |-> e.call, ok |-> ok, env |-> env]
<1>1. n.call = e.call
  OBVIOUS
<1>2. stdin' = [stdin EXCEPT ![k] = @ \ {e}] /\ stdout' = [stdout EXCEPT ![k] = @ \cup {n}]
      /\ UNCHANGED <<call, process, killed, status>>
  BY DEF Answer, adapter
<1>. HIDE DEF n
<1>3. /\ \A j \in Child : \A d \in stdin'[j] : d \in stdin[j] /\ ~ (j = k /\ d = e)
      /\ \A j \in Child : \A f \in stdout'[j] : f \in stdout[j] \/ f = n
  BY <1>2 DEF TypeOK
<1>4. \A j \in Child : \A d \in stdin'[j] : d.call # e.call
  BY <1>3 DEF Apart
<1>5. call[e.call].state # "idle"
  BY DEF Apart
<1>6. Apart'
  BY <1>1, <1>2, <1>3, <1>4, <1>5 DEF Apart
<1>7. Serial'
  BY <1>2, <1>3 DEF Serial, Open, Current
<1>. QED BY <1>6, <1>7

LEMMA SameBridgeKeeps ==
  ASSUME Apart, Serial, UNCHANGED vars
  PROVE  Apart' /\ Serial'
<1>1. UNCHANGED <<call, process, killed, status, stdin, stdout>>
  BY DEF vars
<1>2. Apart'
  BY <1>1 DEF Apart
<1>3. Serial'
  BY <1>1 DEF Serial, Open, Current
<1>. QED BY <1>2, <1>3

(* The steps that only end things.                                         *)
Ends ==
  \/ \E k \in Child : \/ Quiet(k) /\ UNCHANGED store
                      \/ MalformedLine(k) /\ UNCHANGED store
                      \/ ServeAndDie(k)
                      \/ Die(k)
  \/ \E w \in broken : WriteError(w[1], w[2]) /\ UNCHANGED store
  \/ \E env \in Env : Rebind(env)

LEMMA EndsFail ==
  ASSUME Bridge, Apart, Ends
  PROVE  Failing
<1>1. ASSUME NEW k \in Child, Quiet(k) \/ MalformedLine(k) PROVE Failing
  BY <1>1, LosingFails, LineFails DEF Quiet
<1>2. ASSUME NEW k \in Child, ServeAndDie(k) \/ Die(k) PROVE Failing
  BY <1>2, ExitFails DEF ServeAndDie, Die
<1>. QED BY <1>1, <1>2, WriteErrorFails, RebindFails DEF Ends

(* The steps on the state file, sorted by what they do to the calls.       *)
LEMMA StoreSteps ==
  ASSUME [StoreNext]_all
  PROVE  \/ \E c \in Call : Ask(c)
         \/ \E c \in Call : Finish(c)
         \/ \E k \in Child : Load(k)
         \/ \E k \in Child : Serve(k)
         \/ \E k \in Child : Deliver(k)
         \/ Ends
         \/ UNCHANGED all
BY DEF StoreNext, Ends

LEMMA OrderStep ==
  ASSUME Bridge, StoreTypeOK, Apart, Serial, [StoreNext]_all
  PROVE  Apart' /\ Serial'
<1>0. TypeOK
  BY DEF Bridge
<1>1. ASSUME NEW c \in Call, Ask(c) PROVE Apart' /\ Serial'
  BY <1>0, <1>1, InvokeInvokes, InvokingKeeps DEF Ask
<1>2. ASSUME NEW c \in Call, Finish(c) PROVE Apart' /\ Serial'
  BY <1>2, FinishKeeps
<1>3. ASSUME NEW k \in Child, Load(k) PROVE Apart' /\ Serial'
  BY <1>3, SameBridgeKeeps DEF Load, vars
<1>4. ASSUME NEW k \in Child, Serve(k) PROVE Apart' /\ Serial'
  <2>1. Head(k) \in stdin[k]
    BY <1>0, <1>4, HeadIsAnEntry DEF Serve
  <2>2. \E ok, env : Answer(k, Head(k), ok, env)
    BY <1>4 DEF Serve
  <2>. QED BY <1>0, <2>1, <2>2, AnswerKeeps
<1>5. ASSUME NEW k \in Child, Deliver(k) PROVE Apart' /\ Serial'
  BY <1>0, <1>5, DeliverDelivers, DeliveringKeeps DEF Deliver
<1>6. CASE Ends
  BY <1>0, <1>6, EndsFail, FailingKeeps
<1>7. CASE UNCHANGED all
  BY <1>7, SameBridgeKeeps DEF all
<1>. QED BY <1>1, <1>2, <1>3, <1>4, <1>5, <1>6, <1>7, StoreSteps

THEOREM StoreKeepsOrder == StoreSpec => [](Bridge /\ StoreTypeOK /\ Apart /\ Serial)
<1>1. StoreSpec => [](Bridge /\ StoreTypeOK)
  BY StoreImplementsBridge, TypeCorrect, ChildrenAreOwned, ResponsesAreNotMixedUp,
     CallsStayRegistered, CallsHaveOneEntry, PTL DEF Bridge
<1>2. StoreInit => Apart /\ Serial
  BY DEF StoreInit, Init, Apart, Serial, Open
<1>3. Bridge /\ StoreTypeOK /\ Apart /\ Serial /\ [StoreNext]_all => Apart' /\ Serial'
  BY OrderStep
<1>. QED BY <1>1, <1>2, <1>3, PTL DEF StoreSpec
-----------------------------------------------------------------------------
(* When saves fail, a write child remembers what it took in until it dies, *)
(* whatever is saved meanwhile, a load or a revert apart: no other step    *)
(* than its own touches its memory, and its own requests let the           *)
(* environment grow (bridge-environment-for-request, execute-request).     *)
THEOREM LossNeedsADeath == StoreSpec => LossNeedsADeadWriter
<1>1. Bridge /\ StoreTypeOK /\ Apart /\ [StoreNext]_all =>
        [\A k \in WriteChild, c \in acked : Remembers(k, c) =>
           Remembers(k, c)' \/ memory'[k] = NoStore \/ TransitionInDoubt]_all
  <2>. SUFFICES ASSUME Bridge, StoreTypeOK, Apart, StoreNext,
                       NEW k \in Child, NEW c \in acked, Remembers(k, c),
                       memory'[k] # NoStore, ~ TransitionInDoubt
                PROVE  c \in memory'[k].done
    BY DEF Remembers, Child
  <2>1. memory[k] # NoStore /\ c \in memory[k].done /\ memory \in [Child -> Store \cup {NoStore}]
    BY DEF Remembers, StoreTypeOK
  <2>2. CASE UNCHANGED memory
    BY <2>1, <2>2
  <2>3. ASSUME NEW j \in Child, Load(j) PROVE c \in memory'[k].done
    BY <2>1, <2>3 DEF Load
  <2>4. ASSUME NEW j \in Child, Serve(j) PROVE c \in memory'[k].done
    <3>1. PICK r \in Outcomes(j) : memory' = [memory EXCEPT ![j] = r[2]]
      BY <2>4, ServeServes DEF Served
    <3>2. CASE j # k
      BY <2>1, <3>1, <3>2
    <3>3. CASE j = k
      <4>1. Head(k) \in stdin[k] /\ Head(k).call \in Call
        BY <2>4, <3>3, HeadIsAnEntry DEF Serve, Bridge
      <4>2. call[Head(k).call].op \notin Transition
        BY <4>1 DEF Apart, TransitionInDoubt
      <4>3. EnvironmentFor(k) = memory[k] /\ memory[k] \in Store
        BY <2>1, <4>2 DEF EnvironmentFor
      <4>4. memory[k].done \subseteq r[2].done
        BY <3>3, <4>1, <4>2, <4>3, ResultsGrow DEF Outcomes, Bridge
      <4>. QED BY <2>1, <3>1, <3>3, <4>4
    <3>. QED BY <3>2, <3>3
  <2>5. ASSUME NEW j \in Child, memory' = [memory EXCEPT ![j] = NoStore]
        PROVE  c \in memory'[k].done
    BY <2>1, <2>5
  <2>6. \/ UNCHANGED memory
        \/ \E j \in Child : Load(j)
        \/ \E j \in Child : Serve(j)
        \/ \E j \in Child : memory' = [memory EXCEPT ![j] = NoStore]
    BY DEF StoreNext, Ask, Finish, ServeAndDie, Die, Deliver, Rebind, store
  <2>. QED BY <2>2, <2>3, <2>4, <2>5, <2>6
<1>. QED BY <1>1, StoreKeepsOrder, PTL DEF StoreSpec, LossNeedsADeadWriter

-----------------------------------------------------------------------------
(* When callers take turns, saves succeed and no load or revert has failed *)
(* half-way, file, memories and callers agree.                             *)
Trusted ==
  /\ OneAtATime /\ ~ SavesFail
  /\ \A c \in Call : call[c].op \in Transition /\ call[c].state # "idle" =>
                       call[c].state # "rejected" /\ c \notin doubtful

(* A load or a revert is under way.                                        *)
Changing == \E c \in Call : call[c].op \in Transition /\ Open(c)

InUse(k) == Current(k) /\ memory[k] # NoStore
UpToDate(s) == (acked \ doubtful) \subseteq s.done /\ s.env = file.env
Honoured(c) == due[c].done \subseteq view[c].done /\ due[c].env = view[c].env

(* Between transitions the file and every memory in use have all that was  *)
(* acknowledged and is not in doubt, and the next call counts on the       *)
(* environment in the file.                                                *)
Standing ==
  ~ Changing => /\ UpToDate(file)
                /\ \A c \in Call : call[c].state = "idle" => due[c].env = file.env
                /\ \A k \in Child : InUse(k) => UpToDate(memory[k])

(* A request on its way counts on no more than that.                       *)
Asked ==
  \A k \in Child : \A e \in stdin[k] :
    /\ due[e.call].env = file.env
    /\ call[e.call].op = "query" => due[e.call].done \subseteq acked \ doubtful

(* A response on its way says what is so: a query has shown what it was    *)
(* due, a command that succeeded and was saved is in the file, which is    *)
(* what its child has in memory, and the environment named is the one in   *)
(* the file: what a transition has left, or the one there was.             *)
Says(k, f) ==
  /\ f.env = file.env
  /\ call[f.call].op = "query" => Honoured(f.call)
  /\ call[f.call].op = "command" /\ f.ok /\ f.call \notin doubtful =>
       f.call \in file.done /\ memory[k] \in {NoStore, file}
  /\ call[f.call].op \in Transition => f.ok \/ due[f.call].env = file.env

Saying == \A k \in Child : \A f \in stdout[k] : call[f.call].state = "waiting" => Says(k, f)

(* What was shown stays as it was, and a transition that was answered      *)
(* knows the environment that it left.                                     *)
Done ==
  /\ \A c \in Call : Shown(c) => Honoured(c)
  /\ \A c \in Call : call[c].state = "resuming" =>
       call[c].op \in Transition /\ LeftBy(c) = file.env

(* Unless a transition is with its child, or a window has rebound the      *)
(* adapter, the binding is that of the file.                               *)
Asking == \E c \in Call : call[c].op \in Transition /\ Waiting(c)
Bound == Asking \/ "rebind" \in circumstances \/ currentBinding \in {DefaultEnv, file.env}

Coherent == Trusted => Standing /\ Asked /\ Saying /\ Done /\ Bound

(* Calls that fail are none of those that a trusted state speaks of.       *)
LEMMA FailingCalls ==
  ASSUME NEW c \in Call, Fails(c)
  PROVE  /\ Open(c)' => Open(c)
         /\ call'[c].state = "idle" => call[c].state = "idle"
         /\ call'[c].state = "waiting" => call[c].state = "waiting"
         /\ call'[c].state = "resuming" =>
              call[c].state = "resuming" /\ LeftBy(c)' = IF call[c].env = NoEnv THEN due'[c].env ELSE call[c].env
         /\ Shown(c)' => Shown(c)
         /\ call[c].state = "rejected" => call'[c].state = "rejected"
         /\ call'[c].state # "rejected" => call'[c].state = call[c].state
BY DEF Fails, Open, LeftBy, Shown

LEMMA FailingTrust ==
  ASSUME Failing, UNCHANGED <<doubtful, circumstances>>, Trusted'
  PROVE  Trusted /\ (Changing' <=> Changing) /\ (Asking => Asking')
<1>1. Trusted
  BY FailingCalls DEF Failing, Fails, Trusted, SavesFail
<1>2. ASSUME NEW c \in Call, call[c].op \in Transition, Open(c)
      PROVE  Changing' /\ (Waiting(c) => Asking')
  <2>1. call'[c].op \in Transition /\ call'[c].state # "rejected"
    BY <1>2 DEF Failing, Fails, Trusted, Open
  <2>2. Open(c)' /\ (Waiting(c) => Waiting(c)')
    BY <1>2, <2>1 DEF Failing, Fails, Open, Waiting
  <2>. QED BY <2>1, <2>2 DEF Changing, Asking
<1>3. ASSUME NEW c \in Call, call'[c].op \in Transition, Open(c)' PROVE Changing
  BY <1>3, FailingCalls DEF Failing, Fails, Changing
<1>. QED BY <1>1, <1>2, <1>3 DEF Changing, Asking, Waiting, Open

(* A child that goes, or a call that fails, takes nothing from the file.   *)
LEMMA FailingStaysCoherent ==
  ASSUME Bridge, Coherent, Failing, UNCHANGED <<file, view, acked, doubtful, due, circumstances>>,
         \A k \in Child : memory'[k] \in {memory[k], NoStore},
         currentBinding' = currentBinding \/ "rebind" \in circumstances
  PROVE  Coherent'
<1>. SUFFICES ASSUME Trusted' PROVE Standing' /\ Asked' /\ Saying' /\ Done' /\ Bound'
  BY DEF Coherent
<1>1. (Changing' <=> Changing) /\ (Asking => Asking') /\ Standing /\ Asked /\ Saying /\ Done /\ Bound
  BY FailingTrust DEF Coherent
<1>2. \A k \in Child : /\ \A e \in stdin'[k] : e \in stdin[k] /\ e.call \in Call
                       /\ \A f \in stdout'[k] : f \in stdout[k] /\ f.call \in Call
  BY DEF Failing, Bridge, TypeOK, Entry, Frame
<1>3. \A c \in Call : Fails(c) /\ call'[c].op = call[c].op
  BY DEF Failing, Fails
<1>4. Standing'
  <2>1. \A k \in Child : InUse(k)' => InUse(k) /\ memory'[k] = memory[k]
    BY DEF Failing, InUse
  <2>2. \A c \in Call : call'[c].state = "idle" => call[c].state = "idle"
    BY <1>3, FailingCalls
  <2>. QED BY <1>1, <2>1, <2>2 DEF Standing, UpToDate
<1>5. Asked'
  BY <1>1, <1>2, <1>3 DEF Asked
<1>6. Saying'
  <2>. SUFFICES ASSUME NEW k \in Child, NEW f \in stdout'[k], call'[f.call].state = "waiting"
                PROVE  Says(k, f)'
    BY DEF Saying
  <2>1. f \in stdout[k] /\ f.call \in Call
    BY <1>2
  <2>2. Says(k, f)
    BY <1>1, <1>3, <2>1, FailingCalls DEF Saying
  <2>3. call'[f.call].op = call[f.call].op
    BY <1>3, <2>1
  <2>. QED BY <2>2, <2>3 DEF Says, Honoured
<1>7. Done'
  <2>1. \A c \in Call : Shown(c)' => Honoured(c)'
    BY <1>1, <1>3, FailingCalls DEF Done, Honoured
  <2>2. ASSUME NEW c \in Call, call'[c].state = "resuming"
        PROVE  call'[c].op \in Transition /\ LeftBy(c)' = file'.env
    BY <1>1, <1>3, <2>2, FailingCalls DEF Done, LeftBy
  <2>. QED BY <2>1, <2>2 DEF Done
<1>8. Bound'
  BY <1>1 DEF Bound
<1>. QED BY <1>4, <1>5, <1>6, <1>7, <1>8

(* The request a child takes is the only one, and while it is there nobody *)
(* waits for anything else; what it leaves is up to date, unless it is a   *)
(* transition, which leaves its environment when it fails, unless that     *)
(* went half-way.                                                          *)
LEMMA ServingIsAlone ==
  ASSUME Bridge, StoreTypeOK, Apart, Serial, Coherent, Trusted,
         NEW k \in Child, stdin[k] # {}, Loaded(k), NEW r \in Outcomes(k)
  PROVE  /\ Head(k) \in stdin[k] /\ Head(k).call \in Call
         /\ \A j \in Child : \A e \in stdin[j] : j = k /\ e = Head(k)
         /\ \A c \in Call : Open(c) => c = Head(k).call /\ call[c].state = "waiting"
         /\ \A j \in Child : \A f \in stdout[j] : call[f.call].state # "waiting"
         /\ Changing <=> call[Head(k).call].op \in Transition
         /\ call[Head(k).call].op \notin Transition => UpToDate(r[2])
         /\ \/ AnsweredEnv(r, EnvironmentFor(k)) = r[2].env
               /\ (call[Head(k).call].op \in Transition => r[1] = TRUE \/ r[2].env = file.env)
            \/ HalfWay(Head(k).call, EnvironmentFor(k), r)
         /\ due[Head(k).call].env = file.env
         /\ call[Head(k).call].op = "query" => due[Head(k).call].done \subseteq r[2].done
         /\ call[Head(k).call].op = "command" /\ r[1] = TRUE => Head(k).call \in r[2].done
<1>. DEFINE e == Head(k)
            c == e.call
<1>1. e \in stdin[k] /\ c \in Call
  BY HeadIsAnEntry DEF Bridge
<1>2. \A j \in Child : \A d \in stdin[j] : j = k /\ d = e
  BY <1>1 DEF Serial, Trusted
<1>3. call[c].state \in {"waiting", "rejected"} /\ \A d \in Call : Open(d) => d = c
  BY <1>1 DEF Serial, Trusted, Apart
<1>4. \A d \in Call : Open(d) => d = c /\ call[d].state = "waiting"
  BY <1>3 DEF Open
<1>5. ASSUME NEW j \in Child, NEW f \in stdout[j] PROVE call[f.call].state # "waiting"
  <2>1. f.call \in Call /\ f.call # c
    BY <1>1 DEF Apart, Bridge, TypeOK, Frame
  <2>. QED BY <1>3, <2>1 DEF Open
<1>6. Changing <=> call[c].op \in Transition
  <2>1. ASSUME call[c].op \in Transition PROVE Open(c)
    BY <1>1, <1>3, <2>1 DEF Trusted, Open
  <2>. QED BY <1>1, <1>4, <2>1 DEF Changing
<1>7. Standing /\ Asked
  BY DEF Coherent
<1>8. due[c].env = file.env /\ (call[c].op = "query" => due[c].done \subseteq acked \ doubtful)
  BY <1>1, <1>7 DEF Asked
<1>9. EnvironmentFor(k) \in Store /\ r \in Results(c, EnvironmentFor(k)) /\ TypeOK
  BY ServedOnAStore DEF Outcomes, Bridge
<1>. HIDE DEF e, c
<1>10. /\ r[1] \in BOOLEAN
       /\ call[c].op \notin Transition =>
            r[2].env = EnvironmentFor(k).env /\ EnvironmentFor(k).done \subseteq r[2].done
       /\ call[c].op = "command" /\ r[1] = TRUE => c \in r[2].done
  <2>. DEFINE b == EnvironmentFor(k)
  <2>1. b \in Store /\ r \in Results(c, b) /\ TypeOK
    BY <1>9
  <2>. HIDE DEF b
  <2>2. /\ r[1] \in BOOLEAN
        /\ call[c].op \notin Transition => r[2].env = b.env /\ b.done \subseteq r[2].done
        /\ call[c].op = "command" /\ r[1] = TRUE => c \in r[2].done
    BY <1>1, <2>1, ResultsGrow
  <2>. QED BY <2>2 DEF b
<1>11. ASSUME call[c].op \notin Transition PROVE UpToDate(r[2])
  <2>1. EnvironmentFor(k) = memory[k] /\ memory[k] # NoStore
    BY <1>11 DEF EnvironmentFor, Loaded, c, e
  <2>2. Current(k)
    BY DEF Serial, Trusted
  <2>3. UpToDate(memory[k])
    BY <1>6, <1>7, <1>11, <2>1, <2>2 DEF Standing, InUse
  <2>. QED BY <1>10, <1>11, <2>1, <2>3 DEF UpToDate
<1>12. \/ AnsweredEnv(r, EnvironmentFor(k)) = r[2].env
          /\ (call[c].op \in Transition => r[1] = TRUE \/ r[2].env = file.env)
       \/ HalfWay(c, EnvironmentFor(k), r)
  <2>1. call[c].op \in Transition => EnvironmentFor(k) = file
    BY DEF EnvironmentFor, c, e
  <2>. QED BY <1>10, <2>1 DEF AnsweredEnv, HalfWay
<1>13. call[c].op = "query" => call[c].op \notin Transition
  BY DEF Transition
<1>14. call[c].op = "query" => due[c].done \subseteq r[2].done
  BY <1>8, <1>11, <1>13 DEF UpToDate
<1>. QED BY <1>1, <1>2, <1>4, <1>5, <1>6, <1>8, <1>10, <1>11, <1>12, <1>14 DEF c, e

LEMMA SavedWhenTrusted ==
  ASSUME Trusted, NEW s, Save(s)
  PROVE  file' = s
BY DEF Trusted, SavesFail, Save

LEMMA ServeStaysCoherent ==
  ASSUME Bridge, StoreTypeOK, Apart, Serial, Coherent, NEW k \in Child, Serve(k)
  PROVE  Coherent'
<1>1. PICK r \in Outcomes(k), direct \in BOOLEAN : Served(k, r, direct)
  BY ServeServes
<1>0. PICK c \in Call : c = Head(k).call
  BY HeadIsAnEntry DEF Bridge, Serve
<1>. DEFINE n == [id |-> Head(k).id, call |-> c, ok |-> r[1], env |-> AnsweredEnv(r, EnvironmentFor(k))]
<1>2. /\ stdin' = [stdin EXCEPT ![k] = @ \ {Head(k)}] /\ stdout' = [stdout EXCEPT ![k] = @ \cup {n}]
      /\ UNCHANGED <<call, currentBinding, process, killed, acked, due, circumstances>>
      /\ doubtful' = doubtful \cup {d \in {c} : direct \/ HalfWay(c, EnvironmentFor(k), r)}
      /\ stdin[k] # {} /\ Loaded(k)
  BY <1>0, <1>1 DEF Answer, adapter, Serve, Served
<1>3. n.call = c /\ n.ok = r[1] /\ n.env = AnsweredEnv(r, EnvironmentFor(k))
  OBVIOUS
<1>. HIDE DEF n
<1>. SUFFICES ASSUME Trusted' PROVE Standing' /\ Asked' /\ Saying' /\ Done' /\ Bound'
  BY DEF Coherent
<1>4. Trusted /\ Standing /\ Asked /\ Saying /\ Done /\ Bound
      /\ (Changing' <=> Changing) /\ (Asking' <=> Asking)
  BY <1>2 DEF Trusted, SavesFail, Changing, Asking, Waiting, Open, Coherent
<1>5. /\ ~ HalfWay(c, EnvironmentFor(k), r)
      /\ direct => file' = file /\ call[c].op = "command" /\ c \in doubtful'
      /\ ~ direct => file' = r[2]
  <2>1. call[c].state # "idle"
    BY <1>0, <1>2, HeadIsAnEntry DEF Apart, Bridge
  <2>2. ~ HalfWay(c, EnvironmentFor(k), r)
    BY <1>2, <2>1 DEF HalfWay, Trusted
  <2>. QED BY <1>0, <1>1, <1>2, <1>4, <2>2, SavedWhenTrusted DEF Served, SaveUnlessDirect
<1>6. /\ \A j \in Child : \A e \in stdin[j] : j = k /\ e = Head(k)
      /\ \A d \in Call : Open(d) => d = c /\ call[d].state = "waiting"
      /\ \A j \in Child : \A f \in stdout[j] : call[f.call].state # "waiting"
      /\ Changing <=> call[c].op \in Transition
      /\ call[c].op \notin Transition => UpToDate(r[2])
      /\ AnsweredEnv(r, EnvironmentFor(k)) = r[2].env
      /\ call[c].op \in Transition => r[1] = TRUE \/ r[2].env = file.env
      /\ due[c].env = file.env
      /\ call[c].op = "query" => due[c].done \subseteq r[2].done
      /\ call[c].op = "command" /\ r[1] = TRUE => c \in r[2].done
  BY <1>0, <1>2, <1>4, <1>5, ServingIsAlone
<1>7. memory'[k] = r[2] /\ \A j \in Child \ {k} : memory'[j] = memory[j]
  BY <1>1 DEF StoreTypeOK, Served
<1>8. file'.env = r[2].env /\ (~ Changing => file'.env = file.env)
  BY <1>5, <1>6 DEF UpToDate, Transition
<1>9. Standing'
  <2>. SUFFICES ASSUME ~ Changing
                PROVE  /\ UpToDate(file)'
                       /\ \A d \in Call : call'[d].state = "idle" => due'[d].env = file'.env
                       /\ \A j \in Child : InUse(j)' => UpToDate(memory[j])'
    BY <1>4 DEF Standing
  <2>1. UpToDate(r[2]) /\ file'.env = file.env
    BY <1>6, <1>8
  <2>2. UpToDate(file)'
    BY <1>2, <1>4, <1>5, <2>1 DEF UpToDate, Standing
  <2>3. \A d \in Call : call'[d].state = "idle" => due'[d].env = file'.env
    BY <1>2, <1>4, <2>1 DEF Standing
  <2>4. ASSUME NEW j \in Child, InUse(j)' PROVE UpToDate(memory[j])'
    <3>1. CASE j = k
      BY <1>2, <1>7, <2>1, <3>1 DEF UpToDate
    <3>2. CASE j # k
      <4>1. UpToDate(memory[j])
        BY <1>2, <1>4, <1>7, <2>4, <3>2 DEF Standing, InUse, Current
      <4>. QED BY <1>2, <1>7, <2>1, <3>2, <4>1 DEF UpToDate
    <3>. QED BY <3>1, <3>2
  <2>. QED BY <2>2, <2>3, <2>4
<1>10. Asked'
  <2>1. \A j \in Child : \A e \in stdin'[j] : FALSE
    BY <1>2, <1>6 DEF Bridge, TypeOK
  <2>. QED BY <2>1 DEF Asked
<1>11. Saying'
  <2>. SUFFICES ASSUME NEW j \in Child, NEW f \in stdout'[j], call'[f.call].state = "waiting"
                PROVE  Says(j, f)'
    BY DEF Saying
  <2>1. f \in stdout[j] \/ (f = n /\ j = k)
    BY <1>2 DEF Bridge, TypeOK
  <2>2. f = n /\ j = k
    BY <1>2, <1>6, <2>1
  <2>3. call'[c].op = call[c].op /\ due'[c] = due[c]
    BY <1>2
  <2>4. ASSUME call[c].op = "query" PROVE Honoured(c)'
    <3>1. view'[c] = r[2]
      BY <1>0, <1>1, <2>4 DEF StoreTypeOK, Served
    <3>2. UpToDate(r[2])
      BY <1>6, <2>4 DEF Transition
    <3>. QED BY <1>6, <2>3, <2>4, <3>1, <3>2 DEF Honoured, UpToDate
  <2>5. ASSUME call[c].op = "command", n.ok, c \notin doubtful'
        PROVE  c \in file'.done /\ memory'[k] = file'
    <3>1. r[1] = TRUE
      BY <1>1, <1>2, <1>3, <1>6, <2>5, LeftIsAStore DEF Bridge
    <3>. QED BY <1>5, <1>6, <1>7, <2>5, <3>1
  <2>6. n.env = file'.env
    BY <1>3, <1>6, <1>8
  <2>7. ASSUME call[c].op \in Transition
        PROVE  n.ok \/ due'[c].env = file'.env
    BY <1>3, <1>6, <1>8, <2>3, <2>7
  <2>. QED BY <1>3, <2>2, <2>3, <2>4, <2>5, <2>6, <2>7 DEF Says
<1>12. Done'
  <2>1. ASSUME NEW d \in Call, Shown(d)' PROVE Honoured(d)'
    <3>1. Shown(d) /\ d # c
      <4>1. Shown(d)
        BY <1>2, <2>1 DEF Shown
      <4>2. call[c].state \in {"waiting", "rejected"}
        BY <1>0, <1>2, HeadIsAnEntry DEF Apart, Bridge
      <4>. QED BY <4>1, <4>2 DEF Shown
    <3>2. view'[d] = view[d]
      BY <1>0, <1>1, <3>1 DEF StoreTypeOK, Served
    <3>. QED BY <1>2, <1>4, <3>1, <3>2 DEF Done, Honoured
  <2>2. \A d \in Call : call'[d].state # "resuming"
    BY <1>2, <1>6 DEF Open
  <2>. QED BY <2>1, <2>2 DEF Done
<1>13. Bound'
  <2>1. Changing => Asking
    BY <1>6 DEF Changing, Asking, Waiting
  <2>. QED BY <1>2, <1>4, <1>8, <2>1 DEF Bound
<1>. QED BY <1>9, <1>10, <1>11, <1>12, <1>13

LEMMA ServeAndDieStaysCoherent ==
  ASSUME Bridge, StoreTypeOK, Apart, Serial, Coherent, NEW k \in Child, ServeAndDie(k)
  PROVE  Coherent'
<1>1. PICK r \in Outcomes(k), direct \in BOOLEAN :
        /\ direct => call[Head(k).call].op = "command"
        /\ SaveUnlessDirect(direct, r[2])
  BY DyingServes
<1>2. /\ stdin' = [stdin EXCEPT ![k] = {}] /\ stdin[k] # {} /\ Loaded(k)
      /\ memory' = [memory EXCEPT ![k] = NoStore]
      /\ UNCHANGED <<call, currentBinding, process, killed, stdout, view, acked, doubtful, due,
                      circumstances>>
  BY DEF ServeAndDie, Exit, adapter
<1>. SUFFICES ASSUME Trusted' PROVE Standing' /\ Asked' /\ Saying' /\ Done' /\ Bound'
  BY DEF Coherent
<1>3. Trusted /\ Standing /\ Done /\ Bound /\ (Changing' <=> Changing) /\ (Asking' <=> Asking)
  BY <1>2 DEF Trusted, SavesFail, Changing, Asking, Waiting, Open, Coherent
<1>4. file' = file \/ file' = r[2]
  BY <1>1, <1>3, SavedWhenTrusted DEF SaveUnlessDirect
<1>5. /\ \A j \in Child : \A e \in stdin[j] : j = k
      /\ \A d \in Call : Open(d) => call[d].state = "waiting"
      /\ \A j \in Child : \A f \in stdout[j] : call[f.call].state # "waiting"
      /\ ~ Changing => UpToDate(r[2])
      /\ Changing => Asking
  BY <1>2, <1>3, ServingIsAlone DEF Changing, Asking, Waiting
<1>6. Standing'
  <2>. SUFFICES ASSUME ~ Changing
                PROVE  /\ UpToDate(file)'
                       /\ \A d \in Call : call'[d].state = "idle" => due'[d].env = file'.env
                       /\ \A j \in Child : InUse(j)' => UpToDate(memory[j])'
    BY <1>3 DEF Standing
  <2>1. UpToDate(r[2]) /\ Standing
    BY <1>3, <1>5
  <2>2. ASSUME NEW j \in Child, InUse(j)' PROVE InUse(j) /\ memory'[j] = memory[j]
    BY <1>2, <2>2 DEF InUse, Current, StoreTypeOK
  <2>. QED BY <1>2, <1>4, <2>1, <2>2 DEF UpToDate, Standing
<1>7. Asked'
  BY <1>2, <1>5 DEF Asked, Bridge, TypeOK
<1>8. Saying'
  BY <1>2, <1>5 DEF Saying
<1>9. Done'
  <2>1. \A d \in Call : call'[d].state # "resuming"
    BY <1>2, <1>5 DEF Open
  <2>. QED BY <1>2, <1>3, <2>1 DEF Done, Shown, Honoured
<1>10. Bound'
  BY <1>2, <1>3, <1>4, <1>5 DEF Bound, UpToDate
<1>. QED BY <1>6, <1>7, <1>8, <1>9, <1>10

LEMMA LoadStaysCoherent ==
  ASSUME StoreTypeOK, Coherent, NEW k \in Child, Load(k)
  PROVE  Coherent'
<1>1. /\ UNCHANGED <<call, currentBinding, process, killed, stdin, stdout, file, view, acked,
                      doubtful, due, circumstances>>
      /\ memory' = [memory EXCEPT ![k] = file]
  BY DEF Load, vars
<1>. SUFFICES ASSUME Trusted' PROVE Standing' /\ Asked' /\ Saying' /\ Done' /\ Bound'
  BY DEF Coherent
<1>2. Standing /\ Asked /\ Saying /\ Done /\ Bound
  BY <1>1 DEF Trusted, SavesFail, Coherent
<1>3. memory'[k] = file /\ \A j \in Child \ {k} : memory'[j] = memory[j]
  BY <1>1 DEF StoreTypeOK
<1>4. Standing'
  BY <1>1, <1>2, <1>3 DEF Standing, Changing, Open, UpToDate, InUse, Current
<1>5. Saying'
  <2>. SUFFICES ASSUME NEW j \in Child, NEW f \in stdout'[j], call'[f.call].state = "waiting"
                PROVE  Says(j, f)'
    BY DEF Saying
  <2>1. Says(j, f)
    BY <1>1, <1>2 DEF Saying
  <2>2. memory'[j] = file \/ memory'[j] = memory[j]
    BY <1>3
  <2>. QED BY <1>1, <2>1, <2>2 DEF Says, Honoured
<1>6. Asked' /\ Done' /\ Bound'
  BY <1>1, <1>2 DEF Asked, Done, Shown, Honoured, LeftBy, Bound, Asking, Waiting
<1>. QED BY <1>4, <1>5, <1>6

LEMMA DeliverStaysCoherent ==
  ASSUME Bridge, StoreTypeOK, Apart, Serial, Coherent, NEW k \in Child, Deliver(k)
  PROVE  Coherent'
<1>1. PICK f \in stdout[k] : Delivering(k, f)
  BY DeliverDelivers DEF Deliver
<1>2. PICK c \in Call : c = f.call
  BY AnsweredType DEF Bridge
<1>3. /\ call[c].state = "waiting" /\ call'[c] = Answered(c, f)
      /\ \A d \in Call \ {c} : Fails(d)
      /\ stdout' = [stdout EXCEPT ![k] = @ \ {f}] /\ stdin' = stdin
      /\ \A j \in Child : Current(j)' => Current(j)
      /\ \A j \in Child : f.ok /\ call[c].op = "command" /\ Current(j)' => j = k
      /\ currentBinding' = Adopted(f.env)
  BY <1>1, <1>2 DEF Delivering
<1>4. UNCHANGED <<file, memory, view, due, circumstances>>
  BY DEF Deliver
<1>5. /\ \A d \in acked' \ doubtful' :
           \/ d \in acked \ doubtful
           \/ f.ok /\ call[c].op = "command" /\ c \notin doubtful /\ (d = c \/ d \in file.done)
      /\ \A d \in doubtful \ doubtful' : call[d].op \notin Transition
  <2>. DEFINE done == {g.call : g \in {h \in stdout[k] \ stdout'[k] : h.ok /\ call[h.call].op = "command"}}
  <2>1. stdout[k] \ stdout'[k] = {f}
    BY <1>3 DEF Bridge, TypeOK
  <2>2. done = {d \in {c} : f.ok /\ call[c].op = "command"}
    BY <1>2, <2>1
  <2>3. /\ acked' = acked \cup done
        /\ doubtful' = doubtful \ {d \in file.done : ~ done \subseteq doubtful /\ call[d].op \notin Transition}
    BY DEF Deliver
  <2>. HIDE DEF done
  <2>. QED BY <2>2, <2>3
<1>6. /\ call'[c].op = call[c].op /\ f.ok \in BOOLEAN
      /\ call'[c].state = IF call[c].op \in Transition THEN "resuming" ELSE "resolved"
      /\ call[c].op \in Transition =>
           call'[c].env = IF call[c].op = "load-image" \/ f.ok THEN f.env ELSE NoEnv
  BY <1>2, <1>3, AnsweredType DEF Bridge
<1>. SUFFICES ASSUME Trusted' PROVE Standing' /\ Asked' /\ Saying' /\ Done' /\ Bound'
  BY DEF Coherent
<1>7. Trusted
  <2>1. \A d \in Call : /\ call'[d].op = call[d].op
                        /\ call[d].state # "idle" => call'[d].state # "idle"
                        /\ call[d].state = "rejected" => call'[d].state = "rejected"
    BY <1>3, <1>6 DEF Fails
  <2>2. \A d \in Call : call[d].op \in Transition => (d \in doubtful <=> d \in doubtful')
    BY <1>5 DEF Deliver
  <2>. QED BY <1>4, <2>1, <2>2 DEF Trusted, SavesFail
<1>8. Standing /\ Saying /\ Done
  BY <1>7 DEF Coherent
<1>9. Says(k, f)
  BY <1>2, <1>3, <1>8 DEF Saying
<1>10. \A d \in Call : Open(d) => d = c
  BY <1>3, <1>7 DEF Serial, Trusted, Open
<1>11. \A d \in Call \ {c} : /\ ~ Open(d) /\ ~ Open(d)'
                             /\ call'[d].state = "idle" => call[d].state = "idle"
                             /\ Shown(d)' => Shown(d)
  BY <1>3, <1>10, FailingCalls
<1>12. Standing'
  <2>. SUFFICES ASSUME ~ Changing'
                PROVE  /\ UpToDate(file)'
                       /\ \A d \in Call : call'[d].state = "idle" => due'[d].env = file'.env
                       /\ \A j \in Child : InUse(j)' => UpToDate(memory[j])'
    BY DEF Standing
  <2>1. call[c].op \notin Transition
    BY <1>6 DEF Changing, Open
  <2>2. ~ Changing
    BY <1>10, <2>1 DEF Changing
  <2>3. /\ UpToDate(file)
        /\ \A d \in Call : call[d].state = "idle" => due[d].env = file.env
        /\ \A j \in Child : InUse(j) => UpToDate(memory[j])
    BY <1>8, <2>2 DEF Standing
  <2>4. UpToDate(file)'
    BY <1>2, <1>4, <1>5, <1>9, <2>3 DEF UpToDate, Says
  <2>5. call'[c].state # "idle"
    BY <1>6
  <2>6. \A d \in Call : call'[d].state = "idle" => due'[d].env = file'.env
    BY <1>4, <1>11, <2>3, <2>5
  <2>7. ASSUME NEW j \in Child, InUse(j)' PROVE UpToDate(memory[j])'
    <3>1. InUse(j) /\ UpToDate(memory[j])
      BY <1>3, <1>4, <2>3, <2>7 DEF InUse
    <3>2. f.ok /\ call[c].op = "command" /\ c \notin doubtful => memory[j] = file /\ c \in file.done
      BY <1>2, <1>3, <1>4, <1>9, <2>7 DEF Says, InUse
    <3>. QED BY <1>4, <1>5, <3>1, <3>2 DEF UpToDate
  <2>. QED BY <2>4, <2>6, <2>7
<1>13. Asked'
  BY <1>1, <1>3, <1>7, DeliveringKeeps DEF Asked, Trusted, Bridge
<1>14. Saying'
  <2>1. ASSUME NEW j \in Child, NEW g \in stdout'[j] PROVE call'[g.call].state # "waiting"
    <3>1. g.call \in Call
      BY <1>3 DEF Bridge, TypeOK, Frame
    <3>2. call'[c].state # "waiting"
      BY <1>6
    <3>. QED BY <1>11, <3>1, <3>2 DEF Open
  <2>. QED BY <2>1 DEF Saying
<1>15. f.env = file.env /\ f.env # NoEnv
  BY <1>9, EnvAssumption DEF Says, StoreTypeOK, Store
<1>16. Done'
  <2>1. ASSUME NEW d \in Call, Shown(d)' PROVE Honoured(d)'
    <3>1. d = c => call[c].op = "query"
      BY <1>6, <2>1 DEF Shown
    <3>2. Honoured(d)
      BY <1>2, <1>8, <1>9, <1>11, <2>1, <3>1 DEF Done, Says
    <3>. QED BY <1>4, <3>2 DEF Honoured
  <2>2. ASSUME NEW d \in Call, call'[d].state = "resuming"
        PROVE  call'[d].op \in Transition /\ LeftBy(d)' = file'.env
    <3>1. d = c /\ call[c].op \in Transition
      BY <1>6, <1>11, <2>2 DEF Open
    <3>2. f.ok \/ due[c].env = file.env
      BY <1>2, <1>9, <3>1 DEF Says
    <3>. QED BY <1>4, <1>6, <1>15, <3>1, <3>2 DEF LeftBy
  <2>. QED BY <2>1, <2>2 DEF Done
<1>17. Bound'
  BY <1>3, <1>4, <1>15 DEF Bound, Adopted
<1>. QED BY <1>12, <1>13, <1>14, <1>16, <1>17

LEMMA FinishStaysCoherent ==
  ASSUME Bridge, StoreTypeOK, Apart, Serial, Coherent, NEW c \in Call, Finish(c)
  PROVE  Coherent'
<1>1. /\ OneAtATime => \A j \in Child : stdin[j] = {}
      /\ call[c].state = "resuming" /\ call'[c].state = "resolved" /\ call'[c].op = call[c].op
      /\ \A d \in Call \ {c} : Fails(d)
      /\ stdin' = stdin /\ stdout' = stdout
      /\ \A j \in Child : ~ Current(j)'
  BY FinishKeeps
<1>2. /\ UNCHANGED <<file, memory, view, doubtful, circumstances>>
      /\ acked' = {}
      /\ due' = [d \in Call |-> IF call[d].state = "idle" THEN Fresh(LeftBy(c)) ELSE due[d]]
      /\ currentBinding' = Adopted(call[c].env)
  BY DEF Finish, FinishTransition
<1>. SUFFICES ASSUME Trusted' PROVE Standing' /\ Asked' /\ Saying' /\ Done' /\ Bound'
  BY DEF Coherent
<1>3. Trusted
  BY <1>1, <1>2, FailingCalls DEF Trusted, SavesFail, Fails
<1>4. Done /\ Bound /\ call[c].op \in Transition /\ LeftBy(c) = file.env /\ file.env \in Env
  BY <1>1, <1>3 DEF Coherent, Done, StoreTypeOK, Store
<1>5. \A d \in Call : Open(d) => d = c
  BY <1>1, <1>3 DEF Serial, Trusted, Open
<1>6. \A d \in Call \ {c} : /\ ~ Open(d)'
                            /\ call'[d].state = "idle" => call[d].state = "idle"
                            /\ Shown(d)' => Shown(d)
  BY <1>1, <1>5, FailingCalls
<1>7. ~ Open(c)' /\ ~ Shown(c)' /\ call'[c].state # "idle"
  BY <1>1, <1>4 DEF Open, Shown, Transition
<1>8. Standing'
  <2>1. Fresh(LeftBy(c)).env = file.env
    BY <1>4, StoreStarts
  <2>2. \A d \in Call : call'[d].state = "idle" => due'[d].env = file'.env
    BY <1>2, <1>6, <1>7, <2>1
  <2>. QED BY <1>1, <1>2, <2>2 DEF Standing, UpToDate, InUse
<1>9. Asked'
  BY <1>1, <1>3 DEF Asked, Trusted
<1>10. Saying'
  <2>1. ASSUME NEW j \in Child, NEW f \in stdout'[j] PROVE call'[f.call].state # "waiting"
    <3>1. f.call \in Call
      BY <1>1 DEF Bridge, TypeOK, Frame
    <3>. QED BY <1>6, <1>7, <3>1 DEF Open
  <2>. QED BY <2>1 DEF Saying
<1>11. Done'
  <2>1. ASSUME NEW d \in Call, Shown(d)' PROVE Honoured(d)'
    <3>1. Shown(d) /\ Honoured(d)
      BY <1>4, <1>6, <1>7, <2>1 DEF Done
    <3>2. due'[d] = due[d]
      BY <1>2, <3>1 DEF Shown
    <3>. QED BY <1>2, <3>1, <3>2 DEF Honoured
  <2>2. \A d \in Call : call'[d].state # "resuming"
    BY <1>6, <1>7 DEF Open
  <2>. QED BY <2>1, <2>2 DEF Done
<1>12. Bound'
  <2>1. ~ Asking
    BY <1>1, <1>5 DEF Asking, Waiting, Open
  <2>. QED BY <1>2, <1>4, <2>1 DEF Bound, Adopted, LeftBy
<1>. QED BY <1>8, <1>9, <1>10, <1>11, <1>12

LEMMA AskStaysCoherent ==
  ASSUME Bridge, StoreTypeOK, Apart, Serial, Coherent, NEW c \in Call, Ask(c)
  PROVE  Coherent'
<1>1. Invoking(c)
  BY InvokeInvokes DEF Ask
<1>2. /\ call[c].state = "idle" /\ call'[c].state \in {"waiting", "rejected"}
      /\ \A d \in Call \ {c} : Fails(d)
      /\ stdout' = stdout
      /\ \A k \in Child : Current(k)' => Current(k) \/ status[k] = "free"
      /\ stdin' = stdin \/ \E k \in Child : Sent(c, k)
  BY <1>1 DEF Invoking
<1>3. /\ UNCHANGED <<file, memory, view, acked, doubtful, circumstances>>
      /\ due' = [due EXCEPT ![c].done = IF call'[c].op = "query" THEN acked \ doubtful ELSE @]
      /\ OneAtATime => ChildrenIdle
  BY DEF Ask
<1>4. /\ due'[c].env = due[c].env
      /\ call'[c].op = "query" => due'[c].done = acked \ doubtful
      /\ \A d \in Call \ {c} : due'[d] = due[d]
  BY <1>3 DEF StoreTypeOK, Store
<1>. SUFFICES ASSUME Trusted' PROVE Standing' /\ Asked' /\ Saying' /\ Done' /\ Bound'
  BY DEF Coherent
<1>5. Trusted
  BY <1>2, <1>3, FailingCalls DEF Trusted, SavesFail, Fails
<1>6. /\ \A d \in Call : ~ Open(d)
      /\ \A k \in Child : stdin[k] = {}
  BY <1>3, <1>5 DEF Trusted, ChildrenIdle, Open
<1>7. Done /\ Bound /\ UpToDate(file) /\ (\A k \in Child : InUse(k) => UpToDate(memory[k]))
      /\ \A d \in Call : call[d].state = "idle" => due[d].env = file.env
  BY <1>5, <1>6 DEF Coherent, Standing, Changing
<1>8. \A d \in Call \ {c} : /\ ~ Open(d)'
                            /\ call'[d].state = "idle" => call[d].state = "idle"
                            /\ Shown(d)' => Shown(d)
  BY <1>2, <1>6, FailingCalls
<1>9. ~ Shown(c)' /\ call'[c].state \notin {"idle", "resuming"}
  BY <1>2 DEF Shown
<1>10. Standing'
  <2>1. \A d \in Call : call'[d].state = "idle" => due'[d].env = file'.env
    BY <1>3, <1>4, <1>7, <1>8, <1>9
  <2>2. \A k \in Child : InUse(k)' => InUse(k)
    BY <1>2, <1>3 DEF InUse, StoreTypeOK
  <2>. QED BY <1>3, <1>7, <2>1, <2>2 DEF Standing, UpToDate
<1>11. Asked'
  <2>1. ASSUME NEW k \in Child, NEW e \in stdin'[k] PROVE e.call = c
    BY <1>2, <1>6, <2>1 DEF Sent, Bridge, TypeOK
  <2>. QED BY <1>2, <1>3, <1>4, <1>7, <2>1 DEF Asked
<1>12. Saying'
  <2>1. ASSUME NEW k \in Child, NEW f \in stdout'[k] PROVE call'[f.call].state # "waiting"
    <3>1. f.call \in Call /\ f.call # c
      BY <1>2, <2>1 DEF Apart, Bridge, TypeOK, Frame
    <3>. QED BY <1>8, <3>1 DEF Open
  <2>. QED BY <2>1 DEF Saying
<1>13. Done'
  <2>1. ASSUME NEW d \in Call, Shown(d)' PROVE Honoured(d)'
    <3>1. d # c /\ Honoured(d)
      BY <1>7, <1>8, <1>9, <2>1 DEF Done
    <3>. QED BY <1>3, <1>4, <3>1 DEF Honoured
  <2>2. \A d \in Call : call'[d].state # "resuming"
    BY <1>8, <1>9 DEF Open
  <2>. QED BY <2>1, <2>2 DEF Done
<1>14. Bound'
  <2>1. currentBinding' = currentBinding
    BY DEF Ask, Invoke, InvokeReuse, InvokeSpawn, InvokeAfterFailedSpawn, InvokeSpawnThrows
  <2>2. ~ Asking
    BY <1>6 DEF Asking, Waiting, Open
  <2>. QED BY <1>3, <1>7, <2>1, <2>2 DEF Bound
<1>. QED BY <1>10, <1>11, <1>12, <1>13, <1>14

LEMMA EndsStayCoherent ==
  ASSUME Bridge, StoreTypeOK, Apart, Serial, Coherent, Ends
  PROVE  Coherent'
<1>1. ASSUME NEW k \in Child, ServeAndDie(k) PROVE Coherent'
  BY <1>1, ServeAndDieStaysCoherent
<1>2. CASE \A k \in Child : ~ ServeAndDie(k)
  <2>1. UNCHANGED <<file, view, acked, doubtful, due, circumstances>>
    BY <1>2 DEF Ends, Die, Rebind, store
  <2>2. \A k \in Child : memory'[k] \in {memory[k], NoStore}
    BY <1>2 DEF Ends, Die, Rebind, store, StoreTypeOK
  <2>3. currentBinding' = currentBinding \/ "rebind" \in circumstances
    BY <1>2 DEF Ends, Quiet, IgnoreLine, DriftedLine, RefuseResponse, SpawnError, Close, MalformedLine,
                Die, Exit, WriteError, Rebind, SetEnvironmentBinding, adapter
  <2>. QED BY <2>1, <2>2, <2>3, EndsFail, FailingStaysCoherent
<1>. QED BY <1>1, <1>2

LEMMA StoreStaysCoherent ==
  ASSUME Bridge, StoreTypeOK, Apart, Serial, Coherent, [StoreNext]_all
  PROVE  Coherent'
<1>1. CASE UNCHANGED all
  <2>1. UNCHANGED <<call, currentBinding, process, killed, stdin, stdout, file, memory, view, acked,
                  doubtful, due, circumstances>>
    BY <1>1 DEF all, vars, store
  <2>2. (Trusted' <=> Trusted) /\ (Standing' <=> Standing)
    BY <2>1 DEF Trusted, SavesFail, Standing, Changing, Open, UpToDate, InUse, Current
  <2>3. (Asked' <=> Asked) /\ (Saying' <=> Saying) /\ (Done' <=> Done) /\ (Bound' <=> Bound)
    BY <2>1 DEF Asked, Saying, Says, Done, Shown, Honoured, LeftBy, Bound, Asking, Waiting
  <2>. QED BY <2>2, <2>3 DEF Coherent
<1>. QED BY <1>1, AskStaysCoherent, FinishStaysCoherent, LoadStaysCoherent, ServeStaysCoherent,
            DeliverStaysCoherent, EndsStayCoherent, StoreSteps

THEOREM StoreKeepsCoherent == StoreSpec => []Coherent
<1>1. StoreInit => Coherent
  <2>. SUFFICES ASSUME StoreInit PROVE Standing /\ Asked /\ Saying /\ Done /\ Bound
    BY DEF Coherent
  <2>1. PICK env \in Env : file = Fresh(env) /\ due = [c \in Call |-> Fresh(env)]
    BY DEF StoreInit
  <2>2. \A c \in Call : call[c].state = "idle" /\ due[c].env = file.env
    BY <2>1 DEF StoreInit, Init
  <2>3. /\ acked = {} /\ \A k \in Child : memory[k] = NoStore
        /\ \A k \in Child : stdin[k] = {} /\ stdout[k] = {}
    BY DEF StoreInit, Init
  <2>4. Standing
    BY <2>2, <2>3 DEF Standing, UpToDate, InUse
  <2>5. Bound
    BY DEF StoreInit, Init, Bound
  <2>. QED BY <2>2, <2>3, <2>4, <2>5 DEF Asked, Saying, Done, Shown
<1>. QED BY <1>1, StoreStaysCoherent, StoreKeepsOrder, PTL DEF StoreSpec

(* When callers take turns, a query shows every command that was           *)
(* acknowledged before it was made and the environment that was loaded     *)
(* last: killing the read child after a write is enough                    *)
(* (shouldInvalidateReadBridgeAfterWrite).  A direct evaluation is shown   *)
(* once a later command has been saved and acknowledged.                   *)
THEOREM TurnsMakeReadsCurrent == StoreSpec => [](OneAtATime => ReadsReflectAcknowledgedWrites)
<1>1. Coherent => (OneAtATime => ReadsReflectAcknowledgedWrites)
  BY DEF Coherent, Trusted, Done, Honoured, ReadsReflectAcknowledgedWrites, TransitionInDoubt
<1>. QED BY <1>1, StoreKeepsCoherent, PTL

(* When callers take turns, what was acknowledged is in the state file     *)
(* (save-environment before the response in execute-request), direct       *)
(* evaluations from the next such command on.                              *)
THEOREM TurnsMakeWritesDurable == StoreSpec => [](OneAtATime => AcknowledgedWritesAreDurable)
<1>1. Coherent => (OneAtATime => AcknowledgedWritesAreDurable)
  BY DEF Coherent, Trusted, Standing, Changing, Open, UpToDate, AcknowledgedWritesAreDurable,
         TransitionInDoubt
<1>. QED BY <1>1, StoreKeepsCoherent, PTL

(* When callers take turns, the binding that every answer may move names   *)
(* the environment in the state file, whatever loads and reverts came      *)
(* between (adoptResponseBinding, loadEnvironmentImage).                   *)
THEOREM TurnsKeepTheBinding == StoreSpec => [](OneAtATime => BindingNamesTheFile)
<1>1. Coherent => (OneAtATime => BindingNamesTheFile)
  BY DEF Coherent, Trusted, Bound, Asking, Waiting, BindingNamesTheFile, TransitionInDoubt, SavesFail
<1>. QED BY <1>1, StoreKeepsCoherent, PTL
=============================================================================
