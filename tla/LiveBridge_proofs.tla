-------------------------- MODULE LiveBridge_proofs --------------------------
(***************************************************************************)
(* What holds of the adapter's two bridge routes whatever the number of    *)
(* calls, of child processes and of environments: types, the children that *)
(* are kept track of, the identifiers by which a response finds its call,  *)
(* and what callers are promised.                                          *)
(***************************************************************************)
EXTENDS LiveBridge, TLAPS

(* Rejecting calls changes nothing but the state of waiting ones.          *)
LEMMA RejectType ==
  ASSUME NEW S, NEW calls \in [Call -> CallRecord]
  PROVE  Reject(S, calls) \in [Call -> CallRecord]
<1>. SUFFICES ASSUME NEW c \in Call PROVE Reject(S, calls)[c] \in CallRecord
  BY DEF Reject
<1>1. calls[c] \in CallRecord
  OBVIOUS
<1>2. [calls[c] EXCEPT !.state = "rejected"] \in CallRecord
  BY <1>1 DEF CallRecord, CallState
<1>. QED BY <1>1, <1>2 DEF Reject

(* A call is issued with an operation and an environment of its type.      *)
LEMMA IssuedType ==
  ASSUME TypeOK, NEW q \in Requests
  PROVE  /\ Issued(q) \in CallRecord
         /\ RouteOf(q.op) \in Route
         /\ [Issued(q) EXCEPT !.state = "rejected"] \in CallRecord
<1>1. q \in [op : Op, env : Env \cup {NoEnv}]
  BY RequestAssumption
<1>2. RequestedEnv(q) \in Env \cup {NoEnv}
  BY <1>1 DEF RequestedEnv, TypeOK
<1>. QED BY <1>1, <1>2 DEF Issued, CallRecord, CallState, RouteOf, Route

LEMMA NextEntryType ==
  ASSUME TypeOK, NEW c \in Call, NEW r \in Route
  PROVE  NextEntry(c, r) \in Entry
BY DEF NextEntry, Entry, TypeOK

LEMMA ChildrenType ==
  ASSUME NEW r \in Route
  PROVE  Children(r) \subseteq Child
BY DEF Children, Child

LEMMA RouteServedType ==
  ASSUME NEW k \in Child
  PROVE  RouteServed(k) \in Route
BY DEF RouteServed, Route
-----------------------------------------------------------------------------
(* The steps that make a child lose its route.                             *)
LEMMA LoseCurrentType ==
  ASSUME TypeOK, NEW k \in Child, LoseCurrent(k)
  PROVE  /\ process' \in [Route -> Child \cup {NoChild}]
         /\ warmupRequested' \in SUBSET Route
         /\ pending' \in [Route -> SUBSET Entry]
         /\ call' \in [Call -> CallRecord]
         /\ transitionInFlight' \in BOOLEAN
<1>. DEFINE r == RouteServed(k)
<1>1. r \in Route
  BY RouteServedType
<1>2. Reject(pending[r], call) \in [Call -> CallRecord]
  BY RejectType DEF TypeOK
<1>. HIDE DEF r
<1>. QED BY <1>1, <1>2 DEF LoseCurrent, TypeOK, FlagAfterReject, r

LEMMA DropProcessesType ==
  ASSUME TypeOK, NEW R \in SUBSET Route, DropProcesses(R)
  PROVE  /\ process' \in [Route -> Child \cup {NoChild}]
         /\ warmupRequested' \in SUBSET Route
         /\ killed' \in SUBSET Child
BY DEF DropProcesses, TypeOK

LEMMA InvokeType ==
  ASSUME TypeOK, NEW c \in Call, Invoke(c)
  PROVE  TypeOK'
<1>1. PICK q \in Requests : \/ InvokeReuse(c, q)
                            \/ InvokeSpawn(c, q)
                            \/ InvokeAfterFailedSpawn(c, q)
                            \/ InvokeSpawnThrows(c, q)
  BY DEF Invoke
<1>. DEFINE r == RouteOf(q.op)
            e == NextEntry(c, r)
<1>2. Issued(q) \in CallRecord /\ [Issued(q) EXCEPT !.state = "rejected"] \in CallRecord
  BY IssuedType
<1>3. r \in Route
  BY IssuedType
<1>4. e \in Entry /\ e.id \in Nat
  BY <1>3, NextEntryType DEF Entry
<1>5. Register(c, q) => /\ pending' \in [Route -> SUBSET Entry]
                        /\ call' \in [Call -> CallRecord]
                        /\ transitionInFlight' \in BOOLEAN
  BY <1>2, <1>3, <1>4 DEF Register, TypeOK
<1>6. ASSUME NEW k \in Child, NEW life, Write(c, q, k, life)
      PROVE  /\ requestId' \in [Route -> Nat]
             /\ stdin' \in [Child -> SUBSET Entry]
             /\ broken' \in SUBSET (Route \X Entry)
  BY <1>3, <1>4, <1>6 DEF Write, TypeOK
<1>. HIDE DEF r, e
<1>7. CASE InvokeReuse(c, q)
  <2>1. process[r] \in Child
    BY <1>3, <1>7 DEF InvokeReuse, Reusable, TypeOK, r
  <2>. QED BY <2>1, <1>5, <1>6, <1>7 DEF InvokeReuse, TypeOK, r
<1>8. CASE InvokeSpawn(c, q)
  <2>1. PICK k \in Children(r), up \in {"running", "failed"} :
          /\ status' = [status EXCEPT ![k] = up]
          /\ process' = [process EXCEPT ![r] = k]
          /\ Write(c, q, k, up)
    BY <1>8 DEF InvokeSpawn, r
  <2>2. k \in Child
    BY <1>3, ChildrenType
  <2>3. /\ status' \in [Child -> {"free", "running", "failed", "exited"}]
        /\ process' \in [Route -> Child \cup {NoChild}]
    BY <2>1, <2>2, <1>3 DEF TypeOK
  <2>. QED BY <2>1, <2>2, <2>3, <1>5, <1>6, <1>8 DEF InvokeSpawn, TypeOK
<1>9. CASE InvokeAfterFailedSpawn(c, q)
  <2>1. Reject(pending[r], call) \in [Call -> CallRecord]
    BY RejectType DEF TypeOK
  <2>2. status' \in [Child -> {"free", "running", "failed", "exited"}]
    BY <1>9, <1>3, ChildrenType DEF InvokeAfterFailedSpawn, TypeOK, r
  <2>3. call' \in [Call -> CallRecord]
    BY <2>1, <1>2, <1>9 DEF InvokeAfterFailedSpawn, r
  <2>4. /\ requestId' \in [Route -> Nat]
        /\ pending' \in [Route -> SUBSET Entry]
        /\ broken' \in SUBSET (Route \X Entry)
    BY <1>3, <1>4, <1>9 DEF InvokeAfterFailedSpawn, TypeOK, r, e
  <2>. QED BY <2>2, <2>3, <2>4, <1>3, <1>9
       DEF InvokeAfterFailedSpawn, FlagAfterReject, TypeOK, r
<1>10. CASE InvokeSpawnThrows(c, q)
  BY <1>2, <1>10 DEF InvokeSpawnThrows, TypeOK, children
<1>. QED BY <1>1, <1>7, <1>8, <1>9, <1>10

LEMMA LineType ==
  ASSUME TypeOK, NEW k \in Child, Line(k)
  PROVE  TypeOK'
<1>. DEFINE r == RouteServed(k)
<1>1. r \in Route
  BY RouteServedType
<1>. HIDE DEF r
<1>2. ASSUME NEW f, ReadFrame(k, f)
      PROVE  f \in Frame /\ stdout' \in [Child -> SUBSET Frame]
  BY <1>2 DEF ReadFrame, Oldest, TypeOK
<1>3. ASSUME NEW f, NEW p \in Matches(k, f)
      PROVE  p \in Entry /\ p \in pending[r] /\ p.call \in Call
  BY <1>1 DEF Matches, TypeOK, Entry, r
<1>4. CASE IgnoreLine(k)
  <2>1. stdout' \in [Child -> SUBSET Frame]
    BY <1>2, <1>4 DEF IgnoreLine
  <2>. QED BY <2>1, <1>4 DEF IgnoreLine, TypeOK, adapter
<1>5. CASE DriftedLine(k)
  <2>1. PICK f \in stdout[k] : \E p \in Matches(k, f) : RefuseResponse(k, f, p)
    BY <1>5 DEF DriftedLine
  <2>2. PICK p \in Matches(k, f) : RefuseResponse(k, f, p)
    BY <2>1
  <2>3. call' \in [Call -> CallRecord]
    BY <2>2, RejectType DEF RefuseResponse, TypeOK
  <2>4. pending' \in [Route -> SUBSET Entry]
    BY <2>2, <1>1 DEF RefuseResponse, TypeOK, r
  <2>. QED BY <2>2, <2>3, <2>4, <1>2 DEF RefuseResponse, TypeOK
<1>6. CASE DeliverLine(k)
  <2>0. PICK f \in stdout[k] : \E p \in Matches(k, f) : TakeResponse(k, f, p)
    BY <1>6 DEF DeliverLine
  <2>1. PICK p \in Matches(k, f) : TakeResponse(k, f, p)
    BY <2>0
  <2>. DEFINE answered == [call EXCEPT ![p.call] = Answered(p.call, f)]
              rest == [pending EXCEPT ![r] = @ \ {p}]
  <2>2. f \in Frame /\ stdout' \in [Child -> SUBSET Frame]
    BY <2>1, <1>2 DEF TakeResponse
  <2>3. p.call \in Call
    BY <1>3
  <2>4. currentBinding' \in Env
    BY <2>1, <2>2 DEF TakeResponse, Adopted, Frame, TypeOK
  <2>5. Answered(p.call, f) \in CallRecord
    <3>1. call[p.call] \in CallRecord
      BY <2>3 DEF TypeOK
    <3>2. f.env \in Env \cup {NoEnv}
      BY <2>2 DEF Frame
    <3>. QED BY <3>1, <3>2 DEF Answered, CallRecord, CallState
  <2>6. answered \in [Call -> CallRecord]
    BY <2>3, <2>5 DEF TypeOK
  <2>7. rest \in [Route -> SUBSET Entry] /\ "read" \in Route
    BY <1>1 DEF TypeOK, Route
  <2>. HIDE DEF answered, rest
  <2>8. Reject(rest["read"], answered) \in [Call -> CallRecord]
    BY <2>6, RejectType
  <2>9. CASE StalesReads(k, p, f)
    <3>1. /\ DropProcesses({"read"})
          /\ pending' = [rest EXCEPT !["read"] = {}]
          /\ call' = Reject(rest["read"], answered)
      BY <2>1, <2>9 DEF TakeResponse, answered, rest, r
    <3>2. /\ process' \in [Route -> Child \cup {NoChild}]
          /\ warmupRequested' \in SUBSET Route
          /\ killed' \in SUBSET Child
      BY <3>1, DropProcessesType DEF Route
    <3>3. pending' \in [Route -> SUBSET Entry]
      BY <3>1, <2>7
    <3>. QED BY <2>1, <2>2, <2>4, <2>8, <3>1, <3>2, <3>3 DEF TakeResponse, TypeOK
  <2>10. CASE ~ StalesReads(k, p, f)
    <3>1. /\ pending' = rest
          /\ call' = answered
          /\ UNCHANGED <<process, warmupRequested, killed>>
      BY <2>1, <2>10 DEF TakeResponse, answered, rest, r
    <3>. QED BY <2>1, <2>2, <2>4, <2>6, <2>7, <3>1 DEF TakeResponse, TypeOK
  <2>. QED BY <2>9, <2>10
<1>. QED BY <1>4, <1>5, <1>6 DEF Line

LEMMA RebindType ==
  ASSUME TypeOK, InvalidateBoth
  PROVE  /\ process' \in [Route -> Child \cup {NoChild}]
         /\ warmupRequested' \in SUBSET Route
         /\ killed' \in SUBSET Child
         /\ pending' \in [Route -> SUBSET Entry]
BY DropProcessesType DEF InvalidateBoth

(* A step of the bridge keeps the types.                                   *)
LEMMA TypeStep ==
  ASSUME TypeOK, [Next]_vars
  PROVE  TypeOK'
<1>1. ASSUME NEW c \in Call, Invoke(c) PROVE TypeOK'
  BY <1>1, InvokeType
<1>2. ASSUME NEW c \in Call, FinishTransition(c) PROVE TypeOK'
  <2>. DEFINE done == [call EXCEPT ![c].state = "resolved"]
  <2>1. call[c] \in CallRecord
    BY DEF TypeOK
  <2>2. done \in [Call -> CallRecord]
    BY <2>1 DEF TypeOK, CallRecord, CallState
  <2>3. currentBinding' \in Env
    BY <2>1, <1>2 DEF FinishTransition, Adopted, CallRecord, TypeOK
  <2>. HIDE DEF done
  <2>4. call' \in [Call -> CallRecord]
    BY <2>2, <1>2, RejectType DEF FinishTransition, done
  <2>5. transitionInFlight' \in BOOLEAN
    BY <1>2 DEF FinishTransition, FlagAfterReject, TypeOK
  <2>. QED BY <2>3, <2>4, <2>5, <1>2, RebindType DEF FinishTransition, TypeOK
<1>3. ASSUME NEW env \in Env, SetEnvironmentBinding(env) PROVE TypeOK'
  <2>1. call' \in [Call -> CallRecord]
    BY <1>3, RejectType DEF SetEnvironmentBinding, TypeOK
  <2>2. transitionInFlight' \in BOOLEAN
    BY <1>3 DEF SetEnvironmentBinding, FlagAfterReject, TypeOK
  <2>. QED BY <2>1, <2>2, <1>3, RebindType DEF SetEnvironmentBinding, TypeOK
<1>4. ASSUME NEW w \in broken, WriteError(w[1], w[2]) PROVE TypeOK'
  <2>1. w[1] \in Route /\ w[2] \in Entry
    BY DEF TypeOK
  <2>2. call' \in [Call -> CallRecord]
    BY <1>4, RejectType DEF WriteError, TypeOK
  <2>3. /\ broken' \in SUBSET (Route \X Entry)
        /\ pending' \in [Route -> SUBSET Entry]
        /\ transitionInFlight' \in BOOLEAN
    BY <1>4, <2>1 DEF WriteError, TypeOK, FlagAfterReject
  <2>. QED BY <2>2, <2>3, <1>4 DEF WriteError, TypeOK
<1>5. ASSUME NEW k \in Child, Execute(k) PROVE TypeOK'
  <2>1. PICK e \in stdin[k], ok \in BOOLEAN, env \in Env \cup {NoEnv} :
          Answer(k, e, ok, env)
    BY <1>5 DEF Execute
  <2>2. e \in Entry /\ [id |-> e.id, call |-> e.call, ok |-> ok, env |-> env] \in Frame
    BY DEF TypeOK, Entry, Frame
  <2>3. /\ stdin' \in [Child -> SUBSET Entry]
        /\ stdout' \in [Child -> SUBSET Frame]
    BY <2>1, <2>2 DEF Answer, TypeOK
  <2>. QED BY <2>1, <2>3 DEF Answer, TypeOK, adapter
<1>6. ASSUME NEW k \in Child, Exit(k) PROVE TypeOK'
  BY <1>6 DEF Exit, TypeOK, adapter
<1>7. ASSUME NEW k \in Child, SpawnError(k) \/ Close(k) PROVE TypeOK'
  <2>1. LoseCurrent(k)
    BY <1>7 DEF SpawnError, Close
  <2>2. /\ status' \in [Child -> {"free", "running", "failed", "exited"}]
        /\ killed' \in SUBSET Child
        /\ UNCHANGED <<currentBinding, requestId, stdin, stdout, broken>>
    BY <1>7 DEF SpawnError, Close, TypeOK
  <2>. QED BY <2>1, <2>2, LoseCurrentType DEF TypeOK
<1>8. ASSUME NEW k \in Child, Line(k) PROVE TypeOK'
  BY <1>8, LineType
<1>9. ASSUME NEW k \in Child, MalformedLine(k) PROVE TypeOK'
  <2>1. call' \in [Call -> CallRecord]
    BY <1>9, RejectType DEF MalformedLine, TypeOK
  <2>2. transitionInFlight' \in BOOLEAN
    BY <1>9 DEF MalformedLine, FlagAfterReject, TypeOK
  <2>3. pending' \in [Route -> SUBSET Entry]
    BY <1>9, RouteServedType DEF MalformedLine, TypeOK
  <2>. QED BY <2>1, <2>2, <2>3, <1>9 DEF MalformedLine, TypeOK, children
<1>10. CASE UNCHANGED vars
  BY <1>10 DEF vars, TypeOK
<1>. QED BY <1>1, <1>2, <1>3, <1>4, <1>5, <1>6, <1>7, <1>8, <1>9, <1>10
     DEF Next, Line

LEMMA InitType ==
  ASSUME Init
  PROVE  TypeOK
<1>1. [state |-> "idle", op |-> "query", env |-> NoEnv] \in CallRecord
  BY DEF CallRecord, CallState, Op
<1>2. process \in [Route -> Child \cup {NoChild}]
  BY DEF Init, Child
<1>3. status \in [Child -> {"free", "running", "failed", "exited"}]
  BY DEF Init
<1>4. call \in [Call -> CallRecord]
  BY <1>1 DEF Init
<1>5. /\ currentBinding \in Env
      /\ warmupRequested \in SUBSET Route
  BY EnvAssumption DEF Init, Route
<1>6. /\ requestId \in [Route -> Nat]
      /\ pending \in [Route -> SUBSET Entry]
      /\ stdin \in [Child -> SUBSET Entry]
      /\ stdout \in [Child -> SUBSET Frame]
  BY DEF Init
<1>. QED BY <1>2, <1>3, <1>4, <1>5, <1>6 DEF Init, TypeOK

(* Every value of the state keeps its type, for any set of calls, children *)
(* and environments: in particular a response without a binding never      *)
(* unbinds the adapter (adoptResponseBinding returns early).               *)
THEOREM TypeCorrect == Spec => []TypeOK
BY InitType, TypeStep, PTL DEF Spec
-----------------------------------------------------------------------------
(* Who runs: the current child of a route belongs to that route, exists,   *)
(* and was not killed; what was killed exists; every child that runs is    *)
(* the current one of its route or has been killed.                        *)
Owned ==
  /\ \A r \in Route : process[r] # NoChild =>
       /\ process[r] \in Children(r) \ killed
       /\ status[process[r]] # "free"
  /\ \A k \in killed : status[k] # "free"
  /\ NoLeakedChild

LEMMA RoutesAreDisjoint ==
  ASSUME NEW r \in Route, NEW k \in Children(r)
  PROVE  /\ RouteServed(k) = r
         /\ k \in Child
         /\ k # NoChild
         /\ \A s \in Route : k \in Children(s) => s = r
BY ChildAssumption DEF Children, RouteServed, Route, Child

LEMMA ServesItsRoute ==
  ASSUME NEW k \in Child
  PROVE  /\ RouteServed(k) \in Route
         /\ k \in Children(RouteServed(k))
         /\ k # NoChild
BY ChildAssumption DEF Children, RouteServed, Route, Child

LEMMA OwnedUnchanged ==
  ASSUME Owned, UNCHANGED <<process, status, killed>>
  PROVE  Owned'
BY DEF Owned, NoLeakedChild

LEMMA OwnedDrop ==
  ASSUME TypeOK, Owned, NEW R \in SUBSET Route, DropProcesses(R), status' = status
  PROVE  Owned'
<1>1. ASSUME NEW r \in Route, process'[r] # NoChild
      PROVE  /\ process'[r] \in Children(r) \ killed'
             /\ status'[process'[r]] # "free"
  <2>1. process'[r] = process[r] /\ r \notin R
    BY <1>1 DEF DropProcesses
  <2>2. process[r] \in Children(r) \ killed /\ status[process[r]] # "free"
    BY <2>1, <1>1 DEF Owned
  <2>3. ASSUME NEW s \in R, process[s] # NoChild PROVE process[s] # process[r]
    <3>1. process[s] \in Children(s)
      BY <2>3 DEF Owned
    <3>. QED BY <3>1, <2>1, <2>2, RoutesAreDisjoint
  <2>. QED BY <2>1, <2>2, <2>3, <1>1 DEF DropProcesses
<1>2. ASSUME NEW k \in killed' PROVE status'[k] # "free"
  BY <1>2 DEF DropProcesses, Owned
<1>3. ASSUME NEW k \in Child, status'[k] = "running"
      PROVE  process'[RouteServed(k)] = k \/ k \in killed'
  BY <1>3, ServesItsRoute DEF DropProcesses, Owned, NoLeakedChild
<1>. QED BY <1>1, <1>2, <1>3 DEF Owned, NoLeakedChild

LEMMA OwnedInvoke ==
  ASSUME TypeOK, Owned, NEW c \in Call, Invoke(c)
  PROVE  Owned'
<1>1. PICK q \in Requests : \/ InvokeReuse(c, q)
                            \/ InvokeSpawn(c, q)
                            \/ InvokeAfterFailedSpawn(c, q)
                            \/ InvokeSpawnThrows(c, q)
  BY DEF Invoke
<1>. DEFINE r == RouteOf(q.op)
<1>2. r \in Route
  BY IssuedType
<1>. HIDE DEF r
<1>3. CASE InvokeReuse(c, q)
  BY <1>3, OwnedUnchanged DEF InvokeReuse
<1>4. CASE InvokeSpawn(c, q)
  <2>1. PICK k \in Children(r), up \in {"running", "failed"} :
          /\ status[k] = "free"
          /\ status' = [status EXCEPT ![k] = up]
          /\ process' = [process EXCEPT ![r] = k]
    BY <1>4 DEF InvokeSpawn, r
  <2>2. killed' = killed /\ ~ Reusable(r)
    BY <1>4 DEF InvokeSpawn, r
  <2>3. k \in Child /\ k \notin killed /\ RouteServed(k) = r
    BY <2>1, <1>2, RoutesAreDisjoint DEF Owned
  <2>4. status'[k] = up /\ \A j \in Child \ {k} : status'[j] = status[j]
    BY <2>1, <2>3 DEF TypeOK
  <2>5. ASSUME NEW s \in Route, process'[s] # NoChild
        PROVE  process'[s] \in Children(s) \ killed' /\ status'[process'[s]] # "free"
    <3>1. CASE s = r
      BY <3>1, <2>1, <2>2, <2>3, <2>4, <1>2 DEF TypeOK
    <3>2. CASE s # r
      <4>1. process'[s] = process[s]
        BY <3>2, <2>1, <1>2 DEF TypeOK
      <4>2. process[s] \in Children(s) \ killed /\ status[process[s]] # "free"
        BY <4>1, <2>5 DEF Owned
      <4>. QED BY <4>1, <4>2, <2>1, <2>2, <2>4, RoutesAreDisjoint
    <3>. QED BY <3>1, <3>2
  <2>6. ASSUME NEW j \in Child, status'[j] = "running"
        PROVE  process'[RouteServed(j)] = j \/ j \in killed'
    <3>1. CASE j = k
      BY <3>1, <2>1, <2>3, <1>2 DEF TypeOK
    <3>2. CASE j # k
      <4>1. process[RouteServed(j)] = j \/ j \in killed
        BY <3>2, <2>6, <2>4 DEF Owned, NoLeakedChild
      <4>2. RouteServed(j) = r => process[r] # j \/ j \in killed
        BY <2>2, ServesItsRoute DEF Reusable
      <4>. QED BY <4>1, <4>2, <2>1, <2>2, ServesItsRoute DEF TypeOK
    <3>. QED BY <3>1, <3>2
  <2>7. \A j \in killed' : status'[j] # "free"
    BY <2>1, <2>2, <2>3, <2>4 DEF Owned, TypeOK
  <2>. QED BY <2>5, <2>6, <2>7 DEF Owned, NoLeakedChild
<1>5. CASE InvokeAfterFailedSpawn(c, q)
  <2>1. PICK k \in Children(r) :
          status[k] = "free" /\ status' = [status EXCEPT ![k] = "exited"]
    BY <1>5 DEF InvokeAfterFailedSpawn, r
  <2>2. killed' = killed /\ ~ Reusable(r) /\ process' = [process EXCEPT ![r] = NoChild]
    BY <1>5 DEF InvokeAfterFailedSpawn, r
  <2>3. k \in Child
    BY <1>2, RoutesAreDisjoint
  <2>4. status'[k] = "exited" /\ \A j \in Child \ {k} : status'[j] = status[j]
    BY <2>1, <2>3 DEF TypeOK
  <2>5. ASSUME NEW s \in Route, process'[s] # NoChild
        PROVE  process'[s] \in Children(s) \ killed' /\ status'[process'[s]] # "free"
    <3>1. process'[s] = process[s]
      BY <2>2, <2>5, <1>2 DEF TypeOK
    <3>2. process[s] \in Child
      BY <3>1, <2>5 DEF TypeOK
    <3>. QED BY <3>1, <3>2, <2>1, <2>2, <2>4, <2>5 DEF Owned
  <2>6. ASSUME NEW j \in Child, status'[j] = "running"
        PROVE  process'[RouteServed(j)] = j \/ j \in killed'
    <3>1. j # k /\ status[j] = "running"
      BY <2>6, <2>4
    <3>2. RouteServed(j) = r => process[r] # j \/ j \in killed
      BY <2>2, ServesItsRoute DEF Reusable
    <3>. QED BY <3>1, <3>2, <2>2, ServesItsRoute DEF Owned, NoLeakedChild, TypeOK
  <2>7. \A j \in killed' : status'[j] # "free"
    BY <2>2, <2>4 DEF Owned, TypeOK
  <2>. QED BY <2>5, <2>6, <2>7 DEF Owned, NoLeakedChild
<1>6. CASE InvokeSpawnThrows(c, q)
  BY <1>6, OwnedUnchanged DEF InvokeSpawnThrows, children
<1>. QED BY <1>1, <1>3, <1>4, <1>5, <1>6

LEMMA OwnedLose ==
  ASSUME TypeOK, Owned, NEW k \in Child, SpawnError(k) \/ Close(k)
  PROVE  Owned'
<1>. DEFINE r == RouteServed(k)
<1>1. r \in Route /\ k \in Children(r) /\ k # NoChild
  BY ServesItsRoute
<1>. HIDE DEF r
<1>2. /\ status[k] # "running" /\ status'[k] # "running"
      /\ \A j \in Child \ {k} : status'[j] = status[j]
      /\ killed' = killed \/ killed' = killed \ {k}
      /\ status'[k] = "free" => k \notin killed'
  BY DEF SpawnError, Close, TypeOK
<1>3. IF process[r] = k THEN process' = [process EXCEPT ![r] = NoChild]
                        ELSE process' = process
  BY DEF SpawnError, Close, LoseCurrent, r
<1>4. ASSUME NEW s \in Route, process'[s] # NoChild
      PROVE  process'[s] \in Children(s) \ killed' /\ status'[process'[s]] # "free"
  <2>1. process'[s] = process[s]
    BY <1>1, <1>3, <1>4 DEF TypeOK
  <2>2. process[s] \in Children(s) \ killed /\ status[process[s]] # "free"
    BY <2>1, <1>4 DEF Owned
  <2>3. process[s] # k
    <3>. SUFFICES ASSUME process[s] = k PROVE FALSE
      OBVIOUS
    <3>1. s = r
      BY <2>2, <1>1, RoutesAreDisjoint
    <3>2. process'[s] = NoChild
      BY <3>1, <1>1, <1>3 DEF TypeOK
    <3>. QED BY <3>2, <1>4
  <2>4. process[s] \in Child
    BY <2>1, <1>4 DEF TypeOK
  <2>. QED BY <2>1, <2>2, <2>3, <2>4, <1>2
<1>5. ASSUME NEW j \in Child, status'[j] = "running"
      PROVE  process'[RouteServed(j)] = j \/ j \in killed'
  <2>1. j # k /\ status[j] = "running"
    BY <1>2, <1>5
  <2>2. process[RouteServed(j)] = j \/ j \in killed
    BY <2>1 DEF Owned, NoLeakedChild
  <2>. QED BY <2>1, <2>2, <1>1, <1>2, <1>3, ServesItsRoute DEF TypeOK
<1>6. \A j \in killed' : status'[j] # "free"
  BY <1>2 DEF Owned, TypeOK
<1>. QED BY <1>4, <1>5, <1>6 DEF Owned, NoLeakedChild

(* Ownership is an invariant: the handlers that clear a route or kill its  *)
(* child do both or find it dead (invalidateBridge, the error and close    *)
(* handlers of ensurePersistentBridgeForRoute).                            *)
THEOREM ChildrenAreOwned == Spec => []Owned
<1>1. Init => Owned
  <2>. SUFFICES ASSUME Init PROVE Owned
    OBVIOUS
  <2>1. CASE process = [r \in Route |-> NoChild] /\ status = [k \in Child |-> "free"]
    BY <2>1 DEF Init, Owned, NoLeakedChild
  <2>2. ASSUME NEW first \in ReadChild, NEW up \in {"running", "failed"},
               process = [r \in Route |-> IF r = "read" THEN first ELSE NoChild],
               status = [k \in Child |-> IF k = first THEN up ELSE "free"]
        PROVE  Owned
    <3>1. first \in Child /\ first \in Children("read") /\ RouteServed(first) = "read"
      BY DEF Child, Children, RouteServed
    <3>2. killed = {}
      BY DEF Init
    <3>3. "read" \in Route
      BY DEF Route
    <3>. QED BY <3>1, <3>2, <3>3, <2>2 DEF Owned, NoLeakedChild
  <2>. QED BY <2>1, <2>2 DEF Init
<1>2. TypeOK /\ Owned /\ [Next]_vars => Owned'
  <2>. SUFFICES ASSUME TypeOK, Owned, [Next]_vars PROVE Owned'
    OBVIOUS
  <2>1. ASSUME NEW c \in Call, Invoke(c) PROVE Owned'
    BY <2>1, OwnedInvoke
  <2>2. ASSUME InvalidateBoth, status' = status PROVE Owned'
    BY <2>2, OwnedDrop DEF InvalidateBoth
  <2>3. ASSUME NEW k \in Child, SpawnError(k) \/ Close(k) PROVE Owned'
    BY <2>3, OwnedLose
  <2>4. ASSUME NEW k \in Child, Exit(k) PROVE Owned'
    BY <2>4 DEF Exit, Owned, NoLeakedChild, adapter, TypeOK
  <2>5. ASSUME NEW k \in Child, DeliverLine(k) PROVE Owned'
    <3>1. PICK f \in stdout[k] : \E p \in Matches(k, f) : TakeResponse(k, f, p)
      BY <2>5 DEF DeliverLine
    <3>2. /\ DropProcesses({"read"}) \/ UNCHANGED <<process, killed>>
          /\ status' = status
      BY <3>1 DEF TakeResponse
    <3>. QED BY <3>2, OwnedDrop, OwnedUnchanged DEF Route
  <2>6. ASSUME UNCHANGED <<process, status, killed>> PROVE Owned'
    BY <2>6, OwnedUnchanged
  <2>. QED BY <2>1, <2>2, <2>3, <2>4, <2>5, <2>6
       DEF Next, vars, adapter, children, FinishTransition, SetEnvironmentBinding,
           WriteError, Execute, Answer, IgnoreLine, DriftedLine, RefuseResponse,
           MalformedLine
<1>. QED BY <1>1, <1>2, TypeCorrect, PTL DEF Spec

(* However spawns, failures, kills and invalidations interleave, a running *)
(* SBCL process is the current one of its route or has been killed, so the *)
(* adapter never loses track of a process that writes the state file.      *)
THEOREM NoChildLeaks == Spec => []NoLeakedChild
<1>1. Owned => NoLeakedChild
  BY DEF Owned
<1>. QED BY <1>1, ChildrenAreOwned, PTL
-----------------------------------------------------------------------------
(***************************************************************************)
(* Identifiers and promises on the two bridge routes: why a response       *)
(* reaches the call it was computed for, and why no call is forgotten.     *)
(***************************************************************************)

(* Where an entry of route r may still be found: in the pending map, in    *)
(* the pipe to a child of the route, in the pipe back, in a failed write.  *)
Travels(r, e) ==
  \/ e \in pending[r]
  \/ <<r, e>> \in broken
  \/ \E k \in Children(r) : e \in stdin[k] \/ \E f \in stdout[k] : EntryOf(f) = e

(* An identifier on its way was given out before and stands for one call.  *)
Identified ==
  \A r \in Route : \A e \in Entry : Travels(r, e) =>
    /\ e.id <= requestId[r]
    /\ \A d \in Entry : Travels(r, d) /\ d.id = e.id => d = e

LEMMA EntryOfFrame ==
  ASSUME NEW f \in Frame
  PROVE  EntryOf(f) \in Entry /\ EntryOf(f).id = f.id /\ EntryOf(f).call = f.call
BY DEF EntryOf, Frame, Entry

(* When nothing new travels, identifiers still name one call each.         *)
LEMMA IdentifiedShrinks ==
  ASSUME TypeOK, Identified, requestId' = requestId,
         \A r \in Route : \A e \in Entry : Travels(r, e)' => Travels(r, e)
  PROVE  Identified'
BY DEF Identified

LEMMA IdentifiedGrows ==
  ASSUME TypeOK, Identified, NEW c \in Call, NEW r \in Route,
         requestId' = [requestId EXCEPT ![r] = NextEntry(c, r).id],
         \A s \in Route : \A e \in Entry :
           Travels(s, e)' => Travels(s, e) \/ (s = r /\ e = NextEntry(c, r))
  PROVE  Identified'
<1>. DEFINE n == NextEntry(c, r)
<1>1. n \in Entry /\ n.id = requestId[r] + 1 /\ requestId[r] \in Nat
  BY DEF NextEntry, Entry, TypeOK
<1>. HIDE DEF n
<1>2. ASSUME NEW s \in Route, NEW e \in Entry, Travels(s, e)'
      PROVE  /\ e.id <= requestId'[s]
             /\ \A d \in Entry : Travels(s, d)' /\ d.id = e.id => d = e
  <2>1. CASE s # r
    <3>1. requestId'[s] = requestId[s]
      BY <2>1 DEF TypeOK
    <3>. QED BY <2>1, <3>1, <1>2 DEF Identified
  <2>2. CASE s = r
    <3>1. requestId'[r] = n.id
      BY DEF TypeOK, n
    <3>2. \A d \in Entry : Travels(r, d)' => d = n \/ (Travels(r, d) /\ d.id <= requestId[r])
      BY <2>2 DEF Identified, n
    <3>3. \A d \in Entry : d.id \in Nat
      BY DEF Entry
    <3>. QED BY <3>1, <3>2, <3>3, <1>1, <1>2, <2>2 DEF Identified
  <2>. QED BY <2>1, <2>2
<1>. QED BY <1>2 DEF Identified

LEMMA IdentifiedInvoke ==
  ASSUME TypeOK, Owned, Identified, NEW c \in Call, Invoke(c)
  PROVE  Identified'
<1>1. PICK q \in Requests : \/ InvokeReuse(c, q)
                            \/ InvokeSpawn(c, q)
                            \/ InvokeAfterFailedSpawn(c, q)
                            \/ InvokeSpawnThrows(c, q)
  BY DEF Invoke
<1>. DEFINE r == RouteOf(q.op)
            n == NextEntry(c, r)
<1>2. r \in Route /\ n \in Entry
  BY IssuedType, NextEntryType
<1>. HIDE DEF r, n
<1>3. ASSUME NEW k \in Children(r), NEW life, Write(c, q, k, life), Register(c, q), stdout' = stdout
      PROVE  Identified'
  <2>1. k \in Child /\ \A s \in Route : k \in Children(s) => s = r
    BY <1>2, <1>3, RoutesAreDisjoint
  <2>2. /\ requestId' = [requestId EXCEPT ![r] = n.id]
        /\ stdin' = [stdin EXCEPT ![k] = @ \cup {n}] \/ stdin' = stdin
        /\ broken' = broken \/ broken' = broken \cup {<<r, n>>}
        /\ pending' = [pending EXCEPT ![r] = @ \cup {n}]
    BY <1>3 DEF Write, Register, r, n
  <2>3. ASSUME NEW s \in Route, NEW e \in Entry, Travels(s, e)'
        PROVE  Travels(s, e) \/ (s = r /\ e = n)
    BY <2>1, <2>2, <2>3, <1>2, <1>3, ChildrenType DEF Travels, TypeOK
  <2>. QED BY <2>2, <2>3, <1>2, IdentifiedGrows DEF n
<1>4. CASE InvokeReuse(c, q)
  <2>1. process[r] \in Children(r)
    BY <1>2, <1>4 DEF InvokeReuse, Reusable, Owned, r
  <2>. QED BY <2>1, <1>3, <1>4 DEF InvokeReuse, r
<1>5. CASE InvokeSpawn(c, q)
  BY <1>3, <1>5 DEF InvokeSpawn, r
<1>6. CASE InvokeAfterFailedSpawn(c, q)
  <2>1. /\ requestId' = [requestId EXCEPT ![r] = n.id]
        /\ broken' = broken \cup {<<r, n>>}
        /\ pending' = [pending EXCEPT ![r] = {n}]
        /\ UNCHANGED <<stdin, stdout>>
    BY <1>6 DEF InvokeAfterFailedSpawn, r, n
  <2>2. ASSUME NEW s \in Route, NEW e \in Entry, Travels(s, e)'
        PROVE  Travels(s, e) \/ (s = r /\ e = n)
    BY <2>1, <2>2, <1>2 DEF Travels, TypeOK
  <2>. QED BY <2>1, <2>2, <1>2, IdentifiedGrows DEF n
<1>7. CASE InvokeSpawnThrows(c, q)
  BY <1>7, IdentifiedShrinks DEF InvokeSpawnThrows, children, Travels
<1>. QED BY <1>1, <1>4, <1>5, <1>6, <1>7

(* Identifiers of a route only grow, and the children of a route share its *)
(* counter (++state.requestId in invokeService).                           *)
THEOREM IdentifiersAreUnique == Spec => []Identified
<1>1. Init => Identified
  BY DEF Init, Identified, Travels, Children, Child, Route
<1>2. TypeOK /\ Owned /\ Identified /\ [Next]_vars => Identified'
  <2>. SUFFICES ASSUME TypeOK, Owned, Identified, [Next]_vars PROVE Identified'
    OBVIOUS
  <2>1. ASSUME NEW c \in Call, Invoke(c) PROVE Identified'
    BY <2>1, IdentifiedInvoke
  <2>2. ASSUME requestId' = requestId,
               \A r \in Route : pending'[r] \subseteq pending[r],
               broken' \subseteq broken,
               \A k \in Child : stdin'[k] \subseteq stdin[k] /\ stdout'[k] \subseteq stdout[k]
        PROVE  Identified'
    <3>1. \A r \in Route : \A e \in Entry : Travels(r, e)' => Travels(r, e)
      BY <2>2, ChildrenType DEF Travels
    <3>. QED BY <3>1, <2>2, IdentifiedShrinks
  <2>3. ASSUME NEW k \in Child, Execute(k) PROVE Identified'
    <3>1. PICK e \in stdin[k], ok \in BOOLEAN, env \in Env \cup {NoEnv} :
            Answer(k, e, ok, env)
      BY <2>3 DEF Execute
    <3>. DEFINE g == [id |-> e.id, call |-> e.call, ok |-> ok, env |-> env]
    <3>2. e \in Entry /\ EntryOf(g) = e
      BY DEF TypeOK, Entry, EntryOf
    <3>. HIDE DEF g
    <3>3. /\ stdin' = [stdin EXCEPT ![k] = @ \ {e}]
          /\ stdout' = [stdout EXCEPT ![k] = @ \cup {g}]
          /\ UNCHANGED <<requestId, pending, broken>>
      BY <3>1 DEF Answer, adapter, g
    <3>4. \A r \in Route : \A d \in Entry : Travels(r, d)' => Travels(r, d)
      BY <3>2, <3>3, ChildrenType DEF Travels, TypeOK
    <3>. QED BY <3>3, <3>4, IdentifiedShrinks
  <2>4. ASSUME NEW k \in Child, Line(k) PROVE Identified'
    <3>1. RouteServed(k) \in Route
      BY RouteServedType
    <3>2. /\ UNCHANGED <<requestId, broken, stdin>>
          /\ \E f \in stdout[k] : ReadFrame(k, f)
      BY <2>4 DEF Line, IgnoreLine, DriftedLine, RefuseResponse, DeliverLine,
                  TakeResponse, adapter
    <3>3. \A j \in Child : stdout'[j] \subseteq stdout[j]
      BY <3>2 DEF ReadFrame, TypeOK
    <3>4. \A r \in Route : pending'[r] \subseteq pending[r]
      <4>1. CASE IgnoreLine(k)
        BY <4>1 DEF IgnoreLine, adapter
      <4>2. CASE DriftedLine(k)
        BY <4>2, <3>1 DEF DriftedLine, RefuseResponse, TypeOK
      <4>3. CASE DeliverLine(k)
        BY <4>3, <3>1 DEF DeliverLine, TakeResponse, TypeOK, Route
      <4>. QED BY <2>4, <4>1, <4>2, <4>3 DEF Line
    <3>. QED BY <2>2, <3>2, <3>3, <3>4
  <2>5. ASSUME NEW k \in Child, SpawnError(k) \/ Close(k) \/ MalformedLine(k) \/ Exit(k)
        PROVE  Identified'
    <3>1. /\ \A r \in Route : pending'[r] \subseteq pending[r]
          /\ \A j \in Child : stdin'[j] \subseteq stdin[j]
      <4>1. CASE SpawnError(k) \/ Close(k)
        BY <4>1, RouteServedType DEF SpawnError, Close, LoseCurrent, TypeOK
      <4>2. CASE MalformedLine(k)
        BY <4>2, RouteServedType DEF MalformedLine, children, TypeOK
      <4>3. CASE Exit(k)
        BY <4>3 DEF Exit, adapter, TypeOK
      <4>. QED BY <2>5, <4>1, <4>2, <4>3
    <3>2. UNCHANGED <<requestId, stdout, broken>>
      BY <2>5 DEF SpawnError, Close, LoseCurrent, MalformedLine, Exit, adapter, children
    <3>. QED BY <2>2, <3>1, <3>2
  <2>6. ASSUME NEW w \in broken, WriteError(w[1], w[2]) PROVE Identified'
    <3>1. \A r \in Route : pending'[r] \subseteq pending[r]
      BY <2>6 DEF WriteError, TypeOK
    <3>. QED BY <2>2, <2>6, <3>1 DEF WriteError
  <2>7. ASSUME InvalidateBoth, UNCHANGED <<requestId, broken, stdin, stdout>> PROVE Identified'
    BY <2>2, <2>7 DEF InvalidateBoth
  <2>8. CASE UNCHANGED vars
    BY <2>2, <2>8 DEF vars
  <2>. QED BY <2>1, <2>3, <2>4, <2>5, <2>6, <2>7, <2>8
       DEF Next, Line, FinishTransition, SetEnvironmentBinding
<1>. QED BY <1>1, <1>2, TypeCorrect, ChildrenAreOwned, PTL DEF Spec

(* A response settles the call it was computed for, for any number of      *)
(* children, calls and replacements of children (the line handler looks    *)
(* only at the identifier).                                                *)
THEOREM ResponsesAreNotMixedUp == Spec => []ResponsesReachTheirCall
<1>1. TypeOK /\ Identified => ResponsesReachTheirCall
  <2>. SUFFICES ASSUME TypeOK, Identified, NEW k \in Child, NEW f \in stdout[k],
                       NEW p \in Matches(k, f)
                PROVE  p.call = f.call
    BY DEF ResponsesReachTheirCall
  <2>1. RouteServed(k) \in Route /\ k \in Children(RouteServed(k))
    BY ServesItsRoute
  <2>2. f \in Frame /\ p \in pending[RouteServed(k)] /\ p \in Entry /\ p.id = f.id
    BY <2>1 DEF TypeOK, Matches
  <2>3. Travels(RouteServed(k), p) /\ Travels(RouteServed(k), EntryOf(f))
    BY <2>1, <2>2 DEF Travels
  <2>. QED BY <2>1, <2>2, <2>3, EntryOfFrame DEF Identified
<1>. QED BY <1>1, TypeCorrect, IdentifiersAreUnique, PTL
-----------------------------------------------------------------------------
(* The pending maps and the promises: the two halves of NoLostCall, and    *)
(* that an entry belongs to a call of its route that was issued.           *)
Registered ==
  \A c \in Call : Waiting(c) => \E e \in pending[RouteOf(call[c].op)] : e.call = c

AllWillSettle == \A r \in Route : \A e \in pending[r] : WillSettle(r, e)

OfItsRoute ==
  \A r \in Route : \A e \in pending[r] :
    call[e.call].state # "idle" /\ RouteOf(call[e.call].op) = r

LEMMA RejectEffect ==
  ASSUME NEW S, NEW calls \in [Call -> CallRecord], NEW c \in Call
  PROVE  /\ Reject(S, calls)[c].op = calls[c].op
         /\ Reject(S, calls)[c].state = "waiting" =>
              /\ Reject(S, calls)[c] = calls[c]
              /\ \A e \in S : e.call # c
         /\ calls[c].state # "waiting" => Reject(S, calls)[c] = calls[c]
         /\ calls[c].state # "idle" => Reject(S, calls)[c].state # "idle"
         /\ (\A e \in S : e.call # c) => Reject(S, calls)[c] = calls[c]
BY DEF Reject, CallRecord

LEMMA OperationsHaveARoute ==
  ASSUME NEW calls \in [Call -> CallRecord], NEW c \in Call
  PROVE  RouteOf(calls[c].op) \in Route
BY DEF RouteOf, Route

(* A step that removes entries and settles their calls forgets no call.    *)
LEMMA RegisteredSettles ==
  ASSUME TypeOK, Registered, NEW S, NEW calls \in [Call -> CallRecord],
         call' = Reject(S, calls),
         \A c \in Call : calls[c].state = "waiting" => calls[c] = call[c],
         \A r \in Route : \A e \in pending[r] :
           \/ e \in pending'[r]
           \/ \E d \in S : d.call = e.call
           \/ calls[e.call].state # "waiting"
  PROVE  Registered'
<1>. SUFFICES ASSUME NEW c \in Call, call'[c].state = "waiting"
              PROVE  \E e \in pending'[RouteOf(call'[c].op)] : e.call = c
  BY DEF Registered, Waiting
<1>1. call'[c] = calls[c] /\ \A e \in S : e.call # c
  BY RejectEffect
<1>2. calls[c] = call[c] /\ Waiting(c)
  BY <1>1 DEF Waiting
<1>3. PICK e \in pending[RouteOf(call[c].op)] : e.call = c
  BY <1>2 DEF Registered
<1>4. RouteOf(call[c].op) \in Route
  BY OperationsHaveARoute DEF TypeOK
<1>. QED BY <1>1, <1>2, <1>3, <1>4

LEMMA OfItsRouteShrinks ==
  ASSUME TypeOK, OfItsRoute,
         \A r \in Route : pending'[r] \subseteq pending[r],
         \A c \in Call : call[c].state # "idle" =>
           call'[c].state # "idle" /\ call'[c].op = call[c].op
  PROVE  OfItsRoute'
BY DEF OfItsRoute, TypeOK, Entry

LEMMA CallsInvoke ==
  ASSUME TypeOK, Registered, OfItsRoute, NEW c \in Call, Invoke(c)
  PROVE  Registered' /\ OfItsRoute'
<1>1. PICK q \in Requests : \/ InvokeReuse(c, q)
                            \/ InvokeSpawn(c, q)
                            \/ InvokeAfterFailedSpawn(c, q)
                            \/ InvokeSpawnThrows(c, q)
  BY DEF Invoke
<1>. DEFINE r == RouteOf(q.op)
            n == NextEntry(c, r)
<1>2. r \in Route /\ n \in Entry /\ n.call = c
  BY IssuedType, NextEntryType DEF NextEntry
<1>3. /\ call[c].state = "idle"
      /\ Issued(q).state = "waiting"
      /\ Issued(q).op = q.op
  BY DEF Invoke, Issued
<1>. HIDE DEF r, n
<1>4. \A s \in Route : \A e \in pending[s] : e.call \in Call /\ e.call # c
  BY <1>3 DEF OfItsRoute, TypeOK, Entry
<1>5. \A d \in Call : RouteOf(call[d].op) \in Route
  BY OperationsHaveARoute DEF TypeOK
<1>6. CASE InvokeReuse(c, q) \/ InvokeSpawn(c, q)
  <2>1. /\ pending' = [pending EXCEPT ![r] = @ \cup {n}]
        /\ call' = [call EXCEPT ![c] = Issued(q)]
    BY <1>6 DEF InvokeReuse, InvokeSpawn, Register, r, n
  <2>2. call'[c] = Issued(q) /\ \A d \in Call \ {c} : call'[d] = call[d]
    BY <2>1 DEF TypeOK
  <2>3. /\ n \in pending'[r]
        /\ \A s \in Route : pending[s] \subseteq pending'[s]
        /\ \A s \in Route : \A e \in pending'[s] : e \in pending[s] \/ (s = r /\ e = n)
    BY <2>1, <1>2 DEF TypeOK
  <2>4. Registered'
    <3>. SUFFICES ASSUME NEW d \in Call, call'[d].state = "waiting"
                  PROVE  \E e \in pending'[RouteOf(call'[d].op)] : e.call = d
      BY DEF Registered, Waiting
    <3>1. CASE d = c
      BY <3>1, <2>2, <2>3, <1>2, <1>3 DEF r
    <3>2. CASE d # c
      BY <3>2, <2>2, <2>3, <1>5 DEF Registered, Waiting
    <3>. QED BY <3>1, <3>2
  <2>5. OfItsRoute'
    <3>. SUFFICES ASSUME NEW s \in Route, NEW e \in pending'[s]
                  PROVE  call'[e.call].state # "idle" /\ RouteOf(call'[e.call].op) = s
      BY DEF OfItsRoute
    <3>1. CASE e \in pending[s]
      BY <3>1, <1>4, <2>2 DEF OfItsRoute
    <3>2. CASE s = r /\ e = n
      BY <3>2, <2>2, <1>2, <1>3 DEF r
    <3>. QED BY <3>1, <3>2, <2>3
  <2>. QED BY <2>4, <2>5
<1>7. CASE InvokeAfterFailedSpawn(c, q)
  <2>1. /\ pending' = [pending EXCEPT ![r] = {n}]
        /\ call' = [Reject(pending[r], call) EXCEPT ![c] = Issued(q)]
    BY <1>7 DEF InvokeAfterFailedSpawn, r, n
  <2>2. Reject(pending[r], call) \in [Call -> CallRecord]
    BY RejectType DEF TypeOK
  <2>3. /\ call'[c] = Issued(q)
        /\ \A d \in Call \ {c} : call'[d] = Reject(pending[r], call)[d]
    BY <2>1, <2>2
  <2>4. /\ pending'[r] = {n}
        /\ \A s \in Route \ {r} : pending'[s] = pending[s]
    BY <2>1, <1>2 DEF TypeOK
  <2>5. Registered'
    <3>. SUFFICES ASSUME NEW d \in Call, call'[d].state = "waiting"
                  PROVE  \E e \in pending'[RouteOf(call'[d].op)] : e.call = d
      BY DEF Registered, Waiting
    <3>1. CASE d = c
      BY <3>1, <2>3, <2>4, <1>2, <1>3 DEF r
    <3>2. CASE d # c
      <4>1. call'[d] = call[d] /\ \A e \in pending[r] : e.call # d
        BY <3>2, <2>3, RejectEffect DEF TypeOK
      <4>2. PICK e \in pending[RouteOf(call[d].op)] : e.call = d
        BY <4>1 DEF Registered, Waiting
      <4>. QED BY <4>1, <4>2, <2>4, <1>5
    <3>. QED BY <3>1, <3>2
  <2>6. OfItsRoute'
    <3>. SUFFICES ASSUME NEW s \in Route, NEW e \in pending'[s]
                  PROVE  call'[e.call].state # "idle" /\ RouteOf(call'[e.call].op) = s
      BY DEF OfItsRoute
    <3>1. CASE s = r
      BY <3>1, <2>3, <2>4, <1>2, <1>3 DEF r
    <3>2. CASE s # r
      <4>1. e \in pending[s] /\ e.call \in Call \ {c}
        BY <3>2, <2>4, <1>4
      <4>. QED BY <4>1, <2>3, RejectEffect DEF OfItsRoute, TypeOK
    <3>. QED BY <3>1, <3>2
  <2>. QED BY <2>5, <2>6
<1>8. CASE InvokeSpawnThrows(c, q)
  <2>1. pending' = pending
    BY <1>8 DEF InvokeSpawnThrows
  <2>2. call'[c].state = "rejected" /\ \A d \in Call \ {c} : call'[d] = call[d]
    BY <1>8 DEF InvokeSpawnThrows, TypeOK, Issued
  <2>3. Registered'
    BY <2>1, <2>2 DEF Registered, Waiting
  <2>4. OfItsRoute'
    BY <2>1, <2>2, <1>4 DEF OfItsRoute
  <2>. QED BY <2>3, <2>4
<1>. QED BY <1>1, <1>6, <1>7, <1>8

(* What every step but an invocation does to the calls: it answers some    *)
(* (giving calls), rejects those of the entries in S, and removes from the *)
(* pending maps no entry of another call.                                  *)
Settling(S, calls) ==
  /\ calls \in [Call -> CallRecord]
  /\ call' = Reject(S, calls)
  /\ \A c \in Call : /\ calls[c].state = "waiting" => calls[c] = call[c]
                     /\ call[c].state # "idle" =>
                          calls[c].state # "idle" /\ calls[c].op = call[c].op
  /\ \A r \in Route : pending'[r] \subseteq pending[r]
  /\ \A r \in Route : \A e \in pending[r] :
       \/ e \in pending'[r]
       \/ \E d \in S : d.call = e.call
       \/ calls[e.call].state # "waiting"

LEMMA SettlingPreserves ==
  ASSUME TypeOK, Registered, OfItsRoute, NEW S, NEW calls, Settling(S, calls)
  PROVE  Registered' /\ OfItsRoute'
<1>1. Registered'
  BY RegisteredSettles DEF Settling
<1>2. ASSUME NEW c \in Call, call[c].state # "idle"
      PROVE  call'[c].state # "idle" /\ call'[c].op = call[c].op
  BY <1>2, RejectEffect DEF Settling
<1>3. OfItsRoute'
  BY <1>2, OfItsRouteShrinks DEF Settling
<1>. QED BY <1>1, <1>3

(* A step that leaves the calls and the pending maps alone settles none.   *)
LEMMA NothingSettled ==
  ASSUME TypeOK, UNCHANGED <<call, pending>>
  PROVE  Settling({}, call)
<1>1. Reject({}, call) = call
  BY DEF Reject, TypeOK
<1>. QED BY <1>1 DEF Settling, TypeOK

LEMMA LoseSettles ==
  ASSUME TypeOK, NEW k \in Child, LoseCurrent(k)
  PROVE  Settling(pending[RouteServed(k)], call) \/ Settling({}, call)
<1>. DEFINE r == RouteServed(k)
<1>1. r \in Route
  BY RouteServedType
<1>. HIDE DEF r
<1>2. CASE process[r] = k
  <2>1. /\ pending' = [pending EXCEPT ![r] = {}]
        /\ call' = Reject(pending[r], call)
    BY <1>2 DEF LoseCurrent, r
  <2>. QED BY <2>1, <1>1 DEF Settling, TypeOK, r
<1>3. CASE process[r] # k
  BY <1>3, NothingSettled DEF LoseCurrent, r
<1>. QED BY <1>2, <1>3

LEMMA WriteErrorSettles ==
  ASSUME TypeOK, Identified, NEW r \in Route, NEW e \in Entry, WriteError(r, e)
  PROVE  Settling({e}, call)
<1>1. <<r, e>> \in broken /\ call' = Reject({e}, call)
      /\ pending' = [pending EXCEPT ![r] = {p \in @ : p.id # e.id}]
  BY DEF WriteError
<1>2. ASSUME NEW p \in pending[r], p.id = e.id PROVE p.call = e.call
  <2>1. Travels(r, p) /\ Travels(r, e) /\ p \in Entry
    BY <1>1, <1>2 DEF Travels, TypeOK
  <2>. QED BY <2>1, <1>2 DEF Identified
<1>. QED BY <1>1, <1>2 DEF Settling, TypeOK

LEMMA LineSettles ==
  ASSUME TypeOK, NEW k \in Child, Line(k)
  PROVE  \E S, calls : Settling(S, calls)
<1>. DEFINE r == RouteServed(k)
<1>1. r \in Route
  BY RouteServedType
<1>. HIDE DEF r
<1>2. CASE IgnoreLine(k)
  BY <1>2, NothingSettled DEF IgnoreLine, adapter
<1>3. CASE DriftedLine(k)
  <2>1. PICK f \in stdout[k] : \E p \in Matches(k, f) : RefuseResponse(k, f, p)
    BY <1>3 DEF DriftedLine
  <2>2. PICK p \in Matches(k, f) : RefuseResponse(k, f, p)
    BY <2>1
  <2>3. Settling({p}, call)
    BY <2>2, <1>1 DEF Settling, RefuseResponse, TypeOK, r
  <2>. QED BY <2>3
<1>4. CASE DeliverLine(k)
  <2>1. PICK f \in stdout[k] : \E p \in Matches(k, f) : TakeResponse(k, f, p)
    BY <1>4 DEF DeliverLine
  <2>2. PICK p \in Matches(k, f) : TakeResponse(k, f, p)
    BY <2>1
  <2>. DEFINE answered == [call EXCEPT ![p.call] = Answered(p.call, f)]
              rest == [pending EXCEPT ![r] = @ \ {p}]
  <2>3. p \in pending[r] /\ p.call \in Call
    BY <1>1 DEF Matches, TypeOK, Entry, r
  <2>4. f \in Frame
    BY DEF TypeOK
  <2>5. /\ Answered(p.call, f) \in CallRecord
        /\ Answered(p.call, f).op = call[p.call].op
        /\ Answered(p.call, f).state \in {"resuming", "resolved"}
    <3>1. call[p.call] \in CallRecord
      BY <2>3 DEF TypeOK
    <3>2. f.env \in Env \cup {NoEnv}
      BY <2>4 DEF Frame
    <3>. QED BY <3>1, <3>2 DEF Answered, CallRecord, CallState
  <2>6. answered \in [Call -> CallRecord]
    BY <2>3, <2>5 DEF TypeOK
  <2>7. /\ answered[p.call] = Answered(p.call, f)
        /\ \A c \in Call \ {p.call} : answered[c] = call[c]
    BY <2>3 DEF TypeOK
  <2>8. /\ rest[r] = pending[r] \ {p}
        /\ \A s \in Route \ {r} : rest[s] = pending[s]
        /\ rest \in [Route -> SUBSET Entry]
    BY <1>1 DEF TypeOK
  <2>. HIDE DEF answered, rest
  <2>9. CASE StalesReads(k, p, f)
    <3>1. /\ pending' = [rest EXCEPT !["read"] = {}]
          /\ call' = Reject(rest["read"], answered)
      BY <2>2, <2>9 DEF TakeResponse, answered, rest, r
    <3>2. Settling(rest["read"], answered)
      BY <3>1, <2>3, <2>5, <2>6, <2>7, <2>8 DEF Settling, Route
    <3>. QED BY <3>2
  <2>10. CASE ~ StalesReads(k, p, f)
    <3>1. pending' = rest /\ call' = answered
      BY <2>2, <2>10 DEF TakeResponse, answered, rest, r
    <3>2. Reject({}, answered) = answered
      BY <2>6 DEF Reject
    <3>3. Settling({}, answered)
      BY <3>1, <3>2, <2>3, <2>5, <2>6, <2>7, <2>8 DEF Settling
    <3>. QED BY <3>3
  <2>. QED BY <2>9, <2>10
<1>. QED BY <1>2, <1>3, <1>4 DEF Line

LEMMA RebindSettles ==
  ASSUME TypeOK, NEW calls \in [Call -> CallRecord],
         \A c \in Call : /\ calls[c].state = "waiting" => calls[c] = call[c]
                         /\ call[c].state # "idle" =>
                              calls[c].state # "idle" /\ calls[c].op = call[c].op,
         call' = Reject(pending["read"] \cup pending["write"], calls),
         InvalidateBoth
  PROVE  Settling(pending["read"] \cup pending["write"], calls)
BY DEF Settling, InvalidateBoth, Route

LEMMA FinishSettles ==
  ASSUME TypeOK, NEW c \in Call, FinishTransition(c)
  PROVE  Settling(pending["read"] \cup pending["write"], [call EXCEPT ![c].state = "resolved"])
<1>. DEFINE done == [call EXCEPT ![c].state = "resolved"]
<1>1. call[c] \in CallRecord
  BY DEF TypeOK
<1>2. /\ done \in [Call -> CallRecord]
      /\ done[c].state = "resolved" /\ done[c].op = call[c].op
      /\ \A d \in Call \ {c} : done[d] = call[d]
  BY <1>1 DEF TypeOK, CallRecord, CallState
<1>3. InvalidateBoth /\ call' = Reject(pending["read"] \cup pending["write"], done)
  BY DEF FinishTransition
<1>. HIDE DEF done
<1>4. Settling(pending["read"] \cup pending["write"], done)
  BY <1>2, <1>3, RebindSettles
<1>. QED BY <1>4 DEF done

(* Every unanswered call has its entry, and entries belong to calls that   *)
(* were issued on their route.                                             *)
THEOREM CallsStayRegistered == Spec => [](Registered /\ OfItsRoute)
<1>1. Init => Registered /\ OfItsRoute
  BY DEF Init, Registered, OfItsRoute, Waiting
<1>2. TypeOK /\ Identified /\ Registered /\ OfItsRoute /\ [Next]_vars
        => Registered' /\ OfItsRoute'
  <2>. SUFFICES ASSUME TypeOK, Identified, Registered, OfItsRoute, [Next]_vars
                PROVE  Registered' /\ OfItsRoute'
    OBVIOUS
  <2>1. ASSUME NEW c \in Call, Invoke(c) PROVE Registered' /\ OfItsRoute'
    BY <2>1, CallsInvoke
  <2>2. ASSUME NEW c \in Call, FinishTransition(c) PROVE Registered' /\ OfItsRoute'
    BY <2>2, FinishSettles, SettlingPreserves
  <2>3. ASSUME NEW env \in Env, SetEnvironmentBinding(env) PROVE Registered' /\ OfItsRoute'
    <3>1. Settling(pending["read"] \cup pending["write"], call)
      BY <2>3, RebindSettles DEF SetEnvironmentBinding, TypeOK
    <3>. QED BY <3>1, SettlingPreserves
  <2>4. ASSUME NEW w \in broken, WriteError(w[1], w[2]) PROVE Registered' /\ OfItsRoute'
    BY <2>4, WriteErrorSettles, SettlingPreserves DEF TypeOK
  <2>5. ASSUME NEW k \in Child, SpawnError(k) \/ Close(k) PROVE Registered' /\ OfItsRoute'
    BY <2>5, LoseSettles, SettlingPreserves DEF SpawnError, Close
  <2>6. ASSUME NEW k \in Child, Line(k) PROVE Registered' /\ OfItsRoute'
    BY <2>6, LineSettles, SettlingPreserves
  <2>7. ASSUME NEW k \in Child, MalformedLine(k) PROVE Registered' /\ OfItsRoute'
    <3>1. Settling(pending[RouteServed(k)], call)
      BY <2>7, RouteServedType DEF Settling, MalformedLine, TypeOK
    <3>. QED BY <3>1, SettlingPreserves
  <2>8. ASSUME UNCHANGED <<call, pending>> PROVE Registered' /\ OfItsRoute'
    BY <2>8, NothingSettled, SettlingPreserves
  <2>. QED BY <2>1, <2>2, <2>3, <2>4, <2>5, <2>6, <2>7, <2>8
       DEF Next, Line, vars, Execute, Answer, Exit, adapter
<1>. QED BY <1>1, <1>2, TypeCorrect, IdentifiersAreUnique, PTL DEF Spec
-----------------------------------------------------------------------------
(* Why no promise of the adapter is forgotten, what a rebinding does to    *)
(* them, why the transition flag does not stay up, and what the callers of *)
(* the bridge see of all this.                                             *)

LEMMA ProcessServes ==
  ASSUME Owned, NEW r \in Route, process[r] # NoChild
  PROVE  /\ process[r] \in Child
         /\ RouteServed(process[r]) = r
         /\ \A s \in Route : process[s] = process[r] => s = r
<1>1. process[r] \in Children(r)
  BY DEF Owned
<1>2. ASSUME NEW s \in Route, process[s] = process[r] PROVE s = r
  BY <1>1, <1>2, RoutesAreDisjoint DEF Owned
<1>. QED BY <1>1, <1>2, RoutesAreDisjoint

LEMMA SpawnOnlyWithoutChild ==
  ASSUME Owned, NEW r \in Route, ~ Reusable(r)
  PROVE  process[r] = NoChild
BY DEF Owned, Reusable

(* An invocation leaves its entry where an event will settle it.           *)
LEMMA SettleInvoke ==
  ASSUME TypeOK, Owned, AllWillSettle, NEW c \in Call, Invoke(c)
  PROVE  AllWillSettle'
<1>1. PICK q \in Requests : \/ InvokeReuse(c, q)
                            \/ InvokeSpawn(c, q)
                            \/ InvokeAfterFailedSpawn(c, q)
                            \/ InvokeSpawnThrows(c, q)
  BY DEF Invoke
<1>. DEFINE r == RouteOf(q.op)
            n == NextEntry(c, r)
<1>2. r \in Route /\ n \in Entry
  BY IssuedType, NextEntryType
<1>. HIDE DEF r, n
<1>3. CASE InvokeReuse(c, q)
  <2>. DEFINE k == process[r]
  <2>1. k \in Child /\ k # NoChild /\ Write(c, q, k, status[k])
    BY <1>2, <1>3, ProcessServes DEF InvokeReuse, Reusable, r
  <2>2. /\ pending' = [pending EXCEPT ![r] = @ \cup {n}]
        /\ UNCHANGED <<process, status, stdout>>
    BY <1>3 DEF InvokeReuse, Register, r, n
  <2>. HIDE DEF k
  <2>3. /\ broken \subseteq broken'
        /\ \A j \in Child : stdin[j] \subseteq stdin'[j]
        /\ \/ status[k] = "running" /\ n \in stdin'[k]
           \/ <<r, n>> \in broken'
           \/ status[k] = "exited"
    BY <2>1, <1>2 DEF Write, TypeOK, r, n
  <2>4. ASSUME NEW s \in Route, NEW e \in pending'[s] PROVE WillSettle(s, e)'
    <3>1. CASE e \in pending[s]
      <4>1. WillSettle(s, e)
        BY <3>1 DEF AllWillSettle
      <4>. QED BY <4>1, <2>2, <2>3, ProcessServes DEF WillSettle
    <3>2. CASE s = r /\ e = n
      BY <3>2, <2>1, <2>2, <2>3 DEF WillSettle, k
    <3>. QED BY <3>1, <3>2, <2>2, <1>2 DEF TypeOK
  <2>. QED BY <2>4 DEF AllWillSettle
<1>4. CASE InvokeSpawn(c, q)
  <2>1. PICK k \in Children(r), up \in {"running", "failed"} :
          /\ status[k] = "free"
          /\ status' = [status EXCEPT ![k] = up]
          /\ process' = [process EXCEPT ![r] = k]
          /\ Write(c, q, k, up)
    BY <1>4 DEF InvokeSpawn, r
  <2>2. /\ pending' = [pending EXCEPT ![r] = @ \cup {n}]
        /\ UNCHANGED <<killed, stdout>>
        /\ process[r] = NoChild
    BY <1>2, <1>4, SpawnOnlyWithoutChild DEF InvokeSpawn, Register, r, n
  <2>3. k \in Child /\ k # NoChild /\ \A s \in Route : k \in Children(s) => s = r
    BY <1>2, RoutesAreDisjoint
  <2>4. /\ broken \subseteq broken'
        /\ \A j \in Child : stdin[j] \subseteq stdin'[j]
        /\ \/ up = "running" /\ n \in stdin'[k]
           \/ <<r, n>> \in broken'
    BY <2>1, <2>3, <1>2 DEF Write, TypeOK, r, n
  <2>5. ASSUME NEW s \in Route, NEW e \in pending'[s] PROVE WillSettle(s, e)'
    <3>1. CASE e \in pending[s] /\ s = r
      BY <3>1, <2>2, <2>4 DEF AllWillSettle, WillSettle
    <3>2. CASE e \in pending[s] /\ s # r
      <4>1. WillSettle(s, e) /\ process'[s] = process[s]
        BY <3>2, <2>1 DEF AllWillSettle, TypeOK
      <4>2. process[s] # NoChild => process[s] \in Child /\ process[s] # k
        BY <3>2, <2>3, ProcessServes DEF Owned
      <4>. QED BY <4>1, <4>2, <2>1, <2>2, <2>4 DEF WillSettle, TypeOK
    <3>3. CASE s = r /\ e = n
      BY <3>3, <2>1, <2>2, <2>3, <2>4, <1>2 DEF WillSettle, TypeOK
    <3>. QED BY <3>1, <3>2, <3>3, <2>2, <1>2 DEF TypeOK
  <2>. QED BY <2>5 DEF AllWillSettle
<1>5. CASE InvokeAfterFailedSpawn(c, q)
  <2>1. PICK k \in Children(r) : status' = [status EXCEPT ![k] = "exited"]
    BY <1>5 DEF InvokeAfterFailedSpawn, r
  <2>2. /\ pending' = [pending EXCEPT ![r] = {n}]
        /\ process' = [process EXCEPT ![r] = NoChild]
        /\ broken' = broken \cup {<<r, n>>}
        /\ UNCHANGED <<stdin, stdout>>
    BY <1>5 DEF InvokeAfterFailedSpawn, r, n
  <2>3. ASSUME NEW s \in Route, NEW e \in pending'[s] PROVE WillSettle(s, e)'
    <3>1. CASE s = r
      BY <3>1, <2>2, <2>3, <1>2 DEF WillSettle, TypeOK
    <3>2. CASE s # r
      <4>1. WillSettle(s, e) /\ process'[s] = process[s]
        BY <3>2, <2>2, <2>3 DEF AllWillSettle, TypeOK
      <4>2. process[s] # NoChild => status'[process[s]] \in {status[process[s]], "exited"}
        BY <2>1, ProcessServes DEF TypeOK
      <4>. QED BY <4>1, <4>2, <2>2 DEF WillSettle
    <3>. QED BY <3>1, <3>2
  <2>. QED BY <2>3 DEF AllWillSettle
<1>6. CASE InvokeSpawnThrows(c, q)
  BY <1>6 DEF InvokeSpawnThrows, children, AllWillSettle, WillSettle
<1>. QED BY <1>1, <1>3, <1>4, <1>5, <1>6

LEMMA SettleAnswer ==
  ASSUME TypeOK, Owned, AllWillSettle, NEW k \in Child, Execute(k)
  PROVE  AllWillSettle'
<1>1. PICK d \in stdin[k], ok \in BOOLEAN, env \in Env \cup {NoEnv} : Answer(k, d, ok, env)
  BY DEF Execute
<1>. DEFINE g == [id |-> d.id, call |-> d.call, ok |-> ok, env |-> env]
<1>2. d \in Entry /\ EntryOf(g) = d
  BY DEF TypeOK, Entry, EntryOf
<1>. HIDE DEF g
<1>3. /\ stdin' = [stdin EXCEPT ![k] = @ \ {d}]
      /\ stdout' = [stdout EXCEPT ![k] = @ \cup {g}]
      /\ UNCHANGED <<process, pending, status, broken>>
  BY <1>1 DEF Answer, adapter, g
<1>4. ASSUME NEW s \in Route, NEW e \in pending'[s] PROVE WillSettle(s, e)'
  <2>1. WillSettle(s, e)
    BY <1>3, <1>4 DEF AllWillSettle
  <2>. QED BY <2>1, <1>2, <1>3, ProcessServes DEF WillSettle, TypeOK
<1>. QED BY <1>4 DEF AllWillSettle

(* The death of a child, before and after the adapter hears of it.         *)
LEMMA SettleDeath ==
  ASSUME TypeOK, Owned, AllWillSettle, NEW k \in Child,
         Exit(k) \/ SpawnError(k) \/ Close(k) \/ MalformedLine(k)
  PROVE  AllWillSettle'
<1>. DEFINE r == RouteServed(k)
<1>1. r \in Route
  BY RouteServedType
<1>. HIDE DEF r
<1>2. ASSUME NEW s \in Route, NEW e \in pending'[s] PROVE WillSettle(s, e)'
  <2>1. CASE Exit(k)
    <3>1. /\ status' = [status EXCEPT ![k] = "exited"]
          /\ stdin' = [stdin EXCEPT ![k] = {}]
          /\ UNCHANGED <<process, pending, stdout, broken>>
      BY <2>1 DEF Exit, adapter
    <3>2. WillSettle(s, e)
      BY <3>1, <1>2 DEF AllWillSettle
    <3>. QED BY <3>1, <3>2, ProcessServes DEF WillSettle, TypeOK
  <2>2. CASE SpawnError(k) \/ Close(k)
    <3>1. /\ status' = [status EXCEPT ![k] = "exited"] \/ status' = [status EXCEPT ![k] = "free"]
          /\ UNCHANGED <<stdin, stdout, broken>>
          /\ LoseCurrent(k)
      BY <2>2 DEF SpawnError, Close
    <3>2. /\ e \in pending[s] /\ process'[s] = process[s]
          /\ process[s] # k \/ process[s] = NoChild
      <4>1. CASE process[r] = k
        <5>1. /\ pending' = [pending EXCEPT ![r] = {}]
              /\ process' = [process EXCEPT ![r] = NoChild]
          BY <3>1, <4>1 DEF LoseCurrent, r
        <5>2. s # r
          BY <5>1, <1>1, <1>2 DEF TypeOK
        <5>. QED BY <5>1, <5>2, <4>1, <1>1, <1>2, ProcessServes DEF TypeOK
      <4>2. CASE process[r] # k
        <5>1. UNCHANGED <<pending, process>>
          BY <3>1, <4>2 DEF LoseCurrent, r
        <5>2. process[s] # NoChild => RouteServed(process[s]) = s
          BY ProcessServes
        <5>. QED BY <5>1, <5>2, <4>2, <1>2 DEF r
      <4>. QED BY <4>1, <4>2
    <3>3. WillSettle(s, e)
      BY <3>2 DEF AllWillSettle
    <3>. QED BY <3>1, <3>2, <3>3, ProcessServes DEF WillSettle, TypeOK
  <2>3. CASE MalformedLine(k)
    <3>1. /\ pending' = [pending EXCEPT ![r] = {}]
          /\ UNCHANGED <<process, status, stdin, stdout, broken>>
      BY <2>3 DEF MalformedLine, children, r
    <3>2. e \in pending[s]
      BY <3>1, <1>1, <1>2 DEF TypeOK
    <3>. QED BY <3>1, <3>2 DEF AllWillSettle, WillSettle
  <2>. QED BY <2>1, <2>2, <2>3
<1>. QED BY <1>2 DEF AllWillSettle

(* A response that is read settles its call, or had none.                  *)
LEMMA SettleLine ==
  ASSUME TypeOK, Owned, Identified, AllWillSettle, NEW k \in Child, Line(k)
  PROVE  AllWillSettle'
<1>. DEFINE r == RouteServed(k)
<1>1. r \in Route /\ k \in Children(r) /\ k # NoChild
  BY ServesItsRoute
<1>. HIDE DEF r
<1>2. ASSUME NEW f \in stdout[k], ReadFrame(k, f), UNCHANGED <<status, stdin, broken>>,
             \A s \in Route : \A e \in pending'[s] :
               e \in pending[s] /\ process'[s] = process[s],
             process[r] = k => EntryOf(f) \notin pending'[r]
      PROVE  AllWillSettle'
  <2>. SUFFICES ASSUME NEW s \in Route, NEW e \in pending'[s] PROVE WillSettle(s, e)'
    BY DEF AllWillSettle
  <2>1. WillSettle(s, e) /\ process'[s] = process[s]
    BY <1>2 DEF AllWillSettle
  <2>2. process[s] = k => s = r
    BY <1>1, ProcessServes DEF r
  <2>3. \A j \in Child : \A g \in stdout[j] : g \in stdout'[j] \/ (j = k /\ g = f)
    BY <1>2 DEF ReadFrame, TypeOK
  <2>. QED BY <2>1, <2>2, <2>3, <1>2, ProcessServes DEF WillSettle
<1>3. ASSUME NEW f \in stdout[k], NEW p \in Matches(k, f)
      PROVE  p \in pending[r] /\ EntryOf(f) = p
  <2>1. f \in Frame /\ p \in Entry /\ p \in pending[r] /\ p.id = f.id
    BY <1>1, <1>3 DEF Matches, TypeOK, r
  <2>2. Travels(r, p) /\ Travels(r, EntryOf(f))
    BY <2>1, <1>1 DEF Travels
  <2>. QED BY <2>1, <2>2, <1>1, EntryOfFrame DEF Identified
<1>4. CASE IgnoreLine(k)
  <2>1. PICK f \in stdout[k] : /\ ReadFrame(k, f)
                               /\ Matches(k, f) = {}
                               /\ UNCHANGED <<adapter, status, killed, stdin, broken>>
    BY <1>4 DEF IgnoreLine
  <2>2. process[r] = k => EntryOf(f) \notin pending[r]
    BY <2>1, EntryOfFrame DEF Matches, TypeOK, r
  <2>. QED BY <2>1, <2>2, <1>2 DEF adapter
<1>5. CASE DriftedLine(k)
  <2>1. PICK f \in stdout[k] : \E p \in Matches(k, f) : RefuseResponse(k, f, p)
    BY <1>5 DEF DriftedLine
  <2>2. PICK p \in Matches(k, f) : RefuseResponse(k, f, p)
    BY <2>1
  <2>3. /\ ReadFrame(k, f)
        /\ pending' = [pending EXCEPT ![r] = @ \ {p}]
        /\ UNCHANGED <<process, status, stdin, broken>>
    BY <2>2 DEF RefuseResponse, r
  <2>. QED BY <2>3, <1>1, <1>2, <1>3 DEF TypeOK
<1>6. CASE DeliverLine(k)
  <2>1. PICK f \in stdout[k] : \E p \in Matches(k, f) : TakeResponse(k, f, p)
    BY <1>6 DEF DeliverLine
  <2>2. PICK p \in Matches(k, f) : TakeResponse(k, f, p)
    BY <2>1
  <2>3. ReadFrame(k, f) /\ UNCHANGED <<status, stdin, broken>>
    BY <2>2 DEF TakeResponse
  <2>. DEFINE rest == [pending EXCEPT ![r] = @ \ {p}]
  <2>4. /\ rest[r] = pending[r] \ {p}
        /\ \A s \in Route \ {r} : rest[s] = pending[s]
        /\ rest \in [Route -> SUBSET Entry]
    BY <1>1 DEF TypeOK
  <2>. HIDE DEF rest
  <2>5. CASE StalesReads(k, p, f)
    <3>1. /\ pending' = [rest EXCEPT !["read"] = {}]
          /\ process' = [s \in Route |-> IF s \in {"read"} THEN NoChild ELSE process[s]]
      BY <2>2, <2>5 DEF TakeResponse, DropProcesses, rest, r
    <3>2. \A s \in Route : \A e \in pending'[s] : e \in rest[s] /\ process'[s] = process[s]
      BY <3>1, <2>4
    <3>. QED BY <3>2, <2>3, <2>4, <1>1, <1>2, <1>3
  <2>6. CASE ~ StalesReads(k, p, f)
    <3>1. pending' = rest /\ process' = process
      BY <2>2, <2>6 DEF TakeResponse, rest, r
    <3>. QED BY <3>1, <2>3, <2>4, <1>1, <1>2, <1>3
  <2>. QED BY <2>5, <2>6
<1>. QED BY <1>4, <1>5, <1>6 DEF Line

(* No promise is forgotten: for any number of calls and children, whatever *)
(* crashes, fails to start, is replaced or invalidated, an unanswered call *)
(* has its entry in the pending map of its route, and an entry there has   *)
(* an event coming that settles it.                                        *)
THEOREM NoCallIsLost == Spec => []NoLostCall
<1>1. Init => AllWillSettle
  BY DEF Init, AllWillSettle
<1>2. TypeOK /\ Owned /\ Identified /\ AllWillSettle /\ [Next]_vars => AllWillSettle'
  <2>. SUFFICES ASSUME TypeOK, Owned, Identified, AllWillSettle, [Next]_vars
                PROVE  AllWillSettle'
    OBVIOUS
  <2>1. ASSUME NEW c \in Call, Invoke(c) PROVE AllWillSettle'
    BY <2>1, SettleInvoke
  <2>2. ASSUME InvalidateBoth PROVE AllWillSettle'
    BY <2>2 DEF InvalidateBoth, AllWillSettle
  <2>3. ASSUME NEW w \in broken, WriteError(w[1], w[2]) PROVE AllWillSettle'
    <3>1. /\ w = <<w[1], w[2]>> /\ w[1] \in Route /\ w[2] \in Entry
          /\ broken' = broken \ {w}
          /\ pending' = [pending EXCEPT ![w[1]] = {p \in @ : p.id # w[2].id}]
          /\ UNCHANGED <<process, status, stdin, stdout>>
      BY <2>3 DEF WriteError, TypeOK
    <3>. SUFFICES ASSUME NEW s \in Route, NEW e \in pending'[s] PROVE WillSettle(s, e)'
      BY DEF AllWillSettle
    <3>2. e \in pending[s] /\ <<s, e>> # w
      BY <3>1 DEF TypeOK
    <3>. QED BY <3>1, <3>2 DEF AllWillSettle, WillSettle
  <2>4. ASSUME NEW k \in Child, Execute(k) PROVE AllWillSettle'
    BY <2>4, SettleAnswer
  <2>5. ASSUME NEW k \in Child, Exit(k) \/ SpawnError(k) \/ Close(k) \/ MalformedLine(k)
        PROVE  AllWillSettle'
    BY <2>5, SettleDeath
  <2>6. ASSUME NEW k \in Child, Line(k) PROVE AllWillSettle'
    BY <2>6, SettleLine
  <2>7. CASE UNCHANGED vars
    BY <2>7 DEF vars, AllWillSettle, WillSettle
  <2>. QED BY <2>1, <2>2, <2>3, <2>4, <2>5, <2>6, <2>7
       DEF Next, Line, FinishTransition, SetEnvironmentBinding
<1>3. Registered /\ AllWillSettle => NoLostCall
  BY DEF Registered, AllWillSettle, NoLostCall
<1>. QED BY <1>1, <1>2, <1>3, TypeCorrect, ChildrenAreOwned, IdentifiersAreUnique,
            CallsStayRegistered, PTL DEF Spec
-----------------------------------------------------------------------------
(* A rebinding rejects what is pending, and what waits is pending.         *)
LEMMA RejectingAllLeavesNoneWaiting ==
  ASSUME TypeOK, Registered, NEW calls \in [Call -> CallRecord],
         \A c \in Call : calls[c].state = "waiting" => calls[c] = call[c],
         call' = Reject(pending["read"] \cup pending["write"], calls)
  PROVE  \A c \in Call : ~ Waiting(c)'
<1>. SUFFICES ASSUME NEW c \in Call, call'[c].state = "waiting" PROVE FALSE
  BY DEF Waiting
<1>. DEFINE S == pending["read"] \cup pending["write"]
<1>1. calls[c].state = "waiting" /\ \A e \in S : e.call # c
  BY RejectEffect
<1>2. Waiting(c) /\ RouteOf(call[c].op) \in {"read", "write"}
  BY <1>1 DEF Waiting, RouteOf
<1>. QED BY <1>1, <1>2 DEF Registered

(* No call issued under the old binding is still waiting after a load, a   *)
(* revert or an explicit rebinding: setEnvironmentBinding,                 *)
(* loadEnvironmentImage and revertEnvironmentToImage invalidate both       *)
(* routes, and every waiting call is registered on one of them.            *)
THEOREM RebindingIsAlwaysABarrier == Spec => RebindingIsABarrier
<1>1. TypeOK /\ Registered /\ [Next]_vars
        => [Rebinding => \A c \in Call : ~ Waiting(c)']_vars
  <2>. SUFFICES ASSUME TypeOK, Registered, Rebinding PROVE \A c \in Call : ~ Waiting(c)'
    OBVIOUS
  <2>1. ASSUME NEW env \in Env, SetEnvironmentBinding(env) PROVE \A c \in Call : ~ Waiting(c)'
    BY <2>1, RejectingAllLeavesNoneWaiting DEF SetEnvironmentBinding, TypeOK
  <2>2. ASSUME NEW d \in Call, FinishTransition(d) PROVE \A c \in Call : ~ Waiting(c)'
    <3>. DEFINE done == [call EXCEPT ![d].state = "resolved"]
    <3>1. Settling(pending["read"] \cup pending["write"], done)
      BY <2>2, FinishSettles
    <3>. HIDE DEF done
    <3>. QED BY <3>1, RejectingAllLeavesNoneWaiting DEF Settling
  <2>. QED BY <2>1, <2>2 DEF Rebinding
<1>. QED BY <1>1, TypeCorrect, CallsStayRegistered, PTL DEF Spec, RebindingIsABarrier
-----------------------------------------------------------------------------
Loading(calls, c) == calls[c].op = "load-image" /\ calls[c].state \in {"waiting", "resuming"}

(* A load under way stays under way unless its own entry is rejected.      *)
LEMMA LoadSurvives ==
  ASSUME TypeOK, NEW S, NEW calls \in [Call -> CallRecord], call' = Reject(S, calls),
         NEW c \in Call, Loading(call, c), Loading(calls, c),
         call[c].state = "waiting" => \A e \in S : e.call # c,
         calls[c].state = "waiting" => call[c].state = "waiting"
  PROVE  Loading(call', c)
<1>1. CASE calls[c].state = "waiting"
  <2>1. \A e \in S : e.call # c
    BY <1>1
  <2>2. call'[c] = calls[c]
    BY <2>1, RejectEffect
  <2>. QED BY <2>2 DEF Loading
<1>2. CASE calls[c].state = "resuming"
  <2>1. call'[c] = calls[c]
    BY <1>2, RejectEffect
  <2>. QED BY <2>1 DEF Loading
<1>. QED BY <1>1, <1>2 DEF Loading

FlagBacked == transitionInFlight => \E c \in Call : Loading(call, c)

LEMMA FlagReject ==
  ASSUME TypeOK, FlagBacked, NEW S, call' = Reject(S, call),
         transitionInFlight' = FlagAfterReject(S, transitionInFlight)
  PROVE  FlagBacked'
<1>. SUFFICES ASSUME transitionInFlight' PROVE \E c \in Call : Loading(call', c)
  BY DEF FlagBacked
<1>1. PICK c \in Call : Loading(call, c)
  BY DEF FlagBacked, FlagAfterReject
<1>2. call[c].state = "waiting" => \A e \in S : e.call # c
  BY <1>1 DEF FlagAfterReject, Loading
<1>. QED BY <1>1, <1>2, LoadSurvives DEF TypeOK

LEMMA FlagInvoke ==
  ASSUME TypeOK, FlagBacked, NEW c \in Call, Invoke(c)
  PROVE  FlagBacked'
<1>1. PICK q \in Requests : \/ InvokeReuse(c, q)
                            \/ InvokeSpawn(c, q)
                            \/ InvokeAfterFailedSpawn(c, q)
                            \/ InvokeSpawnThrows(c, q)
  BY DEF Invoke
<1>2. call[c].state = "idle" /\ Issued(q).op = q.op /\ Issued(q).state = "waiting"
  BY DEF Invoke, Issued
<1>3. \A d \in Call : Loading(call, d) => d # c
  BY <1>2 DEF Loading
<1>4. CASE InvokeReuse(c, q) \/ InvokeSpawn(c, q)
  <2>1. /\ call'[c] = Issued(q)
        /\ \A d \in Call \ {c} : call'[d] = call[d]
        /\ transitionInFlight' = (transitionInFlight \/ q.op = "load-image")
    BY <1>4 DEF InvokeReuse, InvokeSpawn, Register, TypeOK
  <2>. QED BY <2>1, <1>2, <1>3 DEF FlagBacked, Loading
<1>5. CASE InvokeAfterFailedSpawn(c, q)
  <2>. DEFINE S == pending[RouteOf(q.op)]
  <2>1. /\ call' = [Reject(S, call) EXCEPT ![c] = Issued(q)]
        /\ transitionInFlight' = (q.op = "load-image" \/ FlagAfterReject(S, transitionInFlight))
    BY <1>5 DEF InvokeAfterFailedSpawn
  <2>. HIDE DEF S
  <2>2. Reject(S, call) \in [Call -> CallRecord]
    BY RejectType DEF TypeOK
  <2>3. call'[c] = Issued(q) /\ \A d \in Call \ {c} : call'[d] = Reject(S, call)[d]
    BY <2>1, <2>2
  <2>4. CASE q.op = "load-image"
    BY <2>3, <2>4, <1>2 DEF FlagBacked, Loading
  <2>5. CASE q.op # "load-image"
    <3>. SUFFICES ASSUME transitionInFlight' PROVE \E d \in Call : Loading(call', d)
      BY DEF FlagBacked
    <3>1. FlagAfterReject(S, transitionInFlight)
      BY <2>1, <2>5
    <3>2. PICK d \in Call : Loading(call, d)
      BY <3>1 DEF FlagBacked, FlagAfterReject
    <3>3. call[d].state = "waiting" => \A e \in S : e.call # d
      BY <3>1, <3>2 DEF FlagAfterReject, Loading
    <3>4. Reject(S, call)[d] = call[d]
      BY <3>2, <3>3, RejectEffect DEF Loading, TypeOK
    <3>. QED BY <3>2, <3>4, <2>3, <1>3 DEF Loading
  <2>. QED BY <2>4, <2>5
<1>6. CASE InvokeSpawnThrows(c, q)
  <2>1. /\ \A d \in Call \ {c} : call'[d] = call[d]
        /\ transitionInFlight' = (transitionInFlight /\ q.op # "load-image")
    BY <1>6 DEF InvokeSpawnThrows, TypeOK
  <2>. QED BY <2>1, <1>3 DEF FlagBacked, Loading
<1>. QED BY <1>1, <1>4, <1>5, <1>6

LEMMA FlagDeliver ==
  ASSUME TypeOK, OfItsRoute, FlagBacked, NEW k \in Child, DeliverLine(k)
  PROVE  FlagBacked'
<1>1. PICK f \in stdout[k] : \E p \in Matches(k, f) : TakeResponse(k, f, p)
  BY DEF DeliverLine
<1>2. PICK p \in Matches(k, f) : TakeResponse(k, f, p)
  BY <1>1
<1>. DEFINE r == RouteServed(k)
            answered == [call EXCEPT ![p.call] = Answered(p.call, f)]
            rest == [pending EXCEPT ![r] = @ \ {p}]
<1>3. r \in Route /\ p \in pending[r] /\ p.call \in Call
  BY RouteServedType DEF Matches, TypeOK, Entry
<1>4. transitionInFlight' = transitionInFlight
  BY <1>2 DEF TakeResponse
<1>5. answered \in [Call -> CallRecord]
  <2>1. call[p.call] \in CallRecord /\ f \in Frame
    BY <1>3 DEF TypeOK
  <2>2. Answered(p.call, f) \in CallRecord
    BY <2>1 DEF Answered, CallRecord, CallState, Frame
  <2>. QED BY <2>2, <1>3 DEF TypeOK
<1>6. \A c \in Call : Loading(call, c) =>
        /\ Loading(answered, c)
        /\ answered[c].state = "waiting" => call[c].state = "waiting"
  <2>1. call[p.call] \in CallRecord
    BY <1>3 DEF TypeOK
  <2>2. Loading(call, p.call) => /\ Answered(p.call, f).op = "load-image"
                                 /\ Answered(p.call, f).state = "resuming"
    BY <2>1 DEF Loading, Answered, Transition, CallRecord
  <2>3. answered[p.call] = Answered(p.call, f) /\ \A c \in Call \ {p.call} : answered[c] = call[c]
    BY <1>3 DEF TypeOK
  <2>. QED BY <2>2, <2>3 DEF Loading
<1>7. rest["read"] \subseteq pending["read"] /\ "read" \in Route
  BY <1>3 DEF TypeOK, Route
<1>. HIDE DEF answered, rest, r
<1>8. \A c \in Call : Loading(call, c) => \A e \in rest["read"] : e.call # c
  BY <1>7 DEF OfItsRoute, RouteOf, Loading
<1>9. call' = Reject(rest["read"], answered) \/ call' = answered
  BY <1>2 DEF TakeResponse, answered, rest, r
<1>. SUFFICES ASSUME NEW c \in Call, Loading(call, c) PROVE Loading(call', c)
  BY <1>4 DEF FlagBacked
<1>10. CASE call' = answered
  BY <1>6, <1>10
<1>11. CASE call' = Reject(rest["read"], answered)
  BY <1>5, <1>6, <1>8, <1>11, LoadSurvives
<1>. QED BY <1>9, <1>10, <1>11

(* The transition flag is up only while a load is under way: whichever way *)
(* a load ends (its response, a failed write, the death of its child, a    *)
(* rebinding), the finally of loadEnvironmentImage has lowered it.         *)
THEOREM TransitionFlagIsLowered == Spec => []NoStuckTransition
<1>1. Init => FlagBacked
  BY DEF Init, FlagBacked
<1>2. TypeOK /\ OfItsRoute /\ FlagBacked /\ [Next]_vars => FlagBacked'
  <2>. SUFFICES ASSUME TypeOK, OfItsRoute, FlagBacked, [Next]_vars PROVE FlagBacked'
    OBVIOUS
  <2>1. ASSUME NEW c \in Call, Invoke(c) PROVE FlagBacked'
    BY <2>1, FlagInvoke
  <2>2. ASSUME NEW c \in Call, FinishTransition(c) PROVE FlagBacked'
    <3>. DEFINE done == [call EXCEPT ![c].state = "resolved"]
                S == pending["read"] \cup pending["write"]
    <3>1. Settling(S, done)
      BY <2>2, FinishSettles
    <3>2. transitionInFlight' =
            (call[c].op # "load-image" /\ FlagAfterReject(S, transitionInFlight))
      BY <2>2 DEF FinishTransition
    <3>3. \A d \in Call \ {c} : done[d] = call[d]
      BY DEF TypeOK
    <3>. HIDE DEF done, S
    <3>. SUFFICES ASSUME transitionInFlight' PROVE \E d \in Call : Loading(call', d)
      BY DEF FlagBacked
    <3>4. PICK d \in Call : Loading(call, d)
      BY <3>2 DEF FlagBacked, FlagAfterReject
    <3>5. d # c
      BY <3>2, <3>4 DEF Loading
    <3>6. call[d].state = "waiting" => \A e \in S : e.call # d
      BY <3>2, <3>4 DEF FlagAfterReject, Loading
    <3>7. done[d] = call[d]
      BY <3>3, <3>5
    <3>8. Loading(done, d)
      BY <3>4, <3>7 DEF Loading
    <3>. QED BY <3>1, <3>4, <3>6, <3>7, <3>8, LoadSurvives DEF Settling
  <2>3. ASSUME NEW env \in Env, SetEnvironmentBinding(env) PROVE FlagBacked'
    BY <2>3, FlagReject DEF SetEnvironmentBinding
  <2>4. ASSUME NEW w \in broken, WriteError(w[1], w[2]) PROVE FlagBacked'
    BY <2>4, FlagReject DEF WriteError
  <2>5. ASSUME NEW k \in Child, SpawnError(k) \/ Close(k) PROVE FlagBacked'
    <3>1. LoseCurrent(k)
      BY <2>5 DEF SpawnError, Close
    <3>2. CASE process[RouteServed(k)] = k
      BY <3>1, <3>2, FlagReject DEF LoseCurrent
    <3>3. CASE process[RouteServed(k)] # k
      BY <3>1, <3>3 DEF LoseCurrent, FlagBacked
    <3>. QED BY <3>2, <3>3
  <2>6. ASSUME NEW k \in Child, DriftedLine(k) PROVE FlagBacked'
    <3>1. PICK f \in stdout[k] : \E p \in Matches(k, f) : RefuseResponse(k, f, p)
      BY <2>6 DEF DriftedLine
    <3>2. PICK p \in Matches(k, f) : RefuseResponse(k, f, p)
      BY <3>1
    <3>3. /\ call' = Reject({p}, call)
          /\ transitionInFlight' = transitionInFlight
          /\ call[p.call].op # "load-image"
      BY <3>2 DEF RefuseResponse, Drifts, Transition
    <3>4. transitionInFlight' = FlagAfterReject({p}, transitionInFlight)
      BY <3>3 DEF FlagAfterReject, TypeOK
    <3>. QED BY <3>3, <3>4, FlagReject
  <2>7. ASSUME NEW k \in Child, DeliverLine(k) PROVE FlagBacked'
    BY <2>7, FlagDeliver
  <2>8. ASSUME NEW k \in Child, MalformedLine(k) PROVE FlagBacked'
    BY <2>8, FlagReject DEF MalformedLine
  <2>9. ASSUME UNCHANGED <<call, transitionInFlight>> PROVE FlagBacked'
    BY <2>9 DEF FlagBacked
  <2>. QED BY <2>1, <2>2, <2>3, <2>4, <2>5, <2>6, <2>7, <2>8, <2>9
       DEF Next, vars, Execute, Answer, Exit, IgnoreLine, adapter
<1>3. FlagBacked => NoStuckTransition
  BY DEF FlagBacked, NoStuckTransition, Loading
<1>. QED BY <1>1, <1>2, <1>3, TypeCorrect, CallsStayRegistered, PTL DEF Spec
-----------------------------------------------------------------------------
(***************************************************************************)
(* What the callers of the bridge see: the adapter implements the safety   *)
(* part of ServiceCalls, so no promise is settled twice and none changes   *)
(* its mind, and the answer to a call that names an environment does not   *)
(* bind the adapter to another.                                            *)
(***************************************************************************)

(* The entries through which the adapter itself may settle a call.         *)
Awaited(r, e) == e \in pending[r] \/ <<r, e>> \in broken

(* A call has at most one of them, ever, and is unanswered while it is in  *)
(* a pending map.                                                          *)
OneEntryPerCall ==
  \A r \in Route : \A e \in Entry : Awaited(r, e) =>
    /\ call[e.call].state # "idle"
    /\ \A s \in Route : \A d \in Entry : Awaited(s, d) /\ d.call = e.call => s = r /\ d = e

PendingMeansWaiting == \A r \in Route : \A e \in pending[r] : call[e.call].state = "waiting"

SingleEntry == OneEntryPerCall /\ PendingMeansWaiting

(* Where the state of a call may go in one step.                           *)
Successors(s) ==
  CASE s = "idle"     -> {"idle", "waiting", "rejected"}
    [] s = "waiting"  -> CallState \ {"idle"}
    [] s = "resuming" -> {"resuming", "resolved"}
    [] OTHER          -> {s}

CallsMove == \A c \in Call : call'[c].state \in Successors(call[c].state)

(* A step that may only end the calls of the entries it removes.           *)
Ending(S, calls) ==
  /\ calls \in [Call -> CallRecord]
  /\ call' = Reject(S, calls)
  /\ \A c \in Call : /\ calls[c].state \in Successors(call[c].state)
                     /\ calls[c].state = "waiting" => call[c].state = "waiting"
                     /\ call[c].state # "idle" => calls[c].state # "idle"
  /\ \A r \in Route : pending'[r] \subseteq pending[r]
  /\ broken' \subseteq broken
  /\ \A r \in Route : \A e \in pending'[r] :
       (\A d \in S : d.call # e.call) /\ calls[e.call] = call[e.call]

LEMMA EndingPreserves ==
  ASSUME TypeOK, SingleEntry, NEW S, NEW calls, Ending(S, calls)
  PROVE  SingleEntry' /\ CallsMove
<1>1. \A c \in Call : call[c].state # "idle" => call'[c].state # "idle"
  BY RejectEffect DEF Ending
<1>2. \A r \in Route : \A e \in Entry : Awaited(r, e)' => Awaited(r, e)
  BY DEF Ending, Awaited
<1>3. OneEntryPerCall'
  BY <1>1, <1>2 DEF SingleEntry, OneEntryPerCall, Entry
<1>4. PendingMeansWaiting'
  <2>. SUFFICES ASSUME NEW r \in Route, NEW e \in pending'[r]
                PROVE  call'[e.call].state = "waiting"
    BY DEF PendingMeansWaiting
  <2>1. e \in pending[r] /\ e.call \in Call /\ call[e.call].state = "waiting"
    BY DEF Ending, SingleEntry, PendingMeansWaiting, TypeOK, Entry
  <2>. QED BY <2>1, RejectEffect DEF Ending
<1>5. CallsMove
  <2>. SUFFICES ASSUME NEW c \in Call PROVE call'[c].state \in Successors(call[c].state)
    BY DEF CallsMove
  <2>1. \/ call'[c] = calls[c]
        \/ calls[c].state = "waiting" /\ call'[c].state = "rejected"
    BY DEF Ending, Reject, CallRecord
  <2>2. "rejected" \in Successors("waiting")
    BY DEF Successors, CallState
  <2>. QED BY <2>1, <2>2 DEF Ending
<1>. QED BY <1>3, <1>4, <1>5 DEF SingleEntry

LEMMA StayingIsAMove ==
  ASSUME TypeOK, NEW c \in Call
  PROVE  call[c].state \in Successors(call[c].state)
BY DEF TypeOK, CallRecord, CallState, Successors

LEMMA UnchangedEnds ==
  ASSUME TypeOK, UNCHANGED <<call, pending, broken>>
  PROVE  Ending({}, call)
<1>1. Reject({}, call) = call
  BY DEF Reject, TypeOK
<1>. QED BY <1>1, StayingIsAMove DEF Ending, TypeOK

(* Rejecting all calls of a route that loses its entries.                  *)
LEMMA RejectingARouteEnds ==
  ASSUME TypeOK, SingleEntry, NEW r \in Route, call' = Reject(pending[r], call),
         pending' = [pending EXCEPT ![r] = {}], broken' = broken
  PROVE  Ending(pending[r], call)
<1>1. /\ pending'[r] = {}
      /\ \A s \in Route \ {r} : pending'[s] = pending[s]
  BY DEF TypeOK
<1>2. ASSUME NEW s \in Route, NEW e \in pending'[s], NEW d \in pending[r]
      PROVE  d.call # e.call
  <2>1. s # r /\ e \in pending[s] /\ e \in Entry /\ d \in Entry
    BY <1>1, <1>2 DEF TypeOK
  <2>. QED BY <2>1 DEF SingleEntry, OneEntryPerCall, Awaited
<1>. QED BY <1>1, <1>2, StayingIsAMove DEF Ending, TypeOK

LEMMA InvokeMoves ==
  ASSUME TypeOK, SingleEntry, NEW c \in Call, Invoke(c)
  PROVE  SingleEntry' /\ CallsMove
<1>1. PICK q \in Requests : \/ InvokeReuse(c, q)
                            \/ InvokeSpawn(c, q)
                            \/ InvokeAfterFailedSpawn(c, q)
                            \/ InvokeSpawnThrows(c, q)
  BY DEF Invoke
<1>. DEFINE r == RouteOf(q.op)
            n == NextEntry(c, r)
<1>2. r \in Route /\ n \in Entry /\ n.call = c
  BY IssuedType, NextEntryType DEF NextEntry
<1>3. call[c].state = "idle" /\ Issued(q).state = "waiting"
  BY DEF Invoke, Issued
<1>. HIDE DEF r, n
<1>4. \A s \in Route : \A e \in Entry : Awaited(s, e) => e.call \in Call \ {c}
  BY <1>3 DEF SingleEntry, OneEntryPerCall, Entry
<1>5. {"waiting", "rejected"} \subseteq Successors("idle")
  BY DEF Successors
<1>6. CASE InvokeReuse(c, q) \/ InvokeSpawn(c, q)
  <2>1. /\ pending' = [pending EXCEPT ![r] = @ \cup {n}]
        /\ broken' = broken \/ broken' = broken \cup {<<r, n>>}
        /\ call' = [call EXCEPT ![c] = Issued(q)]
    BY <1>6 DEF InvokeReuse, InvokeSpawn, Register, Write, r, n
  <2>2. call'[c] = Issued(q) /\ \A d \in Call \ {c} : call'[d] = call[d]
    BY <2>1 DEF TypeOK
  <2>3. \A s \in Route : \A e \in Entry : Awaited(s, e)' => Awaited(s, e) \/ (s = r /\ e = n)
    BY <2>1, <1>2 DEF Awaited, TypeOK
  <2>4. OneEntryPerCall'
    BY <2>2, <2>3, <1>2, <1>3, <1>4 DEF SingleEntry, OneEntryPerCall
  <2>5. PendingMeansWaiting'
    <3>. SUFFICES ASSUME NEW s \in Route, NEW e \in pending'[s]
                  PROVE  call'[e.call].state = "waiting"
      BY DEF PendingMeansWaiting
    <3>1. e \in pending[s] \/ e = n
      BY <2>1, <1>2 DEF TypeOK
    <3>2. e \in pending[s] => e.call \in Call \ {c}
      BY <1>4 DEF Awaited, TypeOK
    <3>. QED BY <3>1, <3>2, <2>2, <1>2, <1>3 DEF SingleEntry, PendingMeansWaiting
  <2>6. CallsMove
    BY <2>2, <1>3, <1>5, StayingIsAMove DEF CallsMove
  <2>. QED BY <2>4, <2>5, <2>6 DEF SingleEntry
<1>7. CASE InvokeAfterFailedSpawn(c, q)
  <2>1. /\ pending' = [pending EXCEPT ![r] = {n}]
        /\ broken' = broken \cup {<<r, n>>}
        /\ call' = [Reject(pending[r], call) EXCEPT ![c] = Issued(q)]
    BY <1>7 DEF InvokeAfterFailedSpawn, r, n
  <2>2. Reject(pending[r], call) \in [Call -> CallRecord]
    BY RejectType DEF TypeOK
  <2>3. call'[c] = Issued(q) /\ \A d \in Call \ {c} : call'[d] = Reject(pending[r], call)[d]
    BY <2>1, <2>2
  <2>4. \A s \in Route : \A e \in Entry : Awaited(s, e)' => Awaited(s, e) \/ (s = r /\ e = n)
    BY <2>1, <1>2 DEF Awaited, TypeOK
  <2>5. \A d \in Call \ {c} : call[d].state # "idle" => call'[d].state # "idle"
    BY <2>3, RejectEffect DEF TypeOK
  <2>6. OneEntryPerCall'
    BY <2>3, <2>4, <2>5, <1>2, <1>3, <1>4 DEF SingleEntry, OneEntryPerCall
  <2>7. PendingMeansWaiting'
    <3>. SUFFICES ASSUME NEW s \in Route, NEW e \in pending'[s]
                  PROVE  call'[e.call].state = "waiting"
      BY DEF PendingMeansWaiting
    <3>1. CASE s = r
      BY <3>1, <2>1, <2>3, <1>2, <1>3 DEF TypeOK
    <3>2. CASE s # r
      <4>1. e \in pending[s] /\ e \in Entry /\ e.call \in Call \ {c}
        BY <3>2, <2>1, <1>4 DEF Awaited, TypeOK
      <4>2. \A d \in pending[r] : d \in Entry /\ d.call # e.call
        BY <3>2, <4>1, <1>2 DEF SingleEntry, OneEntryPerCall, Awaited, TypeOK
      <4>3. Reject(pending[r], call)[e.call] = call[e.call]
        BY <4>1, <4>2, RejectEffect DEF TypeOK
      <4>. QED BY <4>1, <4>3, <2>3 DEF SingleEntry, PendingMeansWaiting
    <3>. QED BY <3>1, <3>2
  <2>8. CallsMove
    <3>. SUFFICES ASSUME NEW d \in Call PROVE call'[d].state \in Successors(call[d].state)
      BY DEF CallsMove
    <3>1. "rejected" \in Successors("waiting")
      BY DEF Successors, CallState
    <3>2. \/ Reject(pending[r], call)[d] = call[d]
          \/ call[d].state = "waiting" /\ Reject(pending[r], call)[d].state = "rejected"
      BY DEF Reject, TypeOK, CallRecord
    <3>. QED BY <3>1, <3>2, <2>3, <1>3, <1>5, StayingIsAMove
  <2>. QED BY <2>6, <2>7, <2>8 DEF SingleEntry
<1>8. CASE InvokeSpawnThrows(c, q)
  <2>1. UNCHANGED <<pending, broken>>
    BY <1>8 DEF InvokeSpawnThrows, children
  <2>2. call'[c].state = "rejected" /\ \A d \in Call \ {c} : call'[d] = call[d]
    BY <1>8 DEF InvokeSpawnThrows, TypeOK, Issued
  <2>3. OneEntryPerCall'
    BY <2>1, <2>2, <1>4 DEF SingleEntry, OneEntryPerCall, Awaited
  <2>4. PendingMeansWaiting'
    <3>1. \A s \in Route : \A e \in pending[s] : e.call \in Call \ {c}
      BY <1>4 DEF Awaited, TypeOK
    <3>. QED BY <2>1, <2>2, <3>1 DEF SingleEntry, PendingMeansWaiting
  <2>. QED BY <2>2, <2>3, <2>4, <1>3, <1>5, StayingIsAMove DEF CallsMove, SingleEntry
<1>. QED BY <1>1, <1>6, <1>7, <1>8

LEMMA LineEnds ==
  ASSUME TypeOK, SingleEntry, NEW k \in Child, Line(k)
  PROVE  \E S, calls : Ending(S, calls)
<1>. DEFINE r == RouteServed(k)
<1>1. r \in Route
  BY RouteServedType
<1>. HIDE DEF r
<1>2. CASE IgnoreLine(k)
  BY <1>2, UnchangedEnds DEF IgnoreLine, adapter
<1>3. CASE DriftedLine(k)
  <2>1. PICK f \in stdout[k] : \E p \in Matches(k, f) : RefuseResponse(k, f, p)
    BY <1>3 DEF DriftedLine
  <2>2. PICK p \in Matches(k, f) : RefuseResponse(k, f, p)
    BY <2>1
  <2>3. /\ pending' = [pending EXCEPT ![r] = @ \ {p}]
        /\ call' = Reject({p}, call)
        /\ broken' = broken
        /\ p \in pending[r] /\ p \in Entry
    BY <2>2, <1>1 DEF RefuseResponse, Matches, TypeOK, r
  <2>4. ASSUME NEW s \in Route, NEW e \in pending'[s] PROVE e.call # p.call /\ e \in pending[s]
    <3>1. e \in pending[s] /\ e \in Entry /\ ~ (s = r /\ e = p)
      BY <2>3, <2>4, <1>1 DEF TypeOK
    <3>. QED BY <3>1, <2>3, <1>1 DEF SingleEntry, OneEntryPerCall, Awaited
  <2>5. Ending({p}, call)
    BY <2>3, <2>4, StayingIsAMove DEF Ending, TypeOK
  <2>. QED BY <2>5
<1>4. CASE DeliverLine(k)
  <2>1. PICK f \in stdout[k] : \E p \in Matches(k, f) : TakeResponse(k, f, p)
    BY <1>4 DEF DeliverLine
  <2>2. PICK p \in Matches(k, f) : TakeResponse(k, f, p)
    BY <2>1
  <2>. DEFINE answered == [call EXCEPT ![p.call] = Answered(p.call, f)]
              rest == [pending EXCEPT ![r] = @ \ {p}]
  <2>3. p \in pending[r] /\ p \in Entry /\ p.call \in Call /\ call[p.call].state = "waiting"
    BY <1>1 DEF Matches, TypeOK, Entry, r, SingleEntry, PendingMeansWaiting
  <2>4. /\ Answered(p.call, f) \in CallRecord
        /\ Answered(p.call, f).state \in {"resuming", "resolved"}
    <3>1. call[p.call] \in CallRecord /\ f \in Frame
      BY <2>3 DEF TypeOK
    <3>. QED BY <3>1 DEF Answered, CallRecord, CallState, Frame
  <2>5. answered \in [Call -> CallRecord]
    BY <2>3, <2>4 DEF TypeOK
  <2>6. /\ answered[p.call] = Answered(p.call, f)
        /\ \A c \in Call \ {p.call} : answered[c] = call[c]
    BY <2>3 DEF TypeOK
  <2>7. /\ rest[r] = pending[r] \ {p}
        /\ \A s \in Route \ {r} : rest[s] = pending[s]
        /\ rest \in [Route -> SUBSET Entry]
    BY <1>1 DEF TypeOK
  <2>. HIDE DEF answered, rest
  <2>8. \A c \in Call : /\ answered[c].state \in Successors(call[c].state)
                        /\ answered[c].state = "waiting" => call[c].state = "waiting"
                        /\ call[c].state # "idle" => answered[c].state # "idle"
    <3>1. {"resuming", "resolved"} \subseteq Successors("waiting")
      BY DEF Successors, CallState
    <3>. QED BY <3>1, <2>3, <2>4, <2>6, StayingIsAMove
  <2>9. \A s \in Route : \A e \in rest[s] : /\ e \in pending[s] /\ e \in Entry
                                            /\ answered[e.call] = call[e.call]
    <3>. SUFFICES ASSUME NEW s \in Route, NEW e \in rest[s]
                  PROVE  /\ e \in pending[s] /\ e \in Entry
                         /\ answered[e.call] = call[e.call]
      OBVIOUS
    <3>1. e \in pending[s] /\ e \in Entry /\ ~ (s = r /\ e = p)
      BY <2>7 DEF TypeOK
    <3>2. e.call # p.call
      BY <3>1, <2>3, <1>1 DEF SingleEntry, OneEntryPerCall, Awaited
    <3>. QED BY <3>1, <3>2, <2>6 DEF Entry
  <2>10. broken' = broken
    BY <2>2 DEF TakeResponse
  <2>11. CASE StalesReads(k, p, f)
    <3>1. /\ pending' = [rest EXCEPT !["read"] = {}]
          /\ call' = Reject(rest["read"], answered)
      BY <2>2, <2>11 DEF TakeResponse, answered, rest, r
    <3>2. \A s \in Route : \A e \in pending'[s] : s # "read" /\ e \in rest[s]
      BY <3>1, <2>7 DEF Route
    <3>3. \A s \in Route : \A e \in pending'[s] : \A d \in rest["read"] : d.call # e.call
      BY <3>2, <2>9 DEF SingleEntry, OneEntryPerCall, Awaited, Route
    <3>4. Ending(rest["read"], answered)
      BY <3>1, <3>2, <3>3, <2>5, <2>8, <2>9, <2>10 DEF Ending
    <3>. QED BY <3>4
  <2>12. CASE ~ StalesReads(k, p, f)
    <3>1. pending' = rest /\ call' = answered
      BY <2>2, <2>12 DEF TakeResponse, answered, rest, r
    <3>2. Reject({}, answered) = answered
      BY <2>5 DEF Reject
    <3>3. Ending({}, answered)
      BY <3>1, <3>2, <2>5, <2>8, <2>9, <2>10 DEF Ending
    <3>. QED BY <3>3
  <2>. QED BY <2>11, <2>12
<1>. QED BY <1>2, <1>3, <1>4 DEF Line

LEMMA WriteErrorEnds ==
  ASSUME TypeOK, Identified, SingleEntry, NEW r \in Route, NEW e \in Entry, WriteError(r, e)
  PROVE  Ending({e}, call)
<1>1. /\ <<r, e>> \in broken /\ broken' \subseteq broken
      /\ call' = Reject({e}, call)
      /\ pending' = [pending EXCEPT ![r] = {p \in @ : p.id # e.id}]
  BY DEF WriteError
<1>2. ASSUME NEW s \in Route, NEW d \in pending'[s] PROVE d \in pending[s] /\ d.call # e.call
  <2>1. d \in pending[s] /\ d \in Entry /\ ~ (s = r /\ d = e)
    BY <1>1, <1>2 DEF TypeOK
  <2>. QED BY <2>1, <1>1 DEF SingleEntry, OneEntryPerCall, Awaited
<1>. QED BY <1>1, <1>2, StayingIsAMove DEF Ending, TypeOK

(* A rebinding ends every call that has an entry, and maybe answers one.   *)
LEMMA RebindEnds ==
  ASSUME TypeOK, NEW calls \in [Call -> CallRecord],
         \A c \in Call : /\ calls[c].state \in Successors(call[c].state)
                         /\ calls[c].state = "waiting" => call[c].state = "waiting"
                         /\ call[c].state # "idle" => calls[c].state # "idle",
         call' = Reject(pending["read"] \cup pending["write"], calls),
         InvalidateBoth, broken' = broken
  PROVE  Ending(pending["read"] \cup pending["write"], calls)
BY DEF Ending, InvalidateBoth

LEMMA FinishEnds ==
  ASSUME TypeOK, NEW c \in Call, FinishTransition(c)
  PROVE  Ending(pending["read"] \cup pending["write"], [call EXCEPT ![c].state = "resolved"])
<1>. DEFINE done == [call EXCEPT ![c].state = "resolved"]
<1>1. call[c] \in CallRecord /\ call[c].state = "resuming"
  BY DEF TypeOK, FinishTransition
<1>2. /\ done \in [Call -> CallRecord]
      /\ done[c].state = "resolved"
      /\ \A d \in Call \ {c} : done[d] = call[d]
  BY <1>1 DEF TypeOK, CallRecord, CallState
<1>3. /\ InvalidateBoth /\ broken' = broken
      /\ call' = Reject(pending["read"] \cup pending["write"], done)
  BY DEF FinishTransition
<1>4. "resolved" \in Successors("resuming")
  BY DEF Successors
<1>. HIDE DEF done
<1>5. Ending(pending["read"] \cup pending["write"], done)
  BY <1>1, <1>2, <1>3, <1>4, RebindEnds, StayingIsAMove
<1>. QED BY <1>5 DEF done

LEMMA StepsMoveCalls ==
  ASSUME TypeOK, Identified, SingleEntry, [Next]_vars
  PROVE  SingleEntry' /\ CallsMove
<1>1. ASSUME NEW c \in Call, Invoke(c) PROVE SingleEntry' /\ CallsMove
  BY <1>1, InvokeMoves
<1>2. ASSUME NEW c \in Call, FinishTransition(c) PROVE SingleEntry' /\ CallsMove
  BY <1>2, FinishEnds, EndingPreserves
<1>3. ASSUME NEW env \in Env, SetEnvironmentBinding(env) PROVE SingleEntry' /\ CallsMove
  <2>1. Ending(pending["read"] \cup pending["write"], call)
    BY <1>3, RebindEnds, StayingIsAMove DEF SetEnvironmentBinding, TypeOK
  <2>. QED BY <2>1, EndingPreserves
<1>4. ASSUME NEW w \in broken, WriteError(w[1], w[2]) PROVE SingleEntry' /\ CallsMove
  BY <1>4, WriteErrorEnds, EndingPreserves DEF TypeOK
<1>5. ASSUME NEW k \in Child, SpawnError(k) \/ Close(k) \/ MalformedLine(k)
      PROVE  SingleEntry' /\ CallsMove
  <2>1. broken' = broken /\ RouteServed(k) \in Route
    BY <1>5, RouteServedType DEF SpawnError, Close, MalformedLine, children
  <2>2. \/ /\ call' = Reject(pending[RouteServed(k)], call)
           /\ pending' = [pending EXCEPT ![RouteServed(k)] = {}]
        \/ UNCHANGED <<call, pending>>
    BY <1>5 DEF SpawnError, Close, LoseCurrent, MalformedLine
  <2>. QED BY <2>1, <2>2, RejectingARouteEnds, UnchangedEnds, EndingPreserves
<1>6. ASSUME NEW k \in Child, Line(k) PROVE SingleEntry' /\ CallsMove
  BY <1>6, LineEnds, EndingPreserves
<1>7. ASSUME UNCHANGED <<call, pending, broken>> PROVE SingleEntry' /\ CallsMove
  BY <1>7, UnchangedEnds, EndingPreserves
<1>. QED BY <1>1, <1>2, <1>3, <1>4, <1>5, <1>6, <1>7
     DEF Next, Line, vars, Execute, Answer, Exit, adapter

(* A call has one entry at most, and is unanswered while it is pending, so *)
(* no event can settle it twice.                                           *)
THEOREM CallsHaveOneEntry == Spec => []SingleEntry
<1>1. Init => SingleEntry
  BY DEF Init, SingleEntry, OneEntryPerCall, PendingMeansWaiting, Awaited
<1>. QED BY <1>1, StepsMoveCalls, TypeCorrect, IdentifiersAreUnique, PTL DEF Spec

(* The adapter implements the safety part of ServiceCalls: a call is issued *)
(* once and settled at most once (resolve and reject of a pending entry).  *)
THEOREM CallsAreSettledAtMostOnce == Spec => Promise!SafeSpec
<1>1. Init => Promise!Init
  BY DEF Init, Promise!Init, Outcome
<1>2. TypeOK /\ TypeOK' /\ Identified /\ SingleEntry /\ [Next]_vars => Promise!Next
  <2>. SUFFICES ASSUME TypeOK, TypeOK', Identified, SingleEntry, [Next]_vars
                PROVE  Promise!Next
    OBVIOUS
  <2>1. CallsMove
    BY StepsMoveCalls
  <2>2. ASSUME NEW c \in Call
        PROVE  /\ Outcome(c)' \in Promise!Outcome
               /\ Outcome(c)' \in Promise!After(Outcome(c))
    <3>1. call[c].state \in CallState /\ call'[c].state \in CallState
      BY DEF TypeOK, CallRecord
    <3>2. call'[c].state \in Successors(call[c].state)
      BY <2>1 DEF CallsMove
    <3>. QED BY <3>1, <3>2 DEF Outcome, Successors, CallState, Promise!Outcome,
                               Promise!Settled, Promise!After
  <2>. QED BY <2>2 DEF Promise!Next
<1>. QED BY <1>1, <1>2, TypeCorrect, IdentifiersAreUnique, CallsHaveOneEntry, PTL
     DEF Spec, Promise!SafeSpec
=============================================================================
