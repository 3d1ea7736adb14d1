---------------------- MODULE EventSubscriptions_proofs ----------------------
(***************************************************************************)
(* Theorems about EventSubscriptions, for any sets of effects and of sorts *)
(* and any numbers of runs, events and reloads: types, each active run     *)
(* hears what is due to it, refreshes are for what is shown, and runs that *)
(* were left are unsubscribed.                                             *)
(***************************************************************************)
EXTENDS EventSubscriptions, SequenceTheorems, TLAPS

USE EffectAssumption, FilterAssumption, BoundAssumption
-----------------------------------------------------------------------------
(* Numbers and sequences.                                                  *)
LEMMA RunFacts == Id = Run /\ Run \subseteq Nat \ {0} /\ 0 \notin Run
BY DEF Id, Run

LEMMA MemberType ==
  ASSUME NEW S, NEW q \in Seq(S), NEW k \in DOMAIN q
  PROVE  q[k] \in S /\ k \in Nat \ {0}
BY ElementOfSeq, LenProperties

LEMMA TailFacts ==
  ASSUME NEW S, NEW q \in Seq(S), q # <<>>
  PROVE  /\ Head(q) \in S /\ Head(q) = q[1] /\ 1 \in DOMAIN q
         /\ Tail(q) \in Seq(S)
         /\ \A k \in DOMAIN Tail(q) :
              k \in Nat \ {0} /\ k + 1 \in DOMAIN q /\ Tail(q)[k] = q[k + 1]
         /\ \A k \in DOMAIN q : k = 1 \/ (k - 1 \in DOMAIN Tail(q) /\ Tail(q)[k - 1] = q[k])
BY HeadTailProperties, LenProperties, EmptySeq

LEMMA AppendFacts ==
  ASSUME NEW S, NEW q \in Seq(S), NEW e \in S
  PROVE  /\ Append(q, e) \in Seq(S) /\ q \o <<e>> = Append(q, e)
         /\ \A k \in DOMAIN Append(q, e) :
              \/ k \in DOMAIN q /\ Append(q, e)[k] = q[k]
              \/ k = Len(q) + 1 /\ Append(q, e)[k] = e
         /\ \A k \in DOMAIN q : /\ k \in DOMAIN Append(q, e) /\ Append(q, e)[k] = q[k]
                                /\ k \in Nat /\ k < Len(q) + 1
         /\ Len(q) + 1 \in DOMAIN Append(q, e) /\ Append(q, e)[Len(q) + 1] = e
BY AppendProperties, LenProperties, AppendIsConcat

LEMMA EmptyFacts ==
  ASSUME NEW S
  PROVE  <<>> \in Seq(S) /\ DOMAIN <<>> = {}
BY EmptySeq

LEMMA CarryOver ==
  ASSUME NEW S, NEW x \in Seq(S), NEW y \in Seq(S), y # <<>>
  PROVE  x \o <<Head(y)>> \in Seq(S) /\ (x \o <<Head(y)>>) \o Tail(y) = x \o y
<1>1. Head(y) \in S /\ Tail(y) \in Seq(S) /\ <<Head(y)>> \in Seq(S)
  BY TailFacts
<1>2. <<Head(y)>> \o Tail(y) = y
  BY <1>1, HeadTailProperties, ConcatProperties, SeqEqual, LenProperties, EmptySeq
<1>. QED BY <1>1, <1>2, ConcatAssociative, ConcatProperties

LEMMA AppendLast ==
  ASSUME NEW S, NEW x \in Seq(S), NEW y \in Seq(S), NEW e \in S
  PROVE  x \o Append(y, e) = Append(x \o y, e)
<1>1. <<e>> \in Seq(S) /\ x \o y \in Seq(S)
  BY ConcatProperties
<1>. QED BY <1>1, AppendIsConcat, ConcatAssociative
-----------------------------------------------------------------------------
(* Identifiers.  Requests are served in the order of the runs, so that the *)
(* identifier a run is given is its own number; a run keeps it until its   *)
(* cleanup, which asks to unsubscribe it.                                  *)
Requested(r) == \E k \in DOMAIN requests : requests[k] = Subscribe(r)
AnswerTo(r)  == [id |-> r, of |-> r]

(* The runs not served yet are waiting, each once, in their order.         *)
RequestsInOrder ==
  /\ \A k \in DOMAIN requests : requests[k].call = "subscribe" =>
       /\ requests[k].of \in Run /\ requests[k].of >= nextId
       /\ run[requests[k].of].phase # "none"
       /\ \A n \in Run : n >= nextId /\ n < requests[k].of =>
            \E j \in DOMAIN requests : j < k /\ requests[j] = Subscribe(n)
  /\ \A j, k \in DOMAIN requests :
       requests[j].call = "subscribe" /\ requests[j] = requests[k] => j = k

RunsAreRequested ==
  \A r \in Run : /\ run[r].phase = "none" => r >= nextId
                 /\ run[r].phase # "none" /\ r >= nextId => Requested(r)

(* What is unsubscribed was given before, to a run that was left.          *)
UnsubscribesAreOfLeft ==
  \A k \in DOMAIN requests : requests[k].call = "unsubscribe" =>
    requests[k].of \in Id /\ requests[k].of < nextId /\ run[requests[k].of].phase \in {"left", "gone"}

AnswersAreAwaited ==
  /\ \A k \in DOMAIN answers : LET r == answers[k].of
                               IN /\ answers[k] = AnswerTo(r) /\ r < nextId /\ handlers[r] = 0
                                  /\ run[r].phase \in {"asked", "abandoned"}
  /\ \A j, k \in DOMAIN answers : answers[j] = answers[k] => j = k

IdentifiersAreNumbers ==
  /\ \A s \in subscriptions : s.id = s.of /\ s.id < nextId
  /\ \A id \in Id : handlers[id] # 0 =>
       handlers[id] = id /\ id < nextId /\ run[id].phase \in {"ready", "abandoned"}
  /\ \A r \in Run : /\ run[r].phase = "ready" => run[r].id = r /\ handlers[r] = r
                    /\ run[r].phase = "left" => r < nextId

OneActive ==
  \A r, s \in Run : Active(r) /\ Active(s) /\ run[r].effect = run[s].effect => r = s

TypeInv == /\ TypeOK /\ RequestsInOrder /\ RunsAreRequested /\ UnsubscribesAreOfLeft
           /\ AnswersAreAwaited /\ IdentifiersAreNumbers
-----------------------------------------------------------------------------
(* What leaving an effect does.                                            *)
LEMMA LeftFacts ==
  ASSUME TypeOK, NEW e \in Effect
  PROVE  /\ Left(e) \in [Run -> RunRecord]
         /\ \A r \in Run :
              /\ Left(e)[r].effect = run[r].effect /\ Left(e)[r].filter = run[r].filter
              /\ Left(e)[r].id = run[r].id
              /\ run[r].effect = e /\ run[r].phase = "ready" => Left(e)[r].phase = "left"
              /\ run[r].effect = e /\ run[r].phase = "asked" => Left(e)[r].phase = "abandoned"
              /\ ~ (run[r].effect = e /\ Active(r)) => Left(e)[r] = run[r]
<1>1. ASSUME NEW r \in Run
      PROVE  /\ Left(e)[r] \in RunRecord
             /\ Left(e)[r].effect = run[r].effect /\ Left(e)[r].filter = run[r].filter
             /\ Left(e)[r].id = run[r].id
             /\ run[r].effect = e /\ run[r].phase = "ready" => Left(e)[r].phase = "left"
             /\ run[r].effect = e /\ run[r].phase = "asked" => Left(e)[r].phase = "abandoned"
             /\ ~ (run[r].effect = e /\ Active(r)) => Left(e)[r] = run[r]
  <2>0. run[r] \in RunRecord
    BY DEF TypeOK
  <2>1. CASE run[r].effect = e /\ run[r].phase = "ready"
    <3>1. Left(e)[r] = [run[r] EXCEPT !.phase = "left"]
      BY <2>1 DEF Left
    <3>. QED BY <2>0, <2>1, <3>1 DEF RunRecord, Active
  <2>2. CASE run[r].effect = e /\ run[r].phase = "asked"
    <3>1. Left(e)[r] = [run[r] EXCEPT !.phase = "abandoned"]
      BY <2>2 DEF Left
    <3>. QED BY <2>0, <2>2, <3>1 DEF RunRecord, Active
  <2>3. CASE ~ (run[r].effect = e /\ Active(r))
    <3>1. Left(e)[r] = run[r]
      BY <2>3 DEF Left, Active
    <3>. QED BY <2>0, <2>3, <3>1 DEF Active
  <2>. QED BY <2>1, <2>2, <2>3 DEF Active
<1>2. Left(e) = [r \in Run |-> Left(e)[r]]
  BY DEF Left
<1>. QED BY <1>1, <1>2

LEMMA KnownFacts ==
  ASSUME TypeInv, NEW e \in Effect
  PROVE  /\ Known(e) = {r \in Run : run[r].effect = e /\ run[r].phase = "ready"}
         /\ Known(e) \subseteq Id
         /\ \/ Known(e) = {} /\ UnsubscribeCalls(e) = <<>>
            \/ \E x \in Run : Known(e) = {x} /\ UnsubscribeCalls(e) = <<Unsubscribe(x)>>
<1>1. Known(e) = {r \in Run : run[r].effect = e /\ run[r].phase = "ready"}
  BY DEF Known, TypeInv, IdentifiersAreNumbers
<1>2. CASE Known(e) = {}
  BY <1>1, <1>2, RunFacts DEF UnsubscribeCalls
<1>3. ASSUME NEW x \in Known(e) PROVE Known(e) = {x} /\ UnsubscribeCalls(e) = <<Unsubscribe(x)>>
  <2>1. Known(e) = {x}
    BY <1>1, <1>3 DEF TypeInv, TypeOK, Active
  <2>2. (CHOOSE id \in Known(e) : TRUE) = x
    BY <2>1
  <2>. QED BY <2>1, <2>2 DEF UnsubscribeCalls
<1>. QED BY <1>1, <1>2, <1>3, RunFacts

LEMMA ForgottenFacts ==
  ASSUME TypeOK, NEW e \in Effect, Forgotten(e)
  PROVE  /\ handlers' \in [Id -> {0} \cup Run] /\ held' \in [Id -> Seq(Event)]
         /\ \A id \in Id : IF id \in Known(e) THEN handlers'[id] = 0 /\ held'[id] = <<>>
                           ELSE handlers'[id] = handlers[id] /\ held'[id] = held[id]
BY EmptyFacts DEF TypeOK, Forgotten

(* The requests of a cleanup, put behind the others.                       *)
Grown(q) ==
  /\ q \in Seq(Request)
  /\ \A k \in DOMAIN requests : k \in DOMAIN q /\ q[k] = requests[k] /\ k \in Nat

LEMMA CleanupRequests ==
  ASSUME TypeInv, NEW e \in Effect, NEW q, q = requests \o UnsubscribeCalls(e)
  PROVE  /\ Grown(q)
         /\ \A k \in DOMAIN q :
              \/ k \in DOMAIN requests
              \/ q[k].call = "unsubscribe" /\ q[k].of \in Known(e)
         /\ \A x \in Known(e) : \E k \in DOMAIN q : q[k] = Unsubscribe(x)
<1>0. requests \in Seq(Request) /\ \A k \in DOMAIN requests : k \in Nat
  BY MemberType DEF TypeInv, TypeOK
<1>1. CASE Known(e) = {} /\ UnsubscribeCalls(e) = <<>>
  <2>1. q = requests
    BY <1>0, <1>1, ConcatEmptySeq
  <2>. QED BY <1>0, <1>1, <2>1 DEF Grown
<1>2. ASSUME NEW x \in Run, Known(e) = {x}, UnsubscribeCalls(e) = <<Unsubscribe(x)>>
      PROVE  /\ Grown(q)
             /\ \A k \in DOMAIN q :
                  \/ k \in DOMAIN requests
                  \/ q[k].call = "unsubscribe" /\ q[k].of \in Known(e)
             /\ \E k \in DOMAIN q : q[k] = Unsubscribe(x)
  <2>1. Unsubscribe(x) \in Request /\ Unsubscribe(x).call = "unsubscribe" /\ Unsubscribe(x).of = x
    BY RunFacts DEF Unsubscribe, Request
  <2>2. q = Append(requests, Unsubscribe(x))
    BY <1>0, <1>2, <2>1, AppendFacts
  <2>. QED BY <1>0, <1>2, <2>1, <2>2, AppendFacts DEF Grown
<1>. QED BY <1>1, <1>2, KnownFacts
-----------------------------------------------------------------------------
(* Types and identifiers, step by step.                                    *)
RequestInv == RequestsInOrder /\ RunsAreRequested /\ UnsubscribesAreOfLeft

LEMMA RequestsKept ==
  ASSUME TypeInv, requests' = requests, nextId' = nextId,
         \A r \in Run : /\ run'[r].phase = "none" <=> run[r].phase = "none"
                        /\ run[r].phase \in {"left", "gone"} => run'[r].phase \in {"left", "gone"}
  PROVE  RequestInv'
<1>1. \A k \in DOMAIN requests : requests[k].of \in Run
  <2>. TAKE k \in DOMAIN requests
  <2>1. requests[k] \in Request
    BY MemberType DEF TypeInv, TypeOK
  <2>. QED BY <2>1, RunFacts DEF Request
<1>2. RequestsInOrder'
  BY <1>1 DEF TypeInv, RequestsInOrder
<1>3. RunsAreRequested'
  BY DEF TypeInv, RunsAreRequested, Requested
<1>4. UnsubscribesAreOfLeft'
  BY <1>1 DEF TypeInv, UnsubscribesAreOfLeft
<1>. QED BY <1>2, <1>3, <1>4 DEF RequestInv

(* The runs of e are left, and their identifiers are to be unsubscribed.   *)
LEMMA LeaveRequests ==
  ASSUME TypeInv, NEW e \in Effect, nextId' = nextId, run' = Left(e),
         requests' = requests \o UnsubscribeCalls(e)
  PROVE  requests' \in Seq(Request) /\ RequestInv'
<1>1. /\ requests' \in Seq(Request)
      /\ \A k \in DOMAIN requests :
           k \in DOMAIN requests' /\ requests'[k] = requests[k] /\ k \in Nat
      /\ \A k \in DOMAIN requests' :
           \/ k \in DOMAIN requests
           \/ requests'[k].call = "unsubscribe" /\ requests'[k].of \in Known(e)
  <2>1. PICK q : q = requests \o UnsubscribeCalls(e)
    OBVIOUS
  <2>2. requests' = q
    BY <2>1
  <2>3. Grown(q)
    BY <2>1, CleanupRequests
  <2>4. \A k \in DOMAIN q : \/ k \in DOMAIN requests
                            \/ q[k].call = "unsubscribe" /\ q[k].of \in Known(e)
    BY <2>1, CleanupRequests
  <2>. QED BY <2>2, <2>3, <2>4 DEF Grown
<1>2. \A r \in Run : /\ run'[r].phase = "none" <=> run[r].phase = "none"
                     /\ run[r].phase \in {"left", "gone"} => run'[r].phase \in {"left", "gone"}
                     /\ r \in Known(e) => run'[r].phase = "left"
  BY LeftFacts, KnownFacts DEF TypeInv, Active
<1>3. \A x \in Known(e) : x \in Id /\ x < nextId
  BY KnownFacts, RunFacts DEF TypeInv, IdentifiersAreNumbers
<1>4. RequestsInOrder'
  <2>1. \A k \in DOMAIN requests' : requests'[k].call = "subscribe" =>
          k \in DOMAIN requests /\ requests'[k] = requests[k]
    BY <1>1
  <2>2. ASSUME NEW k \in DOMAIN requests, requests[k].call = "subscribe"
        PROVE  /\ requests[k].of \in Run /\ requests[k].of >= nextId'
               /\ run'[requests[k].of].phase # "none"
               /\ \A n \in Run : n >= nextId' /\ n < requests[k].of =>
                    \E j \in DOMAIN requests' : j < k /\ requests'[j] = Subscribe(n)
    BY <1>1, <1>2, <2>2 DEF TypeInv, RequestsInOrder
  <2>3. \A j, k \in DOMAIN requests :
          requests[j].call = "subscribe" /\ requests[j] = requests[k] => j = k
    BY DEF TypeInv, RequestsInOrder
  <2>4. \A k \in DOMAIN requests' : requests'[k].call = "subscribe" =>
          /\ requests'[k].of \in Run /\ requests'[k].of >= nextId'
          /\ run'[requests'[k].of].phase # "none"
          /\ \A n \in Run : n >= nextId' /\ n < requests'[k].of =>
               \E j \in DOMAIN requests' : j < k /\ requests'[j] = Subscribe(n)
    BY <2>1, <2>2
  <2>5. \A j, k \in DOMAIN requests' :
          requests'[j].call = "subscribe" /\ requests'[j] = requests'[k] => j = k
    BY <2>1, <2>3
  <2>. QED BY <2>4, <2>5 DEF RequestsInOrder
<1>5. RunsAreRequested'
  BY <1>1, <1>2 DEF TypeInv, RunsAreRequested, Requested
<1>6. UnsubscribesAreOfLeft'
  <2>. SUFFICES ASSUME NEW k \in DOMAIN requests', requests'[k].call = "unsubscribe"
                PROVE  /\ requests'[k].of \in Id /\ requests'[k].of < nextId'
                       /\ run'[requests'[k].of].phase \in {"left", "gone"}
    BY DEF UnsubscribesAreOfLeft
  <2>1. CASE k \in DOMAIN requests
    <3>1. requests'[k] = requests[k]
      BY <1>1, <2>1
    <3>2. requests[k].of \in Id /\ requests[k].of < nextId
          /\ run[requests[k].of].phase \in {"left", "gone"}
      BY <2>1, <3>1 DEF TypeInv, UnsubscribesAreOfLeft
    <3>. QED BY <1>2, <3>1, <3>2, RunFacts
  <2>2. CASE requests'[k].of \in Known(e)
    BY <1>2, <1>3, <2>2, RunFacts
  <2>. QED BY <1>1, <2>1, <2>2
<1>. QED BY <1>1, <1>4, <1>5, <1>6 DEF RequestInv

(* Then a new run of e asks.                                               *)
LEMMA RerunRequests ==
  ASSUME TypeInv, NEW e \in Effect, NEW r \in Run, NEW filter \in Filters[e],
         Rerun(e, r, filter)
  PROVE  requests' \in Seq(Request) /\ RequestInv'
<1>. DEFINE q == requests \o UnsubscribeCalls(e)
<1>0. nextId' = nextId /\ r >= nextId /\ run[r].phase = "none"
  BY DEF Rerun, main, TypeInv, RunsAreRequested
<1>1. /\ q \in Seq(Request)
      /\ \A k \in DOMAIN requests : k \in DOMAIN q /\ q[k] = requests[k] /\ k \in Nat
      /\ \A k \in DOMAIN q :
           k \in DOMAIN requests \/ (q[k].call = "unsubscribe" /\ q[k].of \in Known(e))
  BY CleanupRequests DEF Grown
<1>2. /\ Subscribe(r) \in Request /\ Subscribe(r).call = "subscribe" /\ Subscribe(r).of = r
      /\ requests' = q \o <<Subscribe(r)>>
  BY DEF Subscribe, Request, Rerun
<1>. HIDE DEF q
<1>3. /\ requests' \in Seq(Request)
      /\ \A k \in DOMAIN requests' :
           \/ k \in DOMAIN q /\ requests'[k] = q[k]
           \/ k = Len(q) + 1 /\ requests'[k] = Subscribe(r)
      /\ \A k \in DOMAIN q : k \in DOMAIN requests' /\ requests'[k] = q[k] /\ k < Len(q) + 1
      /\ Len(q) + 1 \in DOMAIN requests' /\ requests'[Len(q) + 1] = Subscribe(r)
  BY <1>1, <1>2, AppendFacts
<1>4. \A s \in Run : /\ s # r => (run'[s].phase = "none" <=> run[s].phase = "none")
                     /\ run[s].phase \in {"left", "gone"} => run'[s].phase \in {"left", "gone"}
                     /\ s \in Known(e) => run'[s].phase = "left"
                     /\ run'[r].phase # "none"
                     /\ s < r => run[s].phase # "none"
  <2>1. Left(e) \in [Run -> RunRecord]
    BY LeftFacts DEF TypeInv
  <2>2. /\ \A s \in Run \ {r} : run'[s] = Left(e)[s]
        /\ run'[r].phase = "asked"
    BY <2>1 DEF Rerun, RunRecord
  <2>3. \A s \in Run : s < r => run[s].phase # "none"
    BY DEF Rerun, Run
  <2>4. r \notin Known(e)
    BY <1>0, KnownFacts
  <2>. QED BY <1>0, <2>2, <2>3, <2>4, LeftFacts, KnownFacts DEF TypeInv, Active
<1>5. \A x \in Known(e) : x \in Id /\ x < nextId
  BY KnownFacts, RunFacts DEF TypeInv, IdentifiersAreNumbers
<1>6. \A k \in DOMAIN requests : requests[k] # Subscribe(r)
  BY <1>0, <1>2 DEF TypeInv, RequestsInOrder
<1>7. \A k \in DOMAIN requests' : requests'[k].call = "subscribe" =>
        \/ k \in DOMAIN requests /\ requests'[k] = requests[k] /\ requests[k].of # r
        \/ k = Len(q) + 1 /\ requests'[k] = Subscribe(r)
  BY <1>0, <1>1, <1>2, <1>3 DEF TypeInv, RequestsInOrder
<1>8. \A n \in Run : n >= nextId /\ n < r =>
        \E j \in DOMAIN requests' : j < Len(q) + 1 /\ requests'[j] = Subscribe(n)
  BY <1>1, <1>3, <1>4 DEF TypeInv, RunsAreRequested, Requested
<1>9. ASSUME NEW k \in DOMAIN requests', requests'[k].call = "subscribe"
      PROVE  /\ requests'[k].of \in Run /\ requests'[k].of >= nextId'
             /\ run'[requests'[k].of].phase # "none"
             /\ \A n \in Run : n >= nextId' /\ n < requests'[k].of =>
                  \E j \in DOMAIN requests' : j < k /\ requests'[j] = Subscribe(n)
  <2>1. CASE k \in DOMAIN requests /\ requests'[k] = requests[k] /\ requests[k].of # r
    <3>1. /\ requests[k].of \in Run /\ requests[k].of >= nextId
          /\ run[requests[k].of].phase # "none"
          /\ \A n \in Run : n >= nextId /\ n < requests[k].of =>
               \E j \in DOMAIN requests : j < k /\ requests[j] = Subscribe(n)
      BY <1>9, <2>1 DEF TypeInv, RequestsInOrder
    <3>2. \A j \in DOMAIN requests : j \in DOMAIN requests' /\ requests'[j] = requests[j]
      BY <1>1, <1>3
    <3>. QED BY <1>0, <1>4, <2>1, <3>1, <3>2
  <2>2. CASE k = Len(q) + 1 /\ requests'[k] = Subscribe(r)
    BY <1>0, <1>2, <1>4, <1>8, <2>2
  <2>. QED BY <1>7, <1>9, <2>1, <2>2
<1>10. ASSUME NEW j \in DOMAIN requests', NEW k \in DOMAIN requests',
              requests'[j].call = "subscribe", requests'[j] = requests'[k]
       PROVE  j = k
  BY <1>2, <1>7, <1>10 DEF TypeInv, RequestsInOrder
<1>11. RequestsInOrder'
  BY <1>9, <1>10 DEF RequestsInOrder
<1>12. RunsAreRequested'
  <2>. SUFFICES ASSUME NEW s \in Run
                PROVE  /\ run'[s].phase = "none" => s >= nextId'
                       /\ run'[s].phase # "none" /\ s >= nextId' =>
                            \E k \in DOMAIN requests' : requests'[k] = Subscribe(s)
    BY DEF RunsAreRequested, Requested
  <2>1. CASE s = r
    BY <1>3, <1>4, <2>1
  <2>2. CASE s # r
    BY <1>0, <1>1, <1>3, <1>4, <2>2 DEF TypeInv, RunsAreRequested, Requested
  <2>. QED BY <2>1, <2>2
<1>13. UnsubscribesAreOfLeft'
  <2>. SUFFICES ASSUME NEW k \in DOMAIN requests', requests'[k].call = "unsubscribe"
                PROVE  /\ requests'[k].of \in Id /\ requests'[k].of < nextId'
                       /\ run'[requests'[k].of].phase \in {"left", "gone"}
    BY DEF UnsubscribesAreOfLeft
  <2>1. k \in DOMAIN q /\ requests'[k] = q[k]
    BY <1>2, <1>3
  <2>2. CASE k \in DOMAIN requests
    BY <1>0, <1>1, <1>4, <2>1, <2>2, RunFacts DEF TypeInv, UnsubscribesAreOfLeft
  <2>3. CASE q[k].of \in Known(e)
    BY <1>0, <1>4, <1>5, <2>1, <2>3, RunFacts
  <2>. QED BY <1>1, <2>1, <2>2, <2>3
<1>. QED BY <1>3, <1>11, <1>12, <1>13 DEF RequestInv

(* The run whose request is served is the one of the next identifier.      *)
LEMMA ServeSubscribeRequests ==
  ASSUME TypeInv, ServeSubscribe
  PROVE  /\ nextId \in Run /\ Call = Subscribe(nextId) /\ run[nextId].phase \in {"asked", "abandoned", "gone"}
         /\ requests' \in Seq(Request) /\ RequestInv'
<1>1. /\ requests \in Seq(Request) /\ requests # <<>> /\ requests' = Tail(requests)
      /\ nextId' = nextId + 1 /\ run' = run /\ nextId \in Nat
  BY DEF TypeInv, TypeOK, ServeSubscribe, renderer
<1>2. /\ Call \in Request /\ Call = requests[1] /\ 1 \in DOMAIN requests
      /\ requests' \in Seq(Request)
      /\ \A k \in DOMAIN requests' :
           k \in Nat \ {0} /\ k + 1 \in DOMAIN requests /\ requests'[k] = requests[k + 1]
      /\ \A k \in DOMAIN requests :
           k = 1 \/ (k - 1 \in DOMAIN requests' /\ requests'[k - 1] = requests[k])
      /\ \A k \in DOMAIN requests : k \in Nat \ {0}
  BY <1>1, TailFacts, MemberType DEF Call
<1>3. Call.call = "subscribe"
  BY DEF ServeSubscribe
<1>4. /\ Call.of \in Run /\ Call.of >= nextId /\ run[Call.of].phase # "none"
      /\ \A n \in Run : n >= nextId /\ n < Call.of => FALSE
  BY <1>2, <1>3 DEF TypeInv, RequestsInOrder
<1>5. Call.of = nextId
  <2>1. nextId \in 1..(MaxRuns + 1)
    BY DEF TypeInv, TypeOK
  <2>2. nextId < Call.of => nextId \in Run /\ nextId >= nextId
    BY <1>4, <2>1 DEF Run
  <2>3. ~ (nextId < Call.of)
    BY <1>4, <2>2
  <2>. QED BY <1>4, <2>1, <2>3 DEF Run
<1>6. Call = Subscribe(nextId)
  BY <1>2, <1>3, <1>5 DEF Subscribe, Request
<1>7. run[nextId].phase \in {"asked", "abandoned", "gone"}
  <2>1. run[nextId] \in RunRecord
    BY <1>4, <1>5 DEF TypeInv, TypeOK
  <2>2. run[nextId].phase # "ready" /\ run[nextId].phase # "left"
    BY <1>1, <1>4, <1>5, RunFacts DEF TypeInv, IdentifiersAreNumbers
  <2>. QED BY <1>4, <1>5, <2>1, <2>2 DEF RunRecord
<1>8. \A k \in DOMAIN requests' : requests'[k].call = "subscribe" =>
        requests'[k].of \in Run /\ requests'[k].of >= nextId + 1
  <2>. SUFFICES ASSUME NEW k \in DOMAIN requests', requests'[k].call = "subscribe"
                PROVE  requests'[k].of \in Run /\ requests'[k].of >= nextId + 1
    OBVIOUS
  <2>1. k + 1 \in DOMAIN requests /\ requests[k + 1] = requests'[k] /\ k + 1 # 1
    BY <1>2
  <2>2. requests[k + 1] \in Request /\ requests[k + 1].of \in Run /\ requests[k + 1].of >= nextId
    BY <1>1, <2>1, MemberType DEF TypeInv, RequestsInOrder
  <2>3. requests[k + 1].of # nextId
    <3>. SUFFICES ASSUME requests[k + 1].of = nextId PROVE FALSE
      OBVIOUS
    <3>1. requests[k + 1].call = "subscribe"
      BY <2>1
    <3>2. requests[k + 1] = Subscribe(nextId)
      BY <2>2, <3>1 DEF Subscribe, Request
    <3>3. 1 = k + 1
      <4>1. requests[1] = requests[k + 1] /\ requests[1].call = "subscribe"
        BY <1>2, <1>3, <1>6, <3>2 DEF Subscribe
      <4>2. 1 \in DOMAIN requests /\ k + 1 \in DOMAIN requests
        BY <1>2, <2>1
      <4>. QED BY <4>1, <4>2 DEF TypeInv, RequestsInOrder
    <3>4. k \in Nat /\ k # 0
      BY <1>2
    <3>. QED BY <3>3, <3>4
  <2>4. requests[k + 1].of \in Nat /\ nextId \in Nat
    BY <1>1, <2>2, RunFacts
  <2>5. requests[k + 1].of >= nextId + 1
    BY <2>2, <2>3, <2>4
  <2>. QED BY <2>1, <2>2, <2>5
<1>9. ASSUME NEW k \in DOMAIN requests', requests'[k].call = "subscribe"
      PROVE  /\ run'[requests'[k].of].phase # "none"
             /\ \A n \in Run : n >= nextId' /\ n < requests'[k].of =>
                  \E j \in DOMAIN requests' : j < k /\ requests'[j] = Subscribe(n)
  <2>1. k + 1 \in DOMAIN requests /\ requests[k + 1] = requests'[k] /\ k \in Nat
    BY <1>2
  <2>2. /\ run[requests[k + 1].of].phase # "none"
        /\ \A n \in Run : n >= nextId /\ n < requests[k + 1].of =>
             \E j \in DOMAIN requests : j < k + 1 /\ requests[j] = Subscribe(n)
    BY <1>9, <2>1 DEF TypeInv, RequestsInOrder
  <2>3. ASSUME NEW n \in Run, n >= nextId', n < requests'[k].of
        PROVE  \E j \in DOMAIN requests' : j < k /\ requests'[j] = Subscribe(n)
    <3>1. n \in Nat /\ n > nextId
      BY <1>1, <2>3, RunFacts
    <3>2. PICK j \in DOMAIN requests : j < k + 1 /\ requests[j] = Subscribe(n)
      BY <1>1, <2>1, <2>2, <2>3, <3>1
    <3>3. j # 1
      BY <1>1, <1>2, <1>5, <3>1, <3>2 DEF Subscribe
    <3>4. j - 1 \in DOMAIN requests' /\ requests'[j - 1] = Subscribe(n) /\ j - 1 < k
      BY <1>2, <2>1, <3>2, <3>3
    <3>. QED BY <3>4
  <2>. QED BY <1>1, <2>1, <2>2, <2>3
<1>10. ASSUME NEW j \in DOMAIN requests', NEW k \in DOMAIN requests',
              requests'[j].call = "subscribe", requests'[j] = requests'[k]
       PROVE  j = k
  <2>1. j + 1 = k + 1
    BY <1>2, <1>10 DEF TypeInv, RequestsInOrder
  <2>. QED BY <1>2, <2>1
<1>11. RequestsInOrder'
  BY <1>1, <1>8, <1>9, <1>10 DEF RequestsInOrder
<1>12. RunsAreRequested'
  <2>. SUFFICES ASSUME NEW r \in Run
                PROVE  /\ run'[r].phase = "none" => r >= nextId'
                       /\ run'[r].phase # "none" /\ r >= nextId' =>
                            \E k \in DOMAIN requests' : requests'[k] = Subscribe(r)
    BY DEF RunsAreRequested, Requested
  <2>1. r \in Nat /\ (run[r].phase = "none" => r >= nextId /\ r # nextId)
    BY <1>4, <1>5, RunFacts DEF TypeInv, RunsAreRequested
  <2>2. ASSUME run[r].phase # "none", r >= nextId + 1
        PROVE  \E k \in DOMAIN requests' : requests'[k] = Subscribe(r)
    <3>1. PICK k \in DOMAIN requests : requests[k] = Subscribe(r)
      BY <1>1, <2>1, <2>2 DEF TypeInv, RunsAreRequested, Requested
    <3>2. k # 1
      BY <1>1, <1>2, <1>5, <2>1, <2>2, <3>1 DEF Subscribe
    <3>. QED BY <1>2, <3>1, <3>2
  <2>. QED BY <1>1, <2>1, <2>2
<1>13. UnsubscribesAreOfLeft'
  <2>. SUFFICES ASSUME NEW k \in DOMAIN requests', requests'[k].call = "unsubscribe"
                PROVE  /\ requests'[k].of \in Id /\ requests'[k].of < nextId'
                       /\ run'[requests'[k].of].phase \in {"left", "gone"}
    BY DEF UnsubscribesAreOfLeft
  <2>1. k + 1 \in DOMAIN requests /\ requests[k + 1] = requests'[k]
    BY <1>2
  <2>2. /\ requests'[k].of \in Id /\ requests'[k].of < nextId
        /\ run[requests'[k].of].phase \in {"left", "gone"}
    BY <2>1 DEF TypeInv, UnsubscribesAreOfLeft
  <2>3. requests'[k].of \in Nat
    BY <2>2, RunFacts
  <2>. QED BY <1>1, <2>2, <2>3
<1>. QED BY <1>2, <1>4, <1>5, <1>6, <1>7, <1>11, <1>12, <1>13 DEF RequestInv

LEMMA ServeUnsubscribeRequests ==
  ASSUME TypeInv, ServeUnsubscribe
  PROVE  /\ Call.of \in Id /\ Call.of < nextId /\ run[Call.of].phase \in {"left", "gone"}
         /\ requests' \in Seq(Request) /\ RequestInv'
<1>1. /\ requests \in Seq(Request) /\ requests # <<>> /\ requests' = Tail(requests)
      /\ nextId' = nextId /\ run' = run /\ nextId \in Nat
  BY DEF TypeInv, TypeOK, ServeUnsubscribe, renderer
<1>2. /\ Call = requests[1] /\ 1 \in DOMAIN requests /\ Call.call = "unsubscribe"
      /\ requests' \in Seq(Request)
      /\ \A k \in DOMAIN requests' :
           k \in Nat \ {0} /\ k + 1 \in DOMAIN requests /\ requests'[k] = requests[k + 1]
      /\ \A k \in DOMAIN requests :
           k = 1 \/ (k - 1 \in DOMAIN requests' /\ requests'[k - 1] = requests[k])
      /\ \A k \in DOMAIN requests : k \in Nat \ {0}
  BY <1>1, TailFacts, MemberType DEF Call, ServeUnsubscribe
<1>3. \A n : requests[1] # Subscribe(n)
  BY <1>2 DEF Subscribe
<1>4. \A n : Requested(n) => \E k \in DOMAIN requests' : requests'[k] = Subscribe(n)
  BY <1>2, <1>3 DEF Requested
<1>5. ASSUME NEW k \in DOMAIN requests', requests'[k].call = "subscribe"
      PROVE  /\ requests'[k].of \in Run /\ requests'[k].of >= nextId'
             /\ run'[requests'[k].of].phase # "none"
             /\ \A n \in Run : n >= nextId' /\ n < requests'[k].of =>
                  \E j \in DOMAIN requests' : j < k /\ requests'[j] = Subscribe(n)
  <2>1. k + 1 \in DOMAIN requests /\ requests[k + 1] = requests'[k] /\ k \in Nat
    BY <1>2
  <2>2. /\ requests[k + 1].of \in Run /\ requests[k + 1].of >= nextId
        /\ run[requests[k + 1].of].phase # "none"
        /\ \A n \in Run : n >= nextId /\ n < requests[k + 1].of =>
             \E j \in DOMAIN requests : j < k + 1 /\ requests[j] = Subscribe(n)
    BY <1>5, <2>1 DEF TypeInv, RequestsInOrder
  <2>3. ASSUME NEW n \in Run, n >= nextId', n < requests'[k].of
        PROVE  \E j \in DOMAIN requests' : j < k /\ requests'[j] = Subscribe(n)
    <3>1. PICK j \in DOMAIN requests : j < k + 1 /\ requests[j] = Subscribe(n)
      BY <1>1, <2>1, <2>2, <2>3
    <3>2. j - 1 \in DOMAIN requests' /\ requests'[j - 1] = Subscribe(n) /\ j - 1 < k
      BY <1>2, <1>3, <2>1, <3>1
    <3>. QED BY <3>2
  <2>. QED BY <1>1, <2>1, <2>2, <2>3
<1>6. ASSUME NEW j \in DOMAIN requests', NEW k \in DOMAIN requests',
             requests'[j].call = "subscribe", requests'[j] = requests'[k]
      PROVE  j = k
  <2>1. j + 1 = k + 1
    BY <1>2, <1>6 DEF TypeInv, RequestsInOrder
  <2>. QED BY <1>2, <2>1
<1>7. RequestsInOrder'
  BY <1>5, <1>6 DEF RequestsInOrder
<1>8. RunsAreRequested'
  BY <1>1, <1>4 DEF TypeInv, RunsAreRequested, Requested
<1>9. UnsubscribesAreOfLeft'
  <2>. SUFFICES ASSUME NEW k \in DOMAIN requests', requests'[k].call = "unsubscribe"
                PROVE  /\ requests'[k].of \in Id /\ requests'[k].of < nextId'
                       /\ run'[requests'[k].of].phase \in {"left", "gone"}
    BY DEF UnsubscribesAreOfLeft
  <2>1. k + 1 \in DOMAIN requests /\ requests[k + 1] = requests'[k]
    BY <1>2
  <2>. QED BY <1>1, <2>1 DEF TypeInv, UnsubscribesAreOfLeft
<1>10. Call.of \in Id /\ Call.of < nextId /\ run[Call.of].phase \in {"left", "gone"}
  BY <1>2 DEF TypeInv, UnsubscribesAreOfLeft
<1>. QED BY <1>2, <1>7, <1>8, <1>9, <1>10 DEF RequestInv
-----------------------------------------------------------------------------
(* The types and the rest of the invariant, action by action.              *)
LEMMA CleanupKeeps ==
  ASSUME TypeInv, NEW e \in Effect, Forgotten(e),
         subscriptions' = subscriptions, nextId' = nextId, answers' = answers,
         \A s \in Run : run'[s] = Left(e)[s] \/ (s >= nextId /\ run'[s].phase = "asked")
  PROVE  AnswersAreAwaited' /\ IdentifiersAreNumbers'
<1>1. /\ nextId \in Nat /\ Run \subseteq Nat \ {0} /\ Id = Run
      /\ \A s \in Run : s < nextId => run'[s] = Left(e)[s]
  BY RunFacts DEF TypeInv, TypeOK
<1>2. \A s \in Run : /\ run[s].effect = e /\ run[s].phase = "ready" <=> s \in Known(e)
                     /\ run[s].phase \in {"asked", "abandoned"} => Left(e)[s].phase \in {"asked", "abandoned"}
                     /\ run[s].phase = "abandoned" => Left(e)[s].phase = "abandoned"
                     /\ run[s].phase = "ready" /\ s \notin Known(e) => Left(e)[s] = run[s]
                     /\ Left(e)[s].phase = "ready" =>
                          run[s].phase = "ready" /\ s \notin Known(e) /\ Left(e)[s] = run[s]
                     /\ Left(e)[s].phase = "left" => run[s].phase \in {"ready", "left"}
  BY LeftFacts, KnownFacts DEF TypeInv, Active
<1>3. \A id \in Run : /\ handlers'[id] # 0 => id \notin Known(e) /\ handlers'[id] = handlers[id]
                      /\ handlers[id] = 0 => handlers'[id] = 0
                      /\ id \notin Known(e) => handlers'[id] = handlers[id]
  BY <1>1, ForgottenFacts DEF TypeInv
<1>4. /\ \A s \in subscriptions : s.id = s.of /\ s.id < nextId
      /\ \A id \in Run : handlers[id] # 0 =>
           handlers[id] = id /\ id < nextId /\ run[id].phase \in {"ready", "abandoned"}
      /\ \A r \in Run : /\ run[r].phase = "ready" => run[r].id = r /\ handlers[r] = r
                        /\ run[r].phase = "left" => r < nextId
  BY <1>1 DEF TypeInv, IdentifiersAreNumbers
<1>5. \A r \in Run : run[r].phase = "ready" => r < nextId
  BY <1>1, <1>4
<1>6. AnswersAreAwaited'
  <2>1. \A k \in DOMAIN answers : answers[k].of \in Run
    <3>. TAKE k \in DOMAIN answers
    <3>1. answers[k] \in Answer
      BY MemberType DEF TypeInv, TypeOK
    <3>. QED BY <3>1 DEF Answer
  <2>2. /\ \A k \in DOMAIN answers : /\ answers[k] = AnswerTo(answers[k].of)
                                     /\ answers[k].of < nextId /\ handlers[answers[k].of] = 0
                                     /\ run[answers[k].of].phase \in {"asked", "abandoned"}
        /\ \A j, k \in DOMAIN answers : answers[j] = answers[k] => j = k
    BY DEF TypeInv, AnswersAreAwaited
  <2>3. \A k \in DOMAIN answers : /\ handlers'[answers[k].of] = 0
                                  /\ run'[answers[k].of].phase \in {"asked", "abandoned"}
    BY <1>1, <1>2, <1>3, <2>1, <2>2
  <2>. QED BY <2>2, <2>3 DEF AnswersAreAwaited, AnswerTo
<1>7. ASSUME NEW id \in Run, handlers'[id] # 0
      PROVE  handlers'[id] = id /\ id < nextId /\ run'[id].phase \in {"ready", "abandoned"}
  BY <1>1, <1>2, <1>3, <1>4, <1>7
<1>8. ASSUME NEW r \in Run, run'[r].phase = "ready"
      PROVE  run'[r].id = r /\ handlers'[r] = r
  BY <1>2, <1>3, <1>4, <1>8
<1>9. ASSUME NEW r \in Run, run'[r].phase = "left"
      PROVE  r < nextId
  BY <1>2, <1>4, <1>5, <1>9
<1>10. IdentifiersAreNumbers'
  BY <1>1, <1>4, <1>7, <1>8, <1>9 DEF IdentifiersAreNumbers
<1>. QED BY <1>6, <1>10

LEMMA TimerClearedType ==
  ASSUME timer \in [Effect -> {0} \cup Run], NEW e \in Effect
  PROVE  /\ TimerCleared(e) \in [Effect -> {0} \cup Run] /\ TimerCleared(e)[e] = 0
         /\ \A f \in Effect : f # e => TimerCleared(e)[f] = timer[f]
BY DEF TimerCleared

LEMMA LeaveTypes ==
  ASSUME TypeInv, NEW e \in Effect, Leave(e)
  PROVE  TypeInv'
<1>1. /\ Forgotten(e) /\ requests' = requests \o UnsubscribeCalls(e) /\ run' = Left(e)
      /\ timer' = TimerCleared(e)
      /\ UNCHANGED <<subscriptions, nextId, due, emitted, answers, sent, heard, reloads>>
  BY DEF Leave, main
<1>2. requests' \in Seq(Request) /\ RequestInv'
  BY <1>1, LeaveRequests
<1>3. AnswersAreAwaited' /\ IdentifiersAreNumbers'
  BY <1>1, CleanupKeeps
<1>4. handlers' \in [Id -> {0} \cup Run] /\ held' \in [Id -> Seq(Event)]
  BY <1>1, ForgottenFacts DEF TypeInv
<1>5. run' \in [Run -> RunRecord] /\ timer' \in [Effect -> {0} \cup Run]
  BY <1>1, LeftFacts, TimerClearedType DEF TypeInv, TypeOK
<1>6. \A r \in Run : Active(r)' => Active(r) /\ run'[r].effect = run[r].effect
  BY <1>1, LeftFacts DEF TypeInv, Active
<1>7. OneActive'
  BY <1>6 DEF TypeInv, TypeOK, OneActive
<1>8. TypeOK'
  BY <1>1, <1>2, <1>4, <1>5, <1>7 DEF TypeInv, TypeOK, OneActive
<1>. QED BY <1>2, <1>3, <1>8 DEF TypeInv, RequestInv

LEMMA RerunTypes ==
  ASSUME TypeInv, NEW e \in Effect, NEW r \in Run, NEW filter \in Filters[e],
         Rerun(e, r, filter)
  PROVE  TypeInv'
<1>1. /\ Forgotten(e) /\ timer' = TimerCleared(e)
      /\ run' = [Left(e) EXCEPT ![r] = [effect |-> e, filter |-> filter, phase |-> "asked", id |-> 0]]
      /\ run[r].phase = "none" /\ r >= nextId
      /\ UNCHANGED <<subscriptions, nextId, due, emitted, answers, sent, heard, reloads>>
  BY DEF Rerun, main, TypeInv, RunsAreRequested
<1>2. requests' \in Seq(Request) /\ RequestInv'
  BY RerunRequests
<1>3. /\ \A s \in Run \ {r} : run'[s] = Left(e)[s]
      /\ run'[r] = [effect |-> e, filter |-> filter, phase |-> "asked", id |-> 0]
  BY <1>1, LeftFacts DEF TypeInv
<1>4. AnswersAreAwaited' /\ IdentifiersAreNumbers'
  BY <1>1, <1>3, CleanupKeeps
<1>5. handlers' \in [Id -> {0} \cup Run] /\ held' \in [Id -> Seq(Event)]
  BY <1>1, ForgottenFacts DEF TypeInv
<1>6. run'[r] \in RunRecord
  BY <1>3 DEF RunRecord
<1>7. run' \in [Run -> RunRecord] /\ timer' \in [Effect -> {0} \cup Run]
  BY <1>1, <1>3, <1>6, LeftFacts, TimerClearedType DEF TypeInv, TypeOK
<1>8. \A s \in Run : s # r /\ Active(s)' => Active(s) /\ run'[s].effect = run[s].effect /\ run[s].effect # e
  BY <1>3, LeftFacts DEF TypeInv, Active
<1>9. OneActive'
  <2>. SUFFICES ASSUME NEW s \in Run, NEW t \in Run, Active(s)', Active(t)', run'[s].effect = run'[t].effect
                PROVE  s = t
    BY DEF OneActive
  <2>1. run'[r].effect = e
    BY <1>3
  <2>2. CASE s # r /\ t # r
    BY <1>8, <2>2 DEF TypeInv, TypeOK
  <2>. QED BY <1>8, <2>1, <2>2
<1>10. TypeOK'
  BY <1>1, <1>2, <1>5, <1>7, <1>9 DEF TypeInv, TypeOK, OneActive
<1>. QED BY <1>2, <1>4, <1>10 DEF TypeInv, RequestInv

LEMMA RefreshTypes ==
  ASSUME TypeInv, NEW e \in Effect, Refresh(e)
  PROVE  TypeInv'
<1>1. timer' \in [Effect -> {0} \cup Run]
  BY TimerClearedType DEF TypeInv, TypeOK, Refresh
<1>2. UNCHANGED <<subscriptions, nextId, due, emitted, requests, answers, sent, handlers, held, run, heard, reloads>>
  BY DEF Refresh, main, preload
<1>3. TypeOK'
  BY <1>1, <1>2 DEF TypeInv, TypeOK, Active
<1>. QED BY <1>2, <1>3 DEF TypeInv, RequestsInOrder, RunsAreRequested, Requested, UnsubscribesAreOfLeft,
                           AnswersAreAwaited, IdentifiersAreNumbers

LEMMA ReloadTypes ==
  ASSUME TypeInv, Reload
  PROVE  TypeInv'
<1>1. /\ handlers' = [id \in Id |-> 0] /\ held' = [id \in Id |-> <<>>]
      /\ run' = [r \in Run |-> IF run[r].phase = "none" THEN run[r] ELSE [run[r] EXCEPT !.phase = "gone"]]
      /\ timer' = [e \in Effect |-> 0] /\ reloads' \in 0..MaxReloads
      /\ answers' = <<>> /\ sent' = [id \in Id |-> <<>>]
      /\ UNCHANGED <<subscriptions, nextId, due, emitted, requests, heard>>
  BY DEF Reload, main, TypeInv, TypeOK
<1>2. \A r \in Run : /\ run'[r] \in RunRecord
                     /\ run[r].phase = "none" => run'[r] = run[r]
                     /\ run[r].phase # "none" => run'[r].phase = "gone"
  <2>. TAKE r \in Run
  <2>1. run[r] \in RunRecord
    BY DEF TypeInv, TypeOK
  <2>. QED BY <1>1, <2>1 DEF RunRecord
<1>3. RequestInv'
  BY <1>1, <1>2, RequestsKept
<1>4. AnswersAreAwaited' /\ IdentifiersAreNumbers'
  <2>1. DOMAIN answers' = {}
    BY <1>1, EmptyFacts
  <2>2. AnswersAreAwaited'
    BY <2>1 DEF AnswersAreAwaited
  <2>3. IdentifiersAreNumbers'
    BY <1>1, <1>2 DEF TypeInv, IdentifiersAreNumbers
  <2>. QED BY <2>2, <2>3
<1>5. run' \in [Run -> RunRecord]
  BY <1>1, <1>2
<1>6. answers' \in Seq(Answer) /\ sent' \in [Id -> Seq(Event)] /\ held' \in [Id -> Seq(Event)]
  BY <1>1, EmptyFacts
<1>7. \A r \in Run : ~ Active(r)'
  BY <1>2 DEF Active
<1>8. TypeOK'
  BY <1>1, <1>5, <1>6, <1>7 DEF TypeInv, TypeOK
<1>. QED BY <1>3, <1>4, <1>8 DEF TypeInv, RequestInv

LEMMA ServeSubscribeTypes ==
  ASSUME TypeInv, ServeSubscribe
  PROVE  TypeInv'
<1>1. /\ subscriptions' = subscriptions \cup {[id |-> nextId, of |-> Call.of]} /\ nextId' = nextId + 1
      /\ answers' = IF run[Call.of].phase = "gone" THEN answers
                    ELSE Append(answers, [id |-> nextId, of |-> Call.of])
      /\ UNCHANGED <<due, emitted, sent, handlers, held, run, timer, heard, reloads>>
      /\ nextId \in Nat
  BY DEF ServeSubscribe, preload, renderer, TypeInv, TypeOK
<1>2. /\ nextId \in Run /\ Call.of = nextId /\ run[nextId].phase \in {"asked", "abandoned", "gone"}
      /\ requests' \in Seq(Request) /\ RequestInv'
  BY ServeSubscribeRequests DEF Subscribe
<1>3. /\ AnswerTo(nextId) \in Answer /\ AnswerTo(nextId) = [id |-> nextId, of |-> nextId]
      /\ answers \in Seq(Answer)
  BY <1>2, RunFacts DEF AnswerTo, Answer, TypeInv, TypeOK
<1>4. /\ answers' \in Seq(Answer)
      /\ \A k \in DOMAIN answers' :
           \/ k \in DOMAIN answers /\ answers'[k] = answers[k]
           \/ /\ k = Len(answers) + 1 /\ answers'[k] = AnswerTo(nextId)
              /\ run[nextId].phase \in {"asked", "abandoned"}
  <2>1. CASE run[nextId].phase = "gone"
    BY <1>1, <1>2, <1>3, <2>1
  <2>2. CASE run[nextId].phase # "gone"
    BY <1>1, <1>2, <1>3, <2>2, AppendFacts
  <2>. QED BY <2>1, <2>2
<1>5. /\ \A k \in DOMAIN answers : LET r == answers[k].of
                                 IN /\ answers[k] = AnswerTo(r) /\ r < nextId /\ handlers[r] = 0
                                    /\ run[r].phase \in {"asked", "abandoned"} /\ r \in Nat
      /\ \A j, k \in DOMAIN answers : answers[j] = answers[k] => j = k
  <2>1. \A k \in DOMAIN answers : answers[k].of \in Nat
    <3>. TAKE k \in DOMAIN answers
    <3>1. answers[k] \in Answer
      BY <1>3, MemberType
    <3>. QED BY <3>1, RunFacts DEF Answer
  <2>. QED BY <2>1 DEF TypeInv, AnswersAreAwaited
<1>6. handlers[nextId] = 0
  BY <1>1, <1>2, RunFacts DEF TypeInv, IdentifiersAreNumbers
<1>7. ASSUME NEW k \in DOMAIN answers'
      PROVE  /\ answers'[k] = AnswerTo(answers'[k].of) /\ answers'[k].of < nextId + 1
             /\ handlers[answers'[k].of] = 0 /\ run[answers'[k].of].phase \in {"asked", "abandoned"}
  <2>1. CASE k \in DOMAIN answers /\ answers'[k] = answers[k]
    BY <1>1, <1>5, <2>1
  <2>2. CASE answers'[k] = AnswerTo(nextId) /\ run[nextId].phase \in {"asked", "abandoned"}
    BY <1>1, <1>6, <2>2 DEF AnswerTo
  <2>. QED BY <1>4, <2>1, <2>2
<1>8. \A k \in DOMAIN answers : answers[k] # AnswerTo(nextId)
  BY <1>1, <1>5 DEF AnswerTo
<1>9. \A j, k \in DOMAIN answers' : answers'[j] = answers'[k] => j = k
  BY <1>4, <1>5, <1>8
<1>10. AnswersAreAwaited'
  BY <1>1, <1>7, <1>9 DEF AnswersAreAwaited
<1>11. IdentifiersAreNumbers'
  <2>1. \A s \in subscriptions' : s.id = s.of /\ s.id < nextId + 1
    <3>. TAKE s \in subscriptions'
    <3>1. CASE s \in subscriptions
      <4>1. s.id = s.of /\ s.id < nextId /\ s.id \in Nat
        BY <3>1, RunFacts DEF TypeInv, TypeOK, IdentifiersAreNumbers, Answer
      <4>. QED BY <1>1, <4>1
    <3>2. CASE s = [id |-> nextId, of |-> nextId]
      BY <1>1, <3>2
    <3>. QED BY <1>1, <1>2, <3>1, <3>2
  <2>2. \A id \in Id : handlers[id] # 0 =>
          handlers[id] = id /\ id < nextId + 1 /\ run[id].phase \in {"ready", "abandoned"}
    <3>. SUFFICES ASSUME NEW id \in Id, handlers[id] # 0
                  PROVE  handlers[id] = id /\ id < nextId + 1 /\ run[id].phase \in {"ready", "abandoned"}
      OBVIOUS
    <3>1. handlers[id] = id /\ id < nextId /\ run[id].phase \in {"ready", "abandoned"}
      BY DEF TypeInv, IdentifiersAreNumbers
    <3>2. id \in Nat
      BY RunFacts
    <3>. QED BY <1>1, <3>1, <3>2
  <2>3. \A r \in Run : /\ run[r].phase = "ready" => run[r].id = r /\ handlers[r] = r
                       /\ run[r].phase = "left" => r < nextId + 1
    BY <1>1, RunFacts DEF TypeInv, IdentifiersAreNumbers
  <2>. QED BY <1>1, <2>1, <2>2, <2>3 DEF IdentifiersAreNumbers
<1>12. nextId' \in 1..(MaxRuns + 1) /\ subscriptions' \subseteq Answer
  BY <1>1, <1>2, <1>3 DEF Run, TypeInv, TypeOK
<1>13. TypeOK'
  BY <1>1, <1>2, <1>4, <1>12 DEF TypeInv, TypeOK, Active
<1>. QED BY <1>2, <1>10, <1>11, <1>13 DEF TypeInv, RequestInv

LEMMA ServeUnsubscribeTypes ==
  ASSUME TypeInv, ServeUnsubscribe
  PROVE  TypeInv'
<1>1. /\ subscriptions' \subseteq subscriptions
      /\ UNCHANGED <<nextId, due, emitted, answers, sent, handlers, held, run, timer, heard, reloads>>
  BY DEF ServeUnsubscribe, preload, renderer
<1>2. requests' \in Seq(Request) /\ RequestInv'
  BY ServeUnsubscribeRequests
<1>3. AnswersAreAwaited'
  BY <1>1 DEF TypeInv, AnswersAreAwaited
<1>4. IdentifiersAreNumbers'
  BY <1>1 DEF TypeInv, IdentifiersAreNumbers
<1>5. TypeOK'
  BY <1>1, <1>2 DEF TypeInv, TypeOK, Active
<1>. QED BY <1>2, <1>3, <1>4, <1>5 DEF TypeInv, RequestInv

LEMMA EmitFacts ==
  ASSUME TypeInv, NEW sort \in Sort, Emit(sort)
  PROVE  \E event \in Event :
           LET to == {s \in subscriptions : Matches(sort, s)}
           IN /\ sent' = [id \in Id |-> IF \E s \in to : s.id = id THEN Append(sent[id], event) ELSE sent[id]]
              /\ due' = [r \in Run |-> IF \E s \in to : s.of = r THEN Append(due[r], event) ELSE due[r]]
<1>1. Len(emitted) \in Nat /\ Len(emitted) < MaxEvents
  BY LenProperties DEF TypeInv, TypeOK, Emit
<1>2. Len(emitted) + 1 \in Event
  BY <1>1 DEF Event
<1>. QED BY <1>2 DEF Emit

LEMMA EmitTypes ==
  ASSUME TypeInv, NEW sort \in Sort, Emit(sort)
  PROVE  TypeInv'
<1>1. /\ emitted' = Append(emitted, sort)
      /\ UNCHANGED <<subscriptions, nextId, requests, answers, handlers, held, run, timer, heard, reloads>>
  BY DEF Emit, preload, renderer
<1>2. PICK event \in Event :
        LET to == {s \in subscriptions : Matches(sort, s)}
        IN /\ sent' = [id \in Id |-> IF \E s \in to : s.id = id THEN Append(sent[id], event) ELSE sent[id]]
           /\ due' = [r \in Run |-> IF \E s \in to : s.of = r THEN Append(due[r], event) ELSE due[r]]
  BY EmitFacts
<1>3. /\ \A id \in Id : sent[id] \in Seq(Event) /\ Append(sent[id], event) \in Seq(Event)
      /\ \A r \in Run : due[r] \in Seq(Event) /\ Append(due[r], event) \in Seq(Event)
      /\ emitted' \in Seq(Sort)
  BY <1>1, AppendFacts DEF TypeInv, TypeOK
<1>4. sent' \in [Id -> Seq(Event)]
  BY <1>2, <1>3
<1>5. due' \in [Run -> Seq(Event)]
  BY <1>2, <1>3
<1>6. TypeOK'
  BY <1>1, <1>3, <1>4, <1>5 DEF TypeInv, TypeOK, Active
<1>. QED BY <1>1, <1>6 DEF TypeInv, RequestsInOrder, RunsAreRequested, Requested, UnsubscribesAreOfLeft,
                           AnswersAreAwaited, IdentifiersAreNumbers

LEMMA CalledFacts ==
  ASSUME TypeInv, NEW r \in Run, NEW events \in Seq(Event), Called(r, events)
  PROVE  /\ heard' \in [Run -> Seq(Event)] /\ timer' \in [Effect -> {0} \cup Run]
         /\ heard'[r] = heard[r] \o (IF Active(r) THEN events ELSE <<>>)
         /\ \A s \in Run : s # r => heard'[s] = heard[s]
         /\ \/ timer' = timer
            \/ Active(r) /\ timer' = [timer EXCEPT ![run[r].effect] = r]
<1>1. /\ heard \in [Run -> Seq(Event)] /\ timer \in [Effect -> {0} \cup Run] /\ run[r].effect \in Effect
  BY DEF TypeInv, TypeOK, RunRecord
<1>2. /\ heard' = [heard EXCEPT ![r] = heard[r] \o Handles(r, events)]
      /\ \/ timer' = timer
         \/ (\E k : k \in DOMAIN Handles(r, events)) /\ timer' = [timer EXCEPT ![run[r].effect] = r]
  BY DEF Called
<1>3. Handles(r, events) = IF Active(r) THEN events ELSE <<>>
  BY DEF Handles
<1>4. Handles(r, events) \in Seq(Event) /\ heard[r] \o Handles(r, events) \in Seq(Event)
  <2>1. Handles(r, events) \in Seq(Event)
    BY <1>3, EmptyFacts
  <2>. QED BY <1>1, <2>1, ConcatProperties
<1>5. (\E k : k \in DOMAIN Handles(r, events)) => Active(r)
  BY <1>3, EmptyFacts
<1>6. timer' \in [Effect -> {0} \cup Run]
  BY <1>1, <1>2
<1>7. /\ heard' \in [Run -> Seq(Event)] /\ heard'[r] = heard[r] \o Handles(r, events)
      /\ \A s \in Run : s # r => heard'[s] = heard[s]
  BY <1>1, <1>2, <1>4
<1>. QED BY <1>2, <1>3, <1>5, <1>6, <1>7

LEMMA Renamed ==
  ASSUME NEW x \in RunRecord, NEW i, NEW p
  PROVE  [x EXCEPT !.id = i, !.phase = p] = [effect |-> x.effect, filter |-> x.filter, id |-> i, phase |-> p]
<1>1. [x EXCEPT !.id = i] = [effect |-> x.effect, filter |-> x.filter, id |-> i, phase |-> x.phase]
  BY DEF RunRecord
<1>2. [x EXCEPT !.id = i, !.phase = p] = [[x EXCEPT !.id = i] EXCEPT !.phase = p]
  BY Zenon
<1>3. [[effect |-> x.effect, filter |-> x.filter, id |-> i, phase |-> x.phase] EXCEPT !.phase = p]
      = [effect |-> x.effect, filter |-> x.filter, id |-> i, phase |-> p]
  OBVIOUS
<1>. QED BY <1>1, <1>2, <1>3

(* The run that is answered is awaiting it and has no handler yet.         *)
LEMMA AnswerFacts ==
  ASSUME TypeInv, AnswerArrives
  PROVE  \E r \in Run :
           /\ 1 \in DOMAIN answers /\ answers[1] = AnswerTo(r) /\ run[r].phase \in {"asked", "abandoned"}
           /\ handlers[r] = 0 /\ r < nextId
           /\ handlers' = [handlers EXCEPT ![r] = r] /\ held' = [held EXCEPT ![r] = <<>>]
           /\ Called(r, held[r]) /\ held[r] \in Seq(Event)
           /\ run' \in [Run -> RunRecord] /\ \A s \in Run : s # r => run'[s] = run[s]
           /\ run'[r].effect = run[r].effect /\ run'[r].filter = run[r].filter /\ run'[r].id = r
           /\ run'[r].phase = IF run[r].phase = "asked" THEN "ready" ELSE "abandoned"
<1>. DEFINE a == Head(answers)
<1>1. /\ answers \in Seq(Answer) /\ answers # <<>> /\ run \in [Run -> RunRecord]
      /\ held \in [Id -> Seq(Event)]
  BY DEF TypeInv, TypeOK, AnswerArrives
<1>2. a \in Answer /\ a = answers[1] /\ 1 \in DOMAIN answers
  BY <1>1, TailFacts
<1>3. a = AnswerTo(a.of) /\ a.of < nextId /\ handlers[a.of] = 0 /\ run[a.of].phase \in {"asked", "abandoned"}
  BY <1>2 DEF TypeInv, AnswersAreAwaited
<1>4. a.of \in Run /\ a.id = a.of
  BY <1>2, <1>3 DEF Answer, AnswerTo
<1>5. /\ handlers' = [handlers EXCEPT ![a.of] = a.of] /\ held' = [held EXCEPT ![a.of] = <<>>]
      /\ Called(a.of, held[a.of])
      /\ run' = [run EXCEPT ![a.of].id = a.of, ![a.of].phase = IF @ = "asked" THEN "ready" ELSE @]
  BY <1>4 DEF AnswerArrives, Flushed
<1>6. held[a.of] \in Seq(Event) /\ run[a.of] \in RunRecord
  BY <1>1, <1>4, RunFacts
<1>. HIDE DEF a
<1>7. /\ \A s \in Run : s # a.of => run'[s] = run[s]
      /\ run'[a.of] = [effect |-> run[a.of].effect, filter |-> run[a.of].filter, id |-> a.of,
                       phase |-> IF run[a.of].phase = "asked" THEN "ready" ELSE "abandoned"]
      /\ run' \in [Run -> RunRecord]
  <2>. DEFINE n == [effect |-> run[a.of].effect, filter |-> run[a.of].filter, id |-> a.of,
                    phase |-> IF run[a.of].phase = "asked" THEN "ready" ELSE "abandoned"]
  <2>1. n \in RunRecord
    BY <1>4, <1>6, RunFacts DEF RunRecord
  <2>2. [run[a.of] EXCEPT !.id = a.of, !.phase = IF run[a.of].phase = "asked" THEN "ready" ELSE run[a.of].phase] = n
    <3>1. (IF run[a.of].phase = "asked" THEN "ready" ELSE run[a.of].phase)
          = (IF run[a.of].phase = "asked" THEN "ready" ELSE "abandoned")
      BY <1>3
    <3>. QED BY <1>6, <3>1, Renamed
  <2>3. run' = [run EXCEPT ![a.of] = n]
    BY <1>1, <1>4, <1>5, <2>2
  <2>. QED BY <1>1, <1>4, <2>1, <2>3
<1>8. /\ run'[a.of].effect = run[a.of].effect /\ run'[a.of].filter = run[a.of].filter /\ run'[a.of].id = a.of
      /\ run'[a.of].phase = IF run[a.of].phase = "asked" THEN "ready" ELSE "abandoned"
  BY <1>7
<1>9. answers[1] = AnswerTo(a.of)
  BY <1>2, <1>3
<1>10. a.of \in Run
  BY <1>4
<1>. WITNESS a.of \in Run
<1>. QED BY <1>2, <1>3, <1>5, <1>6, <1>7, <1>8, <1>9

LEMMA AnswerArrivesTypes ==
  ASSUME TypeInv, AnswerArrives
  PROVE  TypeInv'
<1>1. PICK r \in Run :
        /\ 1 \in DOMAIN answers /\ answers[1] = AnswerTo(r) /\ run[r].phase \in {"asked", "abandoned"}
        /\ handlers[r] = 0 /\ r < nextId
        /\ handlers' = [handlers EXCEPT ![r] = r] /\ held' = [held EXCEPT ![r] = <<>>]
        /\ Called(r, held[r]) /\ held[r] \in Seq(Event)
        /\ run' \in [Run -> RunRecord] /\ \A s \in Run : s # r => run'[s] = run[s]
        /\ run'[r].effect = run[r].effect /\ run'[r].filter = run[r].filter /\ run'[r].id = r
        /\ run'[r].phase = IF run[r].phase = "asked" THEN "ready" ELSE "abandoned"
  BY AnswerFacts
<1>2. /\ answers' = Tail(answers) /\ answers \in Seq(Answer) /\ answers # <<>>
      /\ UNCHANGED <<subscriptions, nextId, due, emitted, requests, sent, reloads>>
  BY DEF AnswerArrives, main, TypeInv, TypeOK
<1>3. RequestInv'
  BY <1>1, <1>2, RequestsKept
<1>4. /\ answers' \in Seq(Answer)
      /\ \A k \in DOMAIN answers' :
           k \in Nat \ {0} /\ k + 1 \in DOMAIN answers /\ answers'[k] = answers[k + 1]
  BY <1>2, TailFacts
<1>5. /\ \A k \in DOMAIN answers : /\ answers[k] = AnswerTo(answers[k].of) /\ answers[k].of < nextId
                                   /\ handlers[answers[k].of] = 0
                                   /\ run[answers[k].of].phase \in {"asked", "abandoned"}
      /\ \A j, k \in DOMAIN answers : answers[j] = answers[k] => j = k
  BY DEF TypeInv, AnswersAreAwaited
<1>6. handlers \in [Id -> {0} \cup Run] /\ Id = Run
  BY RunFacts DEF TypeInv, TypeOK
<1>7. ASSUME NEW k \in DOMAIN answers'
      PROVE  /\ answers'[k] = AnswerTo(answers'[k].of) /\ answers'[k].of < nextId'
             /\ handlers'[answers'[k].of] = 0 /\ run'[answers'[k].of].phase \in {"asked", "abandoned"}
  <2>1. k + 1 \in DOMAIN answers /\ answers'[k] = answers[k + 1] /\ k + 1 # 1
    BY <1>4
  <2>2. answers[k + 1] # answers[1]
    BY <1>1, <1>5, <2>1
  <2>3. answers[k + 1].of # r
    BY <1>1, <1>5, <2>1, <2>2
  <2>4. answers[k + 1].of \in Run
    <3>1. answers[k + 1] \in Answer
      BY <1>2, <2>1, MemberType
    <3>. QED BY <3>1 DEF Answer
  <2>5. /\ handlers'[answers[k + 1].of] = handlers[answers[k + 1].of]
        /\ run'[answers[k + 1].of] = run[answers[k + 1].of]
    BY <1>1, <1>6, <2>3, <2>4
  <2>. QED BY <1>2, <1>5, <2>1, <2>5
<1>8. \A j, k \in DOMAIN answers' : answers'[j] = answers'[k] => j = k
  <2>. SUFFICES ASSUME NEW j \in DOMAIN answers', NEW k \in DOMAIN answers', answers'[j] = answers'[k]
                PROVE  j = k
    OBVIOUS
  <2>1. j + 1 = k + 1
    BY <1>4, <1>5
  <2>. QED BY <1>4, <2>1
<1>9. AnswersAreAwaited'
  BY <1>7, <1>8 DEF AnswersAreAwaited
<1>10. IdentifiersAreNumbers'
  <2>1. \A s \in subscriptions' : s.id = s.of /\ s.id < nextId'
    BY <1>2 DEF TypeInv, IdentifiersAreNumbers
  <2>2. ASSUME NEW id \in Id, handlers'[id] # 0
        PROVE  handlers'[id] = id /\ id < nextId' /\ run'[id].phase \in {"ready", "abandoned"}
    <3>1. CASE id = r
      BY <1>1, <1>2, <1>6, <3>1
    <3>2. CASE id # r
      <4>1. handlers'[id] = handlers[id] /\ run'[id] = run[id]
        BY <1>1, <1>6, <3>2
      <4>. QED BY <1>2, <2>2, <4>1 DEF TypeInv, IdentifiersAreNumbers
    <3>. QED BY <3>1, <3>2
  <2>3. ASSUME NEW s \in Run
        PROVE  /\ run'[s].phase = "ready" => run'[s].id = s /\ handlers'[s] = s
               /\ run'[s].phase = "left" => s < nextId'
    <3>1. CASE s = r
      BY <1>1, <1>2, <1>6, <3>1
    <3>2. CASE s # r
      <4>1. handlers'[s] = handlers[s] /\ run'[s] = run[s]
        BY <1>1, <1>6, <3>2
      <4>. QED BY <1>2, <4>1 DEF TypeInv, IdentifiersAreNumbers
    <3>. QED BY <3>1, <3>2
  <2>. QED BY <2>1, <2>2, <2>3 DEF IdentifiersAreNumbers
<1>11. heard' \in [Run -> Seq(Event)] /\ timer' \in [Effect -> {0} \cup Run]
  BY <1>1, CalledFacts
<1>12. handlers' \in [Id -> {0} \cup Run] /\ held' \in [Id -> Seq(Event)]
  BY <1>1, <1>6, EmptyFacts DEF TypeInv, TypeOK
<1>13. \A s \in Run : Active(s)' => Active(s) /\ run'[s].effect = run[s].effect
  BY <1>1 DEF Active
<1>14. OneActive'
  BY <1>13 DEF TypeInv, TypeOK, OneActive
<1>15. TypeOK'
  BY <1>1, <1>2, <1>4, <1>11, <1>12, <1>14 DEF TypeInv, TypeOK, OneActive
<1>. QED BY <1>3, <1>9, <1>10, <1>15 DEF TypeInv, RequestInv

LEMMA ArrivesTypes ==
  ASSUME TypeInv, NEW id \in Id, Arrives(id)
  PROVE  TypeInv'
<1>1. /\ sent[id] # <<>> /\ sent[id] \in Seq(Event) /\ sent' = [sent EXCEPT ![id] = Tail(sent[id])]
      /\ UNCHANGED <<subscriptions, nextId, due, emitted, requests, answers, handlers, run, reloads>>
  BY DEF Arrives, main, TypeInv, TypeOK
<1>2. Head(sent[id]) \in Event /\ Tail(sent[id]) \in Seq(Event) /\ <<Head(sent[id])>> \in Seq(Event)
  BY <1>1, TailFacts
<1>3. /\ heard' \in [Run -> Seq(Event)] /\ timer' \in [Effect -> {0} \cup Run]
      /\ held' \in [Id -> Seq(Event)]
  <2>1. CASE handlers[id] # 0
    <3>1. handlers[id] \in Run /\ Called(handlers[id], <<Head(sent[id])>>) /\ held' = held
      BY <2>1 DEF Arrives, TypeInv, TypeOK
    <3>2. heard' \in [Run -> Seq(Event)] /\ timer' \in [Effect -> {0} \cup Run]
      BY <1>2, <3>1, CalledFacts
    <3>. QED BY <3>1, <3>2 DEF TypeInv, TypeOK
  <2>2. CASE handlers[id] = 0
    <3>1. held' = [held EXCEPT ![id] = Append(held[id], Head(sent[id]))] /\ heard' = heard /\ timer' = timer
      BY <2>2 DEF Arrives
    <3>2. held \in [Id -> Seq(Event)] /\ Append(held[id], Head(sent[id])) \in Seq(Event)
      BY <1>2, AppendFacts DEF TypeInv, TypeOK
    <3>. QED BY <3>1, <3>2 DEF TypeInv, TypeOK
  <2>. QED BY <2>1, <2>2
<1>4. sent' \in [Id -> Seq(Event)]
  BY <1>1, <1>2 DEF TypeInv, TypeOK
<1>5. TypeOK'
  BY <1>1, <1>3, <1>4 DEF TypeInv, TypeOK, Active
<1>. QED BY <1>1, <1>5 DEF TypeInv, RequestsInOrder, RunsAreRequested, Requested, UnsubscribesAreOfLeft,
                           AnswersAreAwaited, IdentifiersAreNumbers
-----------------------------------------------------------------------------
LEMMA TypesHold == Spec => []TypeInv
<1>1. Init => TypeInv
  <2>. SUFFICES ASSUME Init PROVE TypeInv
    OBVIOUS
  <2>1. NotRun \in RunRecord /\ NotRun.phase = "none"
    BY DEF NotRun, RunRecord
  <2>2. DOMAIN requests = {} /\ DOMAIN answers = {}
    BY EmptyFacts DEF Init
  <2>3. \A r \in Run : run[r] = NotRun /\ r >= nextId
    BY DEF Init, Run
  <2>4. TypeOK
    BY <2>1, <2>3, EmptyFacts DEF Init, TypeOK, Active
  <2>5. RequestsInOrder /\ UnsubscribesAreOfLeft /\ AnswersAreAwaited
    BY <2>2 DEF RequestsInOrder, UnsubscribesAreOfLeft, AnswersAreAwaited
  <2>6. RunsAreRequested
    BY <2>1, <2>3 DEF RunsAreRequested
  <2>7. IdentifiersAreNumbers
    BY <2>1, <2>3 DEF Init, IdentifiersAreNumbers
  <2>. QED BY <2>4, <2>5, <2>6, <2>7 DEF TypeInv
<1>2. ASSUME TypeInv, Next PROVE TypeInv'
  <2>1. CASE \E e \in Effect : Leave(e) \/ Refresh(e) \/ \E r \in Run, filter \in Filters[e] : Rerun(e, r, filter)
    BY <1>2, <2>1, LeaveTypes, RefreshTypes, RerunTypes
  <2>2. CASE Reload \/ ServeSubscribe \/ ServeUnsubscribe \/ AnswerArrives
    BY <1>2, <2>2, ReloadTypes, ServeSubscribeTypes, ServeUnsubscribeTypes, AnswerArrivesTypes
  <2>3. CASE \E sort \in Sort : Emit(sort)
    BY <1>2, <2>3, EmitTypes
  <2>4. CASE EventArrives
    BY <1>2, <2>4, ArrivesTypes DEF EventArrives
  <2>. QED BY <1>2, <2>1, <2>2, <2>3, <2>4 DEF Next
<1>3. ASSUME TypeInv, UNCHANGED vars PROVE TypeInv'
  BY <1>3 DEF vars, main, preload, renderer, TypeInv, TypeOK, Active, RequestsInOrder, RunsAreRequested,
              Requested, UnsubscribesAreOfLeft, AnswersAreAwaited, IdentifiersAreNumbers
<1>. QED BY <1>1, <1>2, <1>3, PTL DEF Spec

(* Values have their types, and an effect has one active run at most.      *)
THEOREM TypeCorrect == Spec => []TypeOK
<1>1. TypeInv => TypeOK
  BY DEF TypeInv
<1>. QED BY <1>1, TypesHold, PTL
-----------------------------------------------------------------------------
(* Refreshes.                                                              *)
(* A cleanup clears the timer of its effect, and the runs of the others    *)
(* stay as they are.                                                       *)
LEMMA CleanupRefreshes ==
  ASSUME TypeInv, RefreshesAreForWhatIsShown, NEW e \in Effect, timer' = TimerCleared(e),
         \A s \in Run : Active(s) => run'[s] = Left(e)[s]
  PROVE  RefreshesAreForWhatIsShown'
<1>. SUFFICES ASSUME NEW f \in Effect, timer'[f] # 0
              PROVE  run'[timer'[f]].phase \in {"asked", "ready"} /\ run'[timer'[f]].effect = f
  BY DEF RefreshesAreForWhatIsShown, Active
<1>1. f # e /\ timer'[f] = timer[f] /\ timer[f] \in Run
  BY TimerClearedType DEF TypeInv, TypeOK
<1>2. Active(timer[f]) /\ run[timer[f]].effect = f
  BY <1>1 DEF RefreshesAreForWhatIsShown
<1>3. run'[timer[f]] = run[timer[f]]
  BY <1>1, <1>2, LeftFacts DEF TypeInv
<1>. QED BY <1>1, <1>2, <1>3 DEF Active

LEMMA CalledRefreshes ==
  ASSUME TypeInv, RefreshesAreForWhatIsShown, NEW r \in Run, NEW events \in Seq(Event), Called(r, events),
         \A s \in Run : Active(s) => run'[s].phase \in {"asked", "ready"} /\ run'[s].effect = run[s].effect
  PROVE  RefreshesAreForWhatIsShown'
<1>. SUFFICES ASSUME NEW f \in Effect, timer'[f] # 0
              PROVE  run'[timer'[f]].phase \in {"asked", "ready"} /\ run'[timer'[f]].effect = f
  BY DEF RefreshesAreForWhatIsShown, Active
<1>0. timer \in [Effect -> {0} \cup Run]
  BY DEF TypeInv, TypeOK
<1>1. CASE timer'[f] = timer[f]
  <2>1. timer[f] \in Run /\ Active(timer[f]) /\ run[timer[f]].effect = f
    BY <1>0, <1>1 DEF RefreshesAreForWhatIsShown
  <2>. QED BY <1>1, <2>1
<1>2. CASE Active(r) /\ timer' = [timer EXCEPT ![run[r].effect] = r] /\ f = run[r].effect
  <2>1. timer'[f] = r
    BY <1>0, <1>2
  <2>. QED BY <1>2, <2>1
<1>. QED BY <1>0, <1>1, <1>2, CalledFacts

(* A refresh is waited for only by the run that scheduled it, while that   *)
(* run is active: the flag "active" and the timers the cleanups clear in   *)
(* the effects of App.tsx.                                                 *)
THEOREM RefreshesForWhatIsShown == Spec => []RefreshesAreForWhatIsShown
<1>1. Init => RefreshesAreForWhatIsShown
  BY DEF Init, RefreshesAreForWhatIsShown
<1>2. ASSUME TypeInv, RefreshesAreForWhatIsShown, [Next]_vars PROVE RefreshesAreForWhatIsShown'
  <2>1. CASE timer' = timer /\ run' = run
    BY <1>2, <2>1 DEF RefreshesAreForWhatIsShown, Active
  <2>2. ASSUME NEW e \in Effect, Leave(e) PROVE RefreshesAreForWhatIsShown'
    BY <1>2, <2>2, CleanupRefreshes DEF Leave
  <2>3. ASSUME NEW e \in Effect, Refresh(e) PROVE RefreshesAreForWhatIsShown'
    <3>1. timer' = TimerCleared(e) /\ run' = run /\ timer \in [Effect -> {0} \cup Run]
      BY <1>2, <2>3 DEF Refresh, TypeInv, TypeOK
    <3>2. \A f \in Effect : timer'[f] # 0 => timer'[f] = timer[f]
      BY <3>1, TimerClearedType
    <3>. QED BY <1>2, <3>1, <3>2 DEF RefreshesAreForWhatIsShown, Active
  <2>4. ASSUME NEW e \in Effect, NEW r \in Run, NEW filter \in Filters[e], Rerun(e, r, filter)
        PROVE  RefreshesAreForWhatIsShown'
    <3>1. timer' = TimerCleared(e) /\ ~ Active(r) /\ Left(e) \in [Run -> RunRecord]
      BY <1>2, <2>4, LeftFacts DEF Rerun, Active, TypeInv
    <3>2. \A s \in Run : s # r => run'[s] = Left(e)[s]
      BY <2>4, <3>1 DEF Rerun
    <3>. QED BY <1>2, <3>1, <3>2, CleanupRefreshes
  <2>5. CASE Reload
    BY <2>5 DEF Reload, RefreshesAreForWhatIsShown
  <2>6. CASE ServeSubscribe \/ ServeUnsubscribe \/ \E sort \in Sort : Emit(sort)
    BY <2>1, <2>6 DEF ServeSubscribe, ServeUnsubscribe, Emit, renderer
  <2>7. CASE AnswerArrives
    <3>1. PICK r \in Run :
            /\ Called(r, held[r]) /\ held[r] \in Seq(Event)
            /\ \A s \in Run : s # r => run'[s] = run[s]
            /\ run'[r].effect = run[r].effect
            /\ run'[r].phase = IF run[r].phase = "asked" THEN "ready" ELSE "abandoned"
            /\ run[r].phase \in {"asked", "abandoned"}
      BY <1>2, <2>7, AnswerFacts
    <3>2. \A s \in Run : Active(s) => run'[s].phase \in {"asked", "ready"} /\ run'[s].effect = run[s].effect
      BY <3>1 DEF Active
    <3>. QED BY <1>2, <3>1, <3>2, CalledRefreshes
  <2>8. ASSUME NEW id \in Id, Arrives(id) PROVE RefreshesAreForWhatIsShown'
    <3>1. run' = run /\ sent[id] # <<>> /\ sent[id] \in Seq(Event) /\ handlers[id] \in {0} \cup Run
      BY <1>2, <2>8 DEF Arrives, TypeInv, TypeOK
    <3>2. <<Head(sent[id])>> \in Seq(Event)
      BY <3>1, TailFacts
    <3>3. CASE handlers[id] = 0
      BY <2>1, <2>8, <3>1, <3>3 DEF Arrives
    <3>4. CASE handlers[id] # 0
      <4>1. handlers[id] \in Run /\ Called(handlers[id], <<Head(sent[id])>>)
        BY <2>8, <3>1, <3>4 DEF Arrives
      <4>. QED BY <1>2, <3>1, <3>2, <4>1, CalledRefreshes DEF Active
    <3>. QED BY <3>3, <3>4
  <2>9. CASE UNCHANGED vars
    BY <2>1, <2>9 DEF vars, renderer
  <2>. QED BY <1>2, <2>2, <2>3, <2>4, <2>5, <2>6, <2>7, <2>8, <2>9 DEF Next, EventArrives
<1>. QED BY <1>1, <1>2, TypesHold, PTL DEF Spec
-----------------------------------------------------------------------------
(* Subscriptions of runs that were left.                                   *)
LeftInv ==
  \A s \in subscriptions :
    /\ run[s.of].phase # "none"
    /\ run[s.of].phase = "left" => \E k \in DOMAIN requests : requests[k] = Unsubscribe(s.id)

LEMMA CleanupLeaves ==
  ASSUME TypeInv, LeftInv, NEW e \in Effect, subscriptions' = subscriptions,
         \A s \in Run : s < nextId => run'[s] = Left(e)[s],
         \A k \in DOMAIN requests : k \in DOMAIN requests' /\ requests'[k] = requests[k],
         \A x \in Known(e) : \E k \in DOMAIN requests' : requests'[k] = Unsubscribe(x)
  PROVE  LeftInv'
<1>. SUFFICES ASSUME NEW s \in subscriptions
              PROVE  /\ run'[s.of].phase # "none"
                     /\ run'[s.of].phase = "left" => \E k \in DOMAIN requests' : requests'[k] = Unsubscribe(s.id)
  BY DEF LeftInv
<1>1. s \in Answer /\ s.id = s.of /\ s.id < nextId /\ s.of \in Run
  BY DEF TypeInv, TypeOK, IdentifiersAreNumbers, Answer
<1>2. run'[s.of] = Left(e)[s.of]
  BY <1>1
<1>3. /\ Left(e)[s.of].phase # "none"
      /\ Left(e)[s.of].phase = "left" => run[s.of].phase = "left" \/ s.of \in Known(e)
  BY <1>1, LeftFacts, KnownFacts DEF TypeInv, LeftInv, Active
<1>. QED BY <1>1, <1>2, <1>3 DEF LeftInv

(* When nothing is on its way, the broker sends events only to runs that   *)
(* are active, that were left before they were answered, or that are of a  *)
(* page that was loaded again.                                             *)
THEOREM LeftAreUnsubscribed == Spec => []LeftRunsAreUnsubscribed
<1>1. Init => LeftInv
  BY DEF Init, LeftInv
<1>2. ASSUME TypeInv, LeftInv, [Next]_vars PROVE LeftInv'
  <2>0. \A s \in subscriptions : s \in Answer /\ s.of \in Run /\ s.id = s.of /\ s.id < nextId
    BY <1>2 DEF TypeInv, TypeOK, IdentifiersAreNumbers, Answer
  <2>1. ASSUME subscriptions' = subscriptions, requests' = requests,
               \A r \in Run : /\ run'[r].phase = "none" => run[r].phase = "none"
                              /\ run'[r].phase = "left" => run[r].phase = "left"
        PROVE  LeftInv'
    BY <1>2, <2>0, <2>1 DEF LeftInv
  <2>2. ASSUME NEW e \in Effect, Leave(e) PROVE LeftInv'
    <3>1. /\ \A k \in DOMAIN requests : k \in DOMAIN requests' /\ requests'[k] = requests[k]
          /\ \A x \in Known(e) : \E k \in DOMAIN requests' : requests'[k] = Unsubscribe(x)
      BY <1>2, <2>2, CleanupRequests DEF Leave, Grown
    <3>2. subscriptions' = subscriptions /\ run' = Left(e)
      BY <2>2 DEF Leave, main
    <3>. QED BY <1>2, <3>1, <3>2, CleanupLeaves
  <2>3. ASSUME NEW e \in Effect, Refresh(e) PROVE LeftInv'
    BY <2>1, <2>3 DEF Refresh, main
  <2>4. ASSUME NEW e \in Effect, NEW r \in Run, NEW filter \in Filters[e], Rerun(e, r, filter)
        PROVE  LeftInv'
    <3>. DEFINE q == requests \o UnsubscribeCalls(e)
    <3>1. /\ \A k \in DOMAIN requests : k \in DOMAIN q /\ q[k] = requests[k]
          /\ \A x \in Known(e) : \E k \in DOMAIN q : q[k] = Unsubscribe(x)
          /\ q \in Seq(Request)
      BY <1>2, CleanupRequests DEF Grown
    <3>2. Subscribe(r) \in Request /\ requests' = q \o <<Subscribe(r)>>
      BY <2>4 DEF Subscribe, Request, Rerun
    <3>. HIDE DEF q
    <3>3. \A k \in DOMAIN q : k \in DOMAIN requests' /\ requests'[k] = q[k]
      BY <3>1, <3>2, AppendFacts
    <3>4. /\ \A k \in DOMAIN requests : k \in DOMAIN requests' /\ requests'[k] = requests[k]
          /\ \A x \in Known(e) : \E k \in DOMAIN requests' : requests'[k] = Unsubscribe(x)
      BY <3>1, <3>3
    <3>5. r >= nextId /\ r \in Nat /\ nextId \in Nat
      BY <1>2, <2>4, RunFacts DEF Rerun, TypeInv, TypeOK, RunsAreRequested
    <3>6. subscriptions' = subscriptions /\ \A s \in Run : s # r => run'[s] = Left(e)[s]
      BY <1>2, <2>4, LeftFacts DEF Rerun, main, TypeInv
    <3>7. \A s \in Run : s < nextId => run'[s] = Left(e)[s]
      BY <3>5, <3>6
    <3>. QED BY <1>2, <3>4, <3>6, <3>7, CleanupLeaves
  <2>5. CASE Reload
    <3>1. \A r \in Run : run'[r] = run[r] \/ run'[r].phase = "gone"
      <4>. TAKE r \in Run
      <4>1. run[r] \in RunRecord
        BY <1>2 DEF TypeInv, TypeOK
      <4>. QED BY <2>5, <4>1 DEF Reload, RunRecord
    <3>. QED BY <2>1, <2>5, <3>1 DEF Reload, main
  <2>6. CASE ServeSubscribe
    <3>1. /\ Call = Subscribe(nextId) /\ run[nextId].phase \in {"asked", "abandoned", "gone"}
          /\ requests \in Seq(Request) /\ requests # <<>> /\ requests' = Tail(requests)
          /\ run' = run /\ subscriptions' = subscriptions \cup {[id |-> nextId, of |-> nextId]}
      BY <1>2, <2>6, ServeSubscribeRequests DEF TypeInv, TypeOK, ServeSubscribe, renderer, Subscribe
    <3>2. \A k \in DOMAIN requests : k = 1 \/ (k - 1 \in DOMAIN requests' /\ requests'[k - 1] = requests[k])
      BY <3>1, TailFacts
    <3>3. \A x : requests[1] # Unsubscribe(x)
      BY <3>1, TailFacts DEF Call, Subscribe, Unsubscribe
    <3>4. \A x : (\E k \in DOMAIN requests : requests[k] = Unsubscribe(x)) =>
                 \E k \in DOMAIN requests' : requests'[k] = Unsubscribe(x)
      BY <3>2, <3>3
    <3>. QED BY <1>2, <3>1, <3>4 DEF LeftInv
  <2>7. CASE ServeUnsubscribe
    <3>1. /\ requests \in Seq(Request) /\ requests # <<>> /\ requests' = Tail(requests)
          /\ run' = run /\ subscriptions' = {s \in subscriptions : s.id # Call.of}
      BY <1>2, <2>7 DEF TypeInv, TypeOK, ServeUnsubscribe, renderer
    <3>2. \A k \in DOMAIN requests : k = 1 \/ (k - 1 \in DOMAIN requests' /\ requests'[k - 1] = requests[k])
      BY <3>1, TailFacts
    <3>3. \A x : requests[1] = Unsubscribe(x) => Call.of = x
      BY <3>1, TailFacts DEF Call, Unsubscribe
    <3>4. \A x : x # Call.of /\ (\E k \in DOMAIN requests : requests[k] = Unsubscribe(x)) =>
                 \E k \in DOMAIN requests' : requests'[k] = Unsubscribe(x)
      BY <3>2, <3>3
    <3>. SUFFICES ASSUME NEW s \in subscriptions, s.id # Call.of
                  PROVE  /\ run[s.of].phase # "none"
                         /\ run[s.of].phase = "left" => \E k \in DOMAIN requests' : requests'[k] = Unsubscribe(s.id)
      BY <3>1 DEF LeftInv
    <3>5. /\ run[s.of].phase # "none"
          /\ run[s.of].phase = "left" => \E k \in DOMAIN requests : requests[k] = Unsubscribe(s.id)
      BY <1>2 DEF LeftInv
    <3>. QED BY <3>4, <3>5
  <2>8. ASSUME NEW sort \in Sort, Emit(sort) PROVE LeftInv'
    BY <2>1, <2>8 DEF Emit, renderer
  <2>9. CASE AnswerArrives
    <3>1. PICK r \in Run :
            /\ \A s \in Run : s # r => run'[s] = run[s]
            /\ run'[r].phase = IF run[r].phase = "asked" THEN "ready" ELSE "abandoned"
      BY <1>2, <2>9, AnswerFacts
    <3>2. subscriptions' = subscriptions /\ requests' = requests
      BY <2>9 DEF AnswerArrives, main
    <3>3. ASSUME NEW s \in Run
          PROVE  /\ run'[s].phase = "none" => run[s].phase = "none"
                 /\ run'[s].phase = "left" => run[s].phase = "left"
      BY <3>1
    <3>. QED BY <2>1, <3>2, <3>3
  <2>10. ASSUME NEW id \in Id, Arrives(id) PROVE LeftInv'
    BY <2>1, <2>10 DEF Arrives, main
  <2>11. CASE UNCHANGED vars
    BY <2>1, <2>11 DEF vars, main, renderer
  <2>. QED BY <1>2, <2>2, <2>3, <2>4, <2>5, <2>6, <2>7, <2>8, <2>9, <2>10, <2>11 DEF Next, EventArrives
<1>3. TypeInv /\ LeftInv => LeftRunsAreUnsubscribed
  <2>. SUFFICES ASSUME TypeInv, LeftInv, requests = <<>>, NEW s \in subscriptions
                PROVE  Active(s.of) \/ run[s.of].phase \in {"abandoned", "gone"}
    BY DEF LeftRunsAreUnsubscribed
  <2>1. run[s.of] \in RunRecord
    BY DEF TypeInv, TypeOK, Answer
  <2>2. run[s.of].phase # "none" /\ run[s.of].phase # "left"
    BY EmptyFacts DEF LeftInv
  <2>. QED BY <2>1, <2>2 DEF RunRecord, Active
<1>. QED BY <1>1, <1>2, <1>3, TypesHold, PTL DEF Spec
-----------------------------------------------------------------------------
(* What the runs hear.                                                     *)

(* Nothing is due to a run that was not served.  An active run that was is *)
(* subscribed, what is due to it is heard, held or on its way, and nothing *)
(* is held for it once it was answered.                                    *)
Quiet(r) == due[r] = <<>> /\ heard[r] = <<>> /\ held[r] = <<>> /\ sent[r] = <<>>

Hears(r) == /\ AnswerTo(r) \in subscriptions
            /\ heard[r] \o held[r] \o sent[r] = due[r]
            /\ run[r].phase = "ready" => held[r] = <<>>

HearInv == /\ \A r \in Run : r >= nextId => Quiet(r)
           /\ \A r \in Run : Active(r) /\ r < nextId => Hears(r)

LEMMA QueueTypes ==
  ASSUME TypeInv, NEW r \in Run
  PROVE  /\ due[r] \in Seq(Event) /\ heard[r] \in Seq(Event)
         /\ held[r] \in Seq(Event) /\ sent[r] \in Seq(Event)
BY RunFacts DEF TypeInv, TypeOK

LEMMA EventLast ==
  \A x, y \in Seq(Event), e \in Event : /\ x \o Append(y, e) = Append(x \o y, e)
                                        /\ Append(x, e) = x \o <<e>>
<1>. SUFFICES ASSUME NEW x \in Seq(Event), NEW y \in Seq(Event), NEW e \in Event
              PROVE  x \o Append(y, e) = Append(x \o y, e) /\ Append(x, e) = x \o <<e>>
  BY Zenon
<1>1. x \o Append(y, e) = Append(x \o y, e)
  BY AppendLast
<1>2. Append(x, e) = x \o <<e>>
  BY AppendFacts
<1>. QED BY <1>1, <1>2

LEMMA Silence == <<>> \o <<>> \o <<>> = <<>>
BY EmptyFacts, ConcatEmptySeq

(* A cleanup drops what is held of runs that it leaves.                    *)
LEMMA CleanupHears ==
  ASSUME TypeInv, HearInv, NEW e \in Effect, Forgotten(e),
         UNCHANGED <<subscriptions, nextId, due, sent, heard>>,
         \A s \in Run : s < nextId => run'[s] = Left(e)[s]
  PROVE  HearInv'
<1>1. \A id \in Run : held'[id] = held[id] \/ held'[id] = <<>>
  BY RunFacts, ForgottenFacts DEF TypeInv
<1>2. \A r \in Run : r >= nextId => Quiet(r)'
  BY <1>1 DEF HearInv, Quiet
<1>3. ASSUME NEW r \in Run, Active(r)', r < nextId
      PROVE  Hears(r)'
  <2>1. run'[r] = Left(e)[r]
    BY <1>3
  <2>2. run'[r] = run[r] /\ r \notin Known(e)
    BY <1>3, <2>1, LeftFacts, KnownFacts DEF TypeInv, Active
  <2>3. held'[r] = held[r]
    BY <2>2, RunFacts, ForgottenFacts DEF TypeInv
  <2>4. Hears(r)
    BY <1>3, <2>2 DEF HearInv, Active
  <2>. QED BY <2>2, <2>3, <2>4 DEF Hears
<1>. QED BY <1>2, <1>3 DEF HearInv

LEMMA ServeSubscribeHears ==
  ASSUME TypeInv, HearInv, ServeSubscribe
  PROVE  HearInv'
<1>0. nextId \in Run /\ Call.of = nextId
  BY ServeSubscribeRequests DEF Subscribe
<1>1. /\ nextId \in Run /\ nextId' = nextId + 1 /\ nextId \in Nat /\ \A r \in Run : r \in Nat
      /\ subscriptions' = subscriptions \cup {[id |-> nextId, of |-> nextId]}
      /\ UNCHANGED <<due, heard, held, sent, run>>
  BY <1>0, RunFacts DEF ServeSubscribe, preload, renderer
<1>2. \A r \in Run : r >= nextId' => Quiet(r)'
  BY <1>1 DEF HearInv, Quiet
<1>3. ASSUME NEW r \in Run, Active(r)', r < nextId'
      PROVE  Hears(r)'
  <2>1. CASE r < nextId
    <3>1. Hears(r)
      BY <1>1, <1>3, <2>1 DEF HearInv, Active
    <3>. QED BY <1>1, <3>1 DEF Hears
  <2>2. CASE r = nextId
    <3>1. Quiet(r)
      BY <1>1, <2>2 DEF HearInv
    <3>. QED BY <1>1, <2>2, <3>1, Silence DEF Quiet, Hears, AnswerTo
  <2>. QED BY <1>1, <1>3, <2>1, <2>2
<1>. QED BY <1>2, <1>3 DEF HearInv

(* Whom an event is sent to it is due to.                                  *)
LEMMA EmitHears ==
  ASSUME TypeInv, HearInv, NEW sort \in Sort, Emit(sort)
  PROVE  HearInv'
<1>. DEFINE to == {s \in subscriptions : Matches(sort, s)}
<1>1. UNCHANGED <<subscriptions, nextId, held, run, heard>>
  BY DEF Emit, preload, renderer
<1>2. PICK event \in Event :
        /\ sent' = [id \in Id |-> IF \E s \in to : s.id = id THEN Append(sent[id], event) ELSE sent[id]]
        /\ due' = [r \in Run |-> IF \E s \in to : s.of = r THEN Append(due[r], event) ELSE due[r]]
  BY EmitFacts
<1>3. /\ \A s \in to : s.id = s.of /\ s.id < nextId
      /\ nextId \in Nat /\ \A r \in Run : r \in Nat
  BY RunFacts DEF TypeInv, TypeOK, IdentifiersAreNumbers
<1>. HIDE DEF to
<1>4. ASSUME NEW r \in Run
      PROVE  \/ /\ \E s \in to : s.id = r
                /\ sent'[r] = Append(sent[r], event) /\ due'[r] = Append(due[r], event)
             \/ sent'[r] = sent[r] /\ due'[r] = due[r]
  BY <1>2, <1>3, RunFacts
<1>5. ASSUME NEW r \in Run, r >= nextId'
      PROVE  Quiet(r)'
  <2>1. Quiet(r) /\ sent'[r] = sent[r] /\ due'[r] = due[r]
    BY <1>1, <1>3, <1>4, <1>5 DEF HearInv
  <2>. QED BY <1>1, <2>1 DEF Quiet
<1>6. ASSUME NEW r \in Run, Active(r)', r < nextId'
      PROVE  Hears(r)'
  <2>1. Hears(r)
    BY <1>1, <1>6 DEF HearInv, Active
  <2>2. heard[r] \o held[r] \in Seq(Event) /\ sent[r] \in Seq(Event)
    BY QueueTypes, ConcatProperties
  <2>3. (heard[r] \o held[r]) \o sent'[r] = due'[r]
    <3>0. (heard[r] \o held[r]) \o sent[r] = due[r]
      BY <2>1 DEF Hears
    <3>1. (heard[r] \o held[r]) \o Append(sent[r], event) = Append((heard[r] \o held[r]) \o sent[r], event)
      BY <2>2, EventLast, Zenon
    <3>. QED BY <1>4, <3>0, <3>1
  <2>. QED BY <1>1, <2>1, <2>3 DEF Hears
<1>. QED BY <1>5, <1>6 DEF HearInv

(* The answer hands over what was held, before what is still to come.      *)
LEMMA AnswerArrivesHears ==
  ASSUME TypeInv, HearInv, AnswerArrives
  PROVE  HearInv'
<1>1. PICK r \in Run :
        /\ run[r].phase \in {"asked", "abandoned"} /\ r < nextId
        /\ held' = [held EXCEPT ![r] = <<>>]
        /\ Called(r, held[r]) /\ held[r] \in Seq(Event)
        /\ \A s \in Run : s # r => run'[s] = run[s]
        /\ run'[r].phase = IF run[r].phase = "asked" THEN "ready" ELSE "abandoned"
  BY AnswerFacts
<1>2. /\ UNCHANGED <<subscriptions, nextId, due, sent>> /\ nextId \in Nat /\ r \in Nat
      /\ held \in [Run -> Seq(Event)]
  <2>1. UNCHANGED <<subscriptions, nextId, due, sent>>
    BY DEF AnswerArrives, main
  <2>2. nextId \in Nat /\ held \in [Run -> Seq(Event)]
    BY RunFacts DEF TypeInv, TypeOK
  <2>. QED BY <2>1, <2>2, RunFacts
<1>3. \A s \in Run : s # r => held'[s] = held[s] /\ heard'[s] = heard[s]
  BY <1>1, <1>2, CalledFacts
<1>4. held'[r] = <<>> /\ heard'[r] = heard[r] \o (IF Active(r) THEN held[r] ELSE <<>>)
  BY <1>1, <1>2, CalledFacts
<1>5. ASSUME NEW s \in Run, s >= nextId'
      PROVE  Quiet(s)'
  BY <1>1, <1>2, <1>3, <1>5 DEF HearInv, Quiet
<1>6. ASSUME NEW s \in Run, Active(s)', s < nextId', s # r
      PROVE  Hears(s)'
  <2>1. Hears(s)
    BY <1>1, <1>2, <1>6 DEF HearInv, Active
  <2>. QED BY <1>1, <1>2, <1>3, <1>6, <2>1 DEF Hears
<1>7. ASSUME Active(r)'
      PROVE  Hears(r)'
  <2>1. Active(r)
    BY <1>1, <1>7 DEF Active
  <2>2. Hears(r)
    BY <1>1, <2>1 DEF HearInv
  <2>3. heard'[r] = heard[r] \o held[r] /\ heard[r] \o held[r] \in Seq(Event)
    BY <1>4, <2>1, QueueTypes, ConcatProperties
  <2>4. heard'[r] \o held'[r] = heard[r] \o held[r]
    BY <1>4, <2>3, ConcatEmptySeq
  <2>. QED BY <1>2, <1>4, <2>2, <2>4 DEF Hears
<1>. QED BY <1>5, <1>6, <1>7 DEF HearInv

(* An event is heard next, or held behind the others.                      *)
LEMMA ArrivesHears ==
  ASSUME TypeInv, HearInv, NEW id \in Id, Arrives(id)
  PROVE  HearInv'
<1>. DEFINE event == Head(sent[id])
<1>1. /\ id \in Run /\ sent[id] # <<>> /\ sent' = [sent EXCEPT ![id] = Tail(sent[id])]
      /\ sent \in [Run -> Seq(Event)] /\ held \in [Run -> Seq(Event)]
      /\ UNCHANGED <<subscriptions, nextId, due, run>> /\ nextId \in Nat /\ id \in Nat
  BY RunFacts DEF Arrives, main, TypeInv, TypeOK
<1>2. event \in Event /\ Tail(sent[id]) \in Seq(Event) /\ <<event>> \in Seq(Event)
  BY <1>1, TailFacts
<1>3. handlers[id] # 0 => handlers[id] = id /\ run[id].phase \in {"ready", "abandoned"}
  BY DEF TypeInv, IdentifiersAreNumbers
<1>4. handlers[id] = 0 => run[id].phase # "ready"
  BY <1>1, RunFacts DEF TypeInv, IdentifiersAreNumbers
<1>5. \/ handlers[id] # 0 /\ Called(id, <<event>>) /\ held' = held
      \/ handlers[id] = 0 /\ held' = [held EXCEPT ![id] = Append(held[id], event)] /\ heard' = heard
  BY <1>3 DEF Arrives
<1>. HIDE DEF event
<1>6. \A s \in Run : s # id => held'[s] = held[s] /\ heard'[s] = heard[s] /\ sent'[s] = sent[s]
  BY <1>1, <1>2, <1>5, CalledFacts
<1>7. ASSUME NEW s \in Run, s >= nextId'
      PROVE  Quiet(s)'
  <2>1. Quiet(s)
    BY <1>1, <1>7 DEF HearInv
  <2>. QED BY <1>1, <1>6, <2>1 DEF Quiet
<1>8. ASSUME NEW s \in Run, Active(s)', s < nextId', s # id
      PROVE  Hears(s)'
  <2>1. Hears(s)
    BY <1>1, <1>8 DEF HearInv, Active
  <2>. QED BY <1>1, <1>6, <1>8, <2>1 DEF Hears
<1>9. ASSUME Active(id)', id < nextId'
      PROVE  Hears(id)'
  <2>1. Active(id)
    BY <1>1, <1>9 DEF Active
  <2>2. Hears(id)
    BY <1>1, <1>9, <2>1 DEF HearInv
  <2>3. /\ heard[id] \in Seq(Event) /\ held[id] \in Seq(Event) /\ sent[id] \in Seq(Event)
        /\ heard[id] \o held[id] \in Seq(Event)
    BY <1>1, QueueTypes, ConcatProperties
  <2>4. sent'[id] = Tail(sent[id])
    BY <1>1
  <2>5. ((heard[id] \o held[id]) \o <<event>>) \o Tail(sent[id]) = due[id]
    BY <1>1, <2>2, <2>3, CarryOver DEF Hears, event
  <2>6. CASE handlers[id] # 0
    <3>1. run[id].phase = "ready" /\ held[id] = <<>> /\ held'[id] = <<>>
      BY <1>3, <1>5, <2>1, <2>2, <2>6 DEF Active, Hears
    <3>2. heard'[id] = heard[id] \o <<event>> /\ heard[id] \o <<event>> \in Seq(Event)
      BY <1>1, <1>2, <1>5, <2>1, <2>3, <2>6, CalledFacts, ConcatProperties
    <3>3. heard[id] \o held[id] = heard[id] /\ heard'[id] \o held'[id] = heard'[id]
      BY <2>3, <3>1, <3>2, ConcatEmptySeq
    <3>. QED BY <1>1, <2>2, <2>4, <2>5, <3>1, <3>2, <3>3 DEF Hears
  <2>7. CASE handlers[id] = 0
    <3>1. held'[id] = Append(held[id], event) /\ heard' = heard
      BY <1>1, <1>5, <2>7
    <3>2. heard[id] \o Append(held[id], event) = (heard[id] \o held[id]) \o <<event>>
      <4>1. heard[id] \o Append(held[id], event) = Append(heard[id] \o held[id], event)
        BY <1>2, <2>3, EventLast, Zenon
      <4>2. Append(heard[id] \o held[id], event) = (heard[id] \o held[id]) \o <<event>>
        BY <1>2, <2>3, EventLast, Zenon
      <4>. QED BY <4>1, <4>2
    <3>3. run'[id].phase # "ready"
      BY <1>1, <1>4, <2>7
    <3>. QED BY <1>1, <2>2, <2>4, <2>5, <3>1, <3>2, <3>3 DEF Hears
  <2>. QED BY <2>6, <2>7
<1>. QED BY <1>7, <1>8, <1>9 DEF HearInv

(* The handler of an active run is called with the events emitted since    *)
(* the broker entered its subscription, each once and in their order: what *)
(* it heard, what the preload bridge holds for it and what is on its way   *)
(* are together what is due to it.                                         *)
THEOREM SubscribersHearTheirEvents == Spec => []EverySubscriberHearsItsEvents
<1>1. Init => HearInv
  <2>. SUFFICES ASSUME Init PROVE HearInv
    OBVIOUS
  <2>1. \A r \in Run : Quiet(r) /\ ~ Active(r)
    BY RunFacts DEF Init, Quiet, Active, NotRun
  <2>. QED BY <2>1 DEF HearInv
<1>2. ASSUME TypeInv, HearInv, [Next]_vars PROVE HearInv'
  <2>1. ASSUME UNCHANGED <<subscriptions, nextId, due, sent, held, heard, run>>
        PROVE  HearInv'
    <3>1. \A r \in Run : (Quiet(r)' <=> Quiet(r)) /\ (Hears(r)' <=> Hears(r)) /\ (Active(r)' <=> Active(r))
      BY <2>1 DEF Quiet, Hears, Active
    <3>. QED BY <1>2, <2>1, <3>1 DEF HearInv
  <2>2. ASSUME NEW e \in Effect, Leave(e) PROVE HearInv'
    BY <1>2, <2>2, CleanupHears DEF Leave, main
  <2>3. ASSUME NEW e \in Effect, Refresh(e) PROVE HearInv'
    BY <2>1, <2>3 DEF Refresh, main, preload
  <2>4. ASSUME NEW e \in Effect, NEW r \in Run, NEW filter \in Filters[e], Rerun(e, r, filter)
        PROVE  HearInv'
    <3>1. r >= nextId /\ r \in Nat /\ nextId \in Nat
      BY <1>2, <2>4, RunFacts DEF Rerun, TypeInv, TypeOK, RunsAreRequested
    <3>2. \A s \in Run : s # r => run'[s] = Left(e)[s]
      BY <1>2, <2>4, LeftFacts DEF Rerun, TypeInv
    <3>3. \A s \in Run : s < nextId => run'[s] = Left(e)[s]
      BY <3>1, <3>2
    <3>4. Forgotten(e) /\ UNCHANGED <<subscriptions, nextId, due, sent, heard>>
      BY <2>4 DEF Rerun, main
    <3>. QED BY <1>2, <3>3, <3>4, CleanupHears
  <2>5. CASE Reload
    <3>1. \A r \in Run : ~ Active(r)'
      <4>. TAKE r \in Run
      <4>1. run[r] \in RunRecord
        BY <1>2 DEF TypeInv, TypeOK
      <4>. QED BY <2>5, <4>1 DEF Reload, RunRecord, Active
    <3>2. /\ UNCHANGED <<nextId, due, heard>>
          /\ \A r \in Run : held'[r] = <<>> /\ sent'[r] = <<>>
      BY <2>5, RunFacts DEF Reload, main
    <3>3. \A r \in Run : r >= nextId' => Quiet(r)'
      BY <1>2, <3>2 DEF HearInv, Quiet
    <3>. QED BY <3>1, <3>3 DEF HearInv
  <2>6. CASE ServeUnsubscribe
    <3>1. /\ UNCHANGED <<nextId, due, sent, held, heard, run>>
          /\ subscriptions' = {s \in subscriptions : s.id # Call.of}
          /\ run[Call.of].phase \in {"left", "gone"}
      BY <1>2, <2>6, ServeUnsubscribeRequests DEF ServeUnsubscribe, preload, renderer
    <3>2. \A r \in Run : Active(r) /\ AnswerTo(r) \in subscriptions => AnswerTo(r) \in subscriptions'
      BY <3>1 DEF AnswerTo, Active
    <3>3. \A r \in Run : Quiet(r) => Quiet(r)'
      BY <3>1 DEF Quiet
    <3>4. \A r \in Run : Active(r)' /\ Hears(r) => Active(r) /\ Hears(r)'
      BY <3>1, <3>2 DEF Hears, Active
    <3>5. \A r \in Run : Active(r)' => Active(r)
      BY <3>1 DEF Active
    <3>. QED BY <1>2, <3>1, <3>3, <3>4, <3>5 DEF HearInv
  <2>7. CASE UNCHANGED vars
    BY <2>1, <2>7 DEF vars, main, preload, renderer
  <2>. QED BY <1>2, <2>2, <2>3, <2>4, <2>5, <2>6, <2>7, ServeSubscribeHears, EmitHears,
              AnswerArrivesHears, ArrivesHears DEF Next, EventArrives
<1>3. TypeInv /\ HearInv => EverySubscriberHearsItsEvents
  <2>. SUFFICES ASSUME TypeInv, HearInv, NEW r \in Run, Active(r)
                PROVE  \/ IdOf(r) = {} /\ due[r] = <<>> /\ heard[r] = <<>>
                       \/ \E id \in IdOf(r) : heard[r] \o held[id] \o sent[id] = due[r]
    BY DEF EverySubscriberHearsItsEvents
  <2>1. r \in Nat /\ nextId \in Nat
    BY RunFacts DEF TypeInv, TypeOK
  <2>2. CASE r >= nextId
    <3>1. \A s \in subscriptions : s.of # r
      BY <2>1, <2>2 DEF TypeInv, IdentifiersAreNumbers
    <3>2. IdOf(r) = {}
      BY <3>1 DEF IdOf
    <3>. QED BY <2>2, <3>2 DEF HearInv, Quiet
  <2>3. CASE r < nextId
    <3>1. Hears(r)
      BY <2>3 DEF HearInv
    <3>2. r \in IdOf(r)
      BY <3>1 DEF Hears, IdOf, AnswerTo
    <3>3. heard[r] \o held[r] \o sent[r] = due[r]
      BY <3>1 DEF Hears
    <3>4. \E id \in IdOf(r) : heard[r] \o held[id] \o sent[id] = due[r]
      <4>. WITNESS r \in IdOf(r)
      <4>. QED BY <3>3
    <3>. QED BY <3>4
  <2>4. r >= nextId \/ r < nextId
    BY <2>1
  <2>. QED BY <2>2, <2>3, <2>4, Zenon
<1>. QED BY <1>1, <1>2, <1>3, TypesHold, PTL DEF Spec
=============================================================================
