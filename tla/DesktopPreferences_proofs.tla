---------------------- MODULE DesktopPreferences_proofs ----------------------
(***************************************************************************)
(* Theorems about DesktopPreferences, for any sets of callers, preferences *)
(* and values: types, the focused workspace that reads show, no write      *)
(* behind a load, and writes of different preferences that do not undo     *)
(* each other.                                                             *)
(***************************************************************************)
EXTENDS DesktopPreferences, SequenceTheorems, TLAPS

USE ValueAssumption, SettingAssumption, OperationAssumption
-----------------------------------------------------------------------------
(* Sequences and merges.                                                   *)

In(c, q) == \E k \in DOMAIN q : q[k] = c

LEMMA MemberType ==
  ASSUME NEW S, NEW q \in Seq(S), NEW k \in DOMAIN q
  PROVE  q[k] \in S /\ k \in Nat \ {0}
BY ElementOfSeq, LenProperties

(* What is taken off a queue, and what stays.                              *)
LEMMA TailFacts ==
  ASSUME NEW S, NEW q \in Seq(S), q # <<>>
  PROVE  /\ Head(q) \in S /\ Head(q) = q[1] /\ 1 \in DOMAIN q
         /\ Tail(q) \in Seq(S)
         /\ \A k \in DOMAIN Tail(q) :
              k \in Nat \ {0} /\ k + 1 \in DOMAIN q /\ Tail(q)[k] = q[k + 1]
         /\ \A k \in DOMAIN q : k = 1 \/ (k - 1 \in DOMAIN Tail(q) /\ Tail(q)[k - 1] = q[k])
BY HeadTailProperties, LenProperties, EmptySeq

LEMMA AppendFacts ==
  ASSUME NEW S, NEW q \in Seq(S), NEW e \in S
  PROVE  /\ Append(q, e) \in Seq(S)
         /\ \A k \in DOMAIN Append(q, e) :
              \/ k \in DOMAIN q /\ Append(q, e)[k] = q[k]
              \/ k = Len(q) + 1 /\ Append(q, e)[k] = e
         /\ \A k \in DOMAIN q : /\ k \in DOMAIN Append(q, e) /\ Append(q, e)[k] = q[k]
                                /\ k \in Nat /\ k < Len(q) + 1
         /\ Len(q) + 1 \in DOMAIN Append(q, e) /\ Append(q, e)[Len(q) + 1] = e
BY AppendProperties, LenProperties

LEMMA EmptyFacts ==
  ASSUME NEW S
  PROVE  <<>> \in Seq(S) /\ DOMAIN <<>> = {}
BY EmptySeq

LEMMA MergeType ==
  ASSUME NEW current \in Preferences, NEW patch \in Partial
  PROVE  /\ Merge(current, patch) \in Preferences
         /\ \A f \in Field : Merge(current, patch)[f] = IF patch[f] = Unset THEN current[f] ELSE patch[f]
BY DEF Merge, Preferences, Partial

LEMMA PartialType ==
  /\ Preferences \subseteq Partial
  /\ Nothing \in Partial
  /\ \A f \in Field, v \in Value : Only(f, v) \in Partial /\ Only(f, v)[f] = v
  /\ \A f, g \in Field, v \in Value : f # g => Only(f, v)[g] = Unset
BY DEF Preferences, Nothing, Only, Partial
-----------------------------------------------------------------------------
(* What the steps do to the calls.                                         *)

Others(c) == \A d \in Caller \ {c} : call'[d] = call[d]

LEMMA GetCalls ==
  ASSUME TypeOK, NEW c \in Caller, Get(c)
  PROVE  /\ call' \in [Caller -> CallRecord] /\ Others(c)
         /\ call'[c] = [call[c] EXCEPT !.op = "get", !.state = "sent"]
         /\ call'[c].op = "get" /\ call'[c].state = "sent"
         /\ call'[c].patch = call[c].patch /\ call'[c].next = call[c].next
BY DEF TypeOK, Get, CallRecord, Op, Others

LEMMA ReadType ==
  ASSUME TypeOK, NEW data \in Partial
  PROVE  /\ Read(data) \in Preferences
         /\ focusedWorkspaceOverride # Unset => Read(data)["lastWorkspace"] = focusedWorkspaceOverride
<1>1. Merge(preferences, data) \in Preferences /\ "lastWorkspace" \in Field
  BY MergeType DEF TypeOK, Field
<1>2. focusedWorkspaceOverride \in Value \cup {Unset}
  BY DEF TypeOK
<1>. QED BY <1>1, <1>2 DEF Read, Preferences

LEMMA GetDoneCalls ==
  ASSUME TypeOK, NEW c \in Caller, GetDone(c)
  PROVE  /\ preferences' \in Preferences
         /\ call' \in [Caller -> CallRecord] /\ Others(c)
         /\ call'[c].op = "get" /\ call'[c].state = "done" /\ call'[c].data = preferences'
         /\ call'[c].patch = call[c].patch /\ call'[c].next = call[c].next
<1>1. call[c].data \in Partial
  BY DEF TypeOK, CallRecord
<1>2. preferences' \in Preferences /\ preferences' \in Partial
  BY <1>1, ReadType, PartialType DEF GetDone
<1>. QED BY <1>2 DEF TypeOK, GetDone, CallRecord, Others

LEMMA EnqueueCalls ==
  ASSUME TypeOK, NEW c \in Caller, NEW op \in {"set", "focus"}, NEW f \in Field, NEW v \in Value,
         Enqueue(c, op, f, v)
  PROVE  /\ call' \in [Caller -> CallRecord] /\ Others(c)
         /\ call'[c].op = op /\ call'[c].state = "queued" /\ call'[c].patch = Only(f, v)
BY PartialType DEF TypeOK, Enqueue, CallRecord, Op, Others

LEMMA StartCalls ==
  ASSUME TypeOK, NEW c \in Caller, c = Head(writeQueue), StartWrite
  PROVE  /\ call[c].patch \in Partial
         /\ call' \in [Caller -> CallRecord] /\ Others(c)
         /\ call'[c].op = call[c].op /\ call'[c].patch = call[c].patch
         /\ call'[c].data = call[c].data
         /\ bindingTransitionInFlight => call'[c].state = "done" /\ call'[c].next = call[c].next
         /\ ~ bindingTransitionInFlight =>
              call'[c].state = "sent" /\ call'[c].next = Sent(call[c].patch)
<1>1. call[c] \in CallRecord
  BY DEF TypeOK
<1>2. Sent(call[c].patch) \in Partial
  BY <1>1, MergeType, PartialType DEF Sent, TypeOK, CallRecord
<1>3. CASE bindingTransitionInFlight
  <2>1. call' = [call EXCEPT ![c].state = "done"]
    BY <1>3 DEF StartWrite
  <2>. QED BY <1>1, <1>3, <2>1 DEF TypeOK, CallRecord, Others
<1>4. CASE ~ bindingTransitionInFlight
  <2>1. call' = [call EXCEPT ![c].state = "sent", ![c].next = Sent(call[c].patch)]
    BY <1>4 DEF StartWrite
  <2>. QED BY <1>1, <1>2, <1>4, <2>1 DEF TypeOK, CallRecord, Others
<1>. QED BY <1>3, <1>4

LEMMA WriteDoneCalls ==
  ASSUME TypeOK, NEW c \in Caller, c = Head(writeQueue), WriteDone
  PROVE  /\ call[c] \in CallRecord /\ call[c].state = "answered"
         /\ call' \in [Caller -> CallRecord] /\ Others(c)
         /\ call'[c].op = call[c].op /\ call'[c].state = "done"
         /\ call'[c].patch = call[c].patch /\ call'[c].next = call[c].next
BY DEF TypeOK, WriteDone, CallRecord, Others

Rejected(d, R) == InFlight(d) /\ RouteOf(call[d].op) \in R

(* What a rejection leaves of a call.                                      *)
LEMMA RejectCalls ==
  ASSUME TypeOK, NEW R, RejectRoutes(R)
  PROVE  /\ call' \in [Caller -> CallRecord]
         /\ \A d \in Caller : /\ call'[d].op = call[d].op /\ call'[d].patch = call[d].patch
                              /\ call'[d].next = call[d].next /\ call'[d].data = call[d].data
                              /\ Rejected(d, R) => call'[d].state = "rejected"
                              /\ ~ Rejected(d, R) => call'[d] = call[d]
BY DEF TypeOK, RejectRoutes, CallRecord, Rejected

LEMMA ServeCalls ==
  ASSUME TypeOK, NEW r \in Route, NEW c \in Caller, c = Head(pipe[r]), Serve(r)
  PROVE  /\ call[c] \in CallRecord
         /\ \E s \in Served(c, r) :
              /\ s[1] \in Partial /\ s[2] \in Partial
              /\ memory' = [memory EXCEPT ![r] = s[1]] /\ file' = s[1]
              /\ call[c].state = "sent" => call'[c].data = s[2]
         /\ call' \in [Caller -> CallRecord] /\ Others(c)
         /\ call'[c].op = call[c].op
         /\ call'[c].patch = call[c].patch /\ call'[c].next = call[c].next
         /\ call[c].state = "sent" => call'[c].state = "answered"
         /\ call[c].state # "sent" => call'[c] = call[c]
<1>1. call[c] \in CallRecord
  BY DEF TypeOK
<1>2. PICK s \in Served(c, r) :
           /\ memory' = [memory EXCEPT ![r] = s[1]] /\ file' = s[1]
           /\ call' = IF call[c].state = "sent"
                      THEN [call EXCEPT ![c].state = "answered", ![c].data = s[2]] ELSE call
  BY DEF Serve
<1>3. Image(r) \in Partial /\ call[c].next \in Partial /\ Nothing \in Partial
  BY <1>1, PartialType DEF TypeOK, Image, CallRecord
<1>4. \A v \in Value : [f \in Field |-> v] \in Partial
  BY DEF Partial
<1>5. s[1] \in Partial /\ s[2] \in Partial
  <2>1. CASE call[c].op = "get"
    <3>1. Served(c, r) = {<<Image(r), Image(r)>>}
      BY <2>1 DEF Served, Transition
    <3>. QED BY <1>3, <3>1
  <2>2. CASE call[c].op \in Transition
    <3>1. call[c].op # "get"
      BY <2>2 DEF Transition
    <3>2. Served(c, r) = {<<Image(r), Nothing>>} \cup
                           {<<[f \in Field |-> v], [f \in Field |-> v]>> : v \in Value}
      BY <2>2, <3>1 DEF Served
    <3>3. \/ s = <<Image(r), Nothing>>
          \/ \E v \in Value : s = <<[f \in Field |-> v], [f \in Field |-> v]>>
      BY <3>2
    <3>4. CASE s = <<Image(r), Nothing>>
      BY <1>3, <3>4
    <3>5. ASSUME NEW v \in Value, s = <<[f \in Field |-> v], [f \in Field |-> v]>>
          PROVE  s[1] \in Partial /\ s[2] \in Partial
      <4>1. s[1] = [f \in Field |-> v] /\ s[2] = [f \in Field |-> v]
        BY <3>5
      <4>. QED BY <1>4, <4>1
    <3>. QED BY <3>3, <3>4, <3>5
  <2>3. CASE call[c].op \notin Transition /\ call[c].op # "get"
    <3>1. Served(c, r) = {<<call[c].next, call[c].next>>, <<Image(r), Nothing>>}
      BY <2>3 DEF Served
    <3>. QED BY <1>3, <3>1
  <2>. QED BY <2>1, <2>2, <2>3
<1>6. /\ call' \in [Caller -> CallRecord] /\ Others(c)
      /\ call'[c].op = call[c].op
      /\ call'[c].patch = call[c].patch /\ call'[c].next = call[c].next
      /\ call[c].state = "sent" => call'[c].state = "answered" /\ call'[c].data = s[2]
      /\ call[c].state # "sent" => call'[c] = call[c]
  BY <1>1, <1>2, <1>5 DEF TypeOK, CallRecord, Others
<1>. QED BY <1>1, <1>2, <1>5, <1>6

LEMMA StartTransitionCalls ==
  ASSUME TypeOK, NEW c \in Caller, StartTransition(c)
  PROVE  /\ call[c].state = "idle" /\ ~ WriteStarts
         /\ call' \in [Caller -> CallRecord] /\ Others(c)
         /\ call'[c].op \in Transition /\ call'[c].state = "sent"
         /\ call'[c].patch = call[c].patch /\ call'[c].next = call[c].next
         /\ call'[c].op = "load" => bindingTransitionInFlight'
         /\ call'[c].op # "load" => bindingTransitionInFlight' = bindingTransitionInFlight
         /\ bindingTransitionInFlight' \in BOOLEAN
<1>1. PICK op \in Operations \cap Transition :
        /\ ~ WriteStarts /\ call[c].state = "idle"
        /\ call' = [call EXCEPT ![c].op = op, ![c].state = "sent"]
        /\ bindingTransitionInFlight' =
             IF op = "load" THEN TRUE ELSE bindingTransitionInFlight
  BY DEF StartTransition, FlagRaised
<1>2. call[c] \in CallRecord /\ op \in Op /\ op \in Transition
  BY DEF TypeOK
<1>3. /\ call' \in [Caller -> CallRecord] /\ Others(c)
      /\ call'[c].op = op /\ call'[c].state = "sent"
      /\ call'[c].patch = call[c].patch /\ call'[c].next = call[c].next
  BY <1>1, <1>2 DEF TypeOK, CallRecord, Others
<1>. QED BY <1>1, <1>2, <1>3 DEF TypeOK

LEMMA FinishCalls ==
  ASSUME TypeOK, NEW c \in Caller, FinishTransition(c)
  PROVE  /\ call[c].op \in Transition /\ call[c].state = "answered"
         /\ call' \in [Caller -> CallRecord]
         /\ \A d \in Caller : /\ call'[d].op = call[d].op /\ call'[d].patch = call[d].patch
                              /\ call'[d].next = call[d].next /\ call'[d].data = call[d].data
                              /\ InFlight(d) => call'[d].state \in {"done", "rejected"}
                              /\ IsWrite(d) /\ InFlight(d) => call'[d].state = "rejected"
                              /\ d # c /\ InFlight(d) => call'[d].state = "rejected"
                              /\ ~ InFlight(d) => call'[d] = call[d]
<1>. DEFINE Answered(d) == [call[d] EXCEPT !.state = "done"]
            Refused(d) == [call[d] EXCEPT !.state = "rejected"]
<1>1. call[c].op \in Transition /\ call[c].state = "answered" /\ InFlight(c) /\ ~ IsWrite(c)
  BY DEF FinishTransition, InFlight, IsWrite, Transition
<1>2. call' = [d \in Caller |-> IF d = c THEN Answered(d)
                               ELSE IF InFlight(d) THEN Refused(d) ELSE call[d]]
  BY DEF FinishTransition
<1>3. ASSUME NEW d \in Caller
      PROVE  /\ call[d] \in CallRecord /\ Answered(d) \in CallRecord /\ Refused(d) \in CallRecord
             /\ Answered(d).op = call[d].op /\ Answered(d).patch = call[d].patch
             /\ Answered(d).next = call[d].next /\ Answered(d).data = call[d].data
             /\ Answered(d).state = "done"
             /\ Refused(d).op = call[d].op /\ Refused(d).patch = call[d].patch
             /\ Refused(d).next = call[d].next /\ Refused(d).data = call[d].data
             /\ Refused(d).state = "rejected"
  BY DEF TypeOK, CallRecord
<1>. HIDE DEF Answered, Refused
<1>. QED BY <1>1, <1>2, <1>3
-----------------------------------------------------------------------------
(* The chain of writes: the writes not settled, each once, and only the    *)
(* first of them may have been sent, with whole preferences.               *)
Waiting(c) == call[c].state \in {"queued", "sent", "answered"}
Pending(c) == IsWrite(c) /\ Waiting(c)

QueueInv ==
  /\ \A k \in DOMAIN writeQueue :
       Pending(writeQueue[k]) /\ (k # 1 => call[writeQueue[k]].state = "queued")
  /\ \A j, k \in DOMAIN writeQueue : writeQueue[j] = writeQueue[k] => j = k
  /\ \A c \in Caller : Pending(c) => In(c, writeQueue)

Untouched ==
  \A c \in Caller : /\ call[c].state = "idle" => call[c].op = "get"
                    /\ call[c].state = "queued" => IsWrite(c)
                    /\ ~ IsWrite(c) => call[c].patch = Nothing

SentWhole == \A c \in Caller : IsWrite(c) /\ InFlight(c) => call[c].next \in Preferences

TypeInv == TypeOK /\ SentWhole /\ QueueInv /\ Untouched

LEMMA QueueKept ==
  ASSUME TypeOK, QueueInv, writeQueue' = writeQueue,
         \A d \in Caller : /\ Pending(d)' => Pending(d)
                           /\ Pending(d) => Pending(d)' /\ call'[d].state = call[d].state
  PROVE  QueueInv'
BY MemberType DEF TypeOK, QueueInv, In

(* The first write has been sent: of the others nothing changes.           *)
LEMMA QueueSent ==
  ASSUME TypeOK, QueueInv, writeQueue # <<>>, writeQueue' = writeQueue,
         NEW h \in Caller, h = Head(writeQueue), Pending(h)',
         \A d \in Caller \ {h} : call'[d] = call[d]
  PROVE  QueueInv'
<1>1. h = writeQueue[1] /\ 1 \in DOMAIN writeQueue
      /\ \A k \in DOMAIN writeQueue : writeQueue[k] \in Caller
  BY TailFacts, MemberType DEF TypeOK
<1>2. \A k \in DOMAIN writeQueue : k # 1 => writeQueue[k] \in Caller \ {h}
  BY <1>1 DEF QueueInv
<1>. QED BY <1>1, <1>2 DEF QueueInv, In, Pending, IsWrite, Waiting

(* The first write is settled: the next one is still queued.               *)
LEMMA QueueShrinks ==
  ASSUME TypeOK, QueueInv, writeQueue # <<>>, writeQueue' = Tail(writeQueue),
         NEW h \in Caller, h = Head(writeQueue), ~ Pending(h)',
         \A d \in Caller \ {h} :
           /\ Pending(d)' => Pending(d)
           /\ Pending(d) => Pending(d)' /\ call'[d].state = call[d].state
  PROVE  /\ QueueInv'
         /\ \A k \in DOMAIN writeQueue' : call'[writeQueue'[k]].state = "queued"
<1>1. /\ h = writeQueue[1] /\ 1 \in DOMAIN writeQueue
      /\ \A k \in DOMAIN writeQueue : writeQueue[k] \in Caller /\ k \in Nat \ {0}
      /\ \A k \in DOMAIN writeQueue' :
           k \in Nat \ {0} /\ k + 1 \in DOMAIN writeQueue /\ writeQueue'[k] = writeQueue[k + 1]
      /\ \A k \in DOMAIN writeQueue :
           k = 1 \/ (k - 1 \in DOMAIN writeQueue' /\ writeQueue'[k - 1] = writeQueue[k])
  BY TailFacts, MemberType DEF TypeOK
<1>2. ASSUME NEW d \in Caller, NEW k \in DOMAIN writeQueue, writeQueue[k] = d, k # 1
      PROVE  d # h /\ Pending(d)' /\ call'[d].state = "queued"
  BY <1>1, <1>2 DEF QueueInv
<1>3. ASSUME NEW k \in DOMAIN writeQueue', NEW d, d = writeQueue'[k]
      PROVE  d \in Caller /\ Pending(d)' /\ call'[d].state = "queued"
  <2>1. k + 1 \in DOMAIN writeQueue /\ k + 1 # 1 /\ d = writeQueue[k + 1]
    BY <1>1, <1>3
  <2>. QED BY <1>1, <1>2, <2>1
<1>4. ASSUME NEW j \in DOMAIN writeQueue', NEW k \in DOMAIN writeQueue',
             writeQueue'[j] = writeQueue'[k]
      PROVE  j = k
  <2>1. j + 1 = k + 1 /\ j \in Nat /\ k \in Nat
    BY <1>1, <1>4 DEF QueueInv
  <2>. QED BY <2>1
<1>5. ASSUME NEW d \in Caller, Pending(d)' PROVE \E k \in DOMAIN writeQueue' : writeQueue'[k] = d
  <2>1. d # h
    BY <1>5
  <2>2. PICK k \in DOMAIN writeQueue : writeQueue[k] = d
    BY <1>5, <2>1 DEF QueueInv, In
  <2>3. k # 1
    BY <1>1, <2>1, <2>2
  <2>. QED BY <1>1, <2>2, <2>3
<1>6. \A k \in DOMAIN writeQueue' :
        Pending(writeQueue[k])' /\ call'[writeQueue'[k]].state = "queued"
  BY <1>3
<1>. QED BY <1>4, <1>5, <1>6 DEF QueueInv, In

LEMMA QueueGrows ==
  ASSUME TypeOK, QueueInv, NEW c \in Caller, ~ Pending(c), Pending(c)', call'[c].state = "queued",
         writeQueue' = Append(writeQueue, c), \A d \in Caller \ {c} : call'[d] = call[d]
  PROVE  QueueInv'
<1>1. /\ \A k \in DOMAIN writeQueue : writeQueue[k] \in Caller \ {c}
      /\ \A k \in DOMAIN writeQueue' :
           \/ k \in DOMAIN writeQueue /\ writeQueue'[k] = writeQueue[k]
           \/ k = Len(writeQueue) + 1 /\ writeQueue'[k] = c
      /\ \A k \in DOMAIN writeQueue : k \in DOMAIN writeQueue' /\ writeQueue'[k] = writeQueue[k]
      /\ Len(writeQueue) + 1 \in DOMAIN writeQueue' /\ writeQueue'[Len(writeQueue) + 1] = c
  BY AppendFacts, MemberType DEF TypeOK, QueueInv
<1>2. \A d \in Caller \ {c} : (Pending(d)' <=> Pending(d)) /\ call'[d].state = call[d].state
  BY DEF Pending, IsWrite, Waiting
<1>3. \A k \in DOMAIN writeQueue' :
        Pending(writeQueue[k])' /\ (k # 1 => call'[writeQueue'[k]].state = "queued")
  BY <1>1, <1>2 DEF QueueInv
<1>4. \A j, k \in DOMAIN writeQueue' : writeQueue'[j] = writeQueue'[k] => j = k
  BY <1>1 DEF QueueInv
<1>5. \A d \in Caller : Pending(d)' => \E k \in DOMAIN writeQueue' : writeQueue'[k] = d
  BY <1>1, <1>2 DEF QueueInv, In
<1>. QED BY <1>3, <1>4, <1>5 DEF QueueInv, In

(* A rejection settles the write that is in flight, and no other.          *)
LEMMA QueueRejected ==
  ASSUME TypeOK, QueueInv, NEW R \in SUBSET Route, writeQueue' = QueueAfterReject(R),
         \A d \in Caller :
           /\ call'[d].op = call[d].op
           /\ call'[d].state = call[d].state \/ call'[d].state \in {"done", "rejected"}
           /\ IsWrite(d) /\ Rejected(d, R) => call'[d].state = "rejected"
           /\ IsWrite(d) /\ ~ Rejected(d, R) => call'[d].state = call[d].state
  PROVE  writeQueue' \in Seq(Caller) /\ QueueInv'
<1>1. CASE /\ writeQueue # <<>> /\ InFlight(Head(writeQueue))
           /\ RouteOf(call[Head(writeQueue)].op) \in R
  <2>1. /\ Head(writeQueue) \in Caller /\ Head(writeQueue) = writeQueue[1]
        /\ 1 \in DOMAIN writeQueue /\ Tail(writeQueue) \in Seq(Caller)
        /\ \A k \in DOMAIN writeQueue : writeQueue[k] \in Caller
    BY <1>1, TailFacts, MemberType DEF TypeOK
  <2>2. PICK h \in Caller : h = Head(writeQueue)
    BY <2>1
  <2>3. Rejected(h, R) /\ Pending(h) /\ ~ Pending(h)'
    BY <1>1, <2>1, <2>2 DEF QueueInv, Rejected, Pending, Waiting, IsWrite
  <2>4. \A d \in Caller \ {h} : Pending(d) => call[d].state = "queued"
    BY <2>1, <2>2 DEF QueueInv, In
  <2>5. \A d \in Caller \ {h} :
          /\ Pending(d)' => Pending(d)
          /\ Pending(d) => Pending(d)' /\ call'[d].state = call[d].state
    BY <2>4 DEF Pending, Waiting, IsWrite, Rejected, InFlight
  <2>6. writeQueue' = Tail(writeQueue)
    BY <1>1 DEF QueueAfterReject
  <2>. QED BY <1>1, <2>1, <2>2, <2>3, <2>5, <2>6, QueueShrinks
<1>2. CASE ~ (/\ writeQueue # <<>> /\ InFlight(Head(writeQueue))
              /\ RouteOf(call[Head(writeQueue)].op) \in R)
  <2>1. writeQueue' = writeQueue
    BY <1>2 DEF QueueAfterReject
  <2>2. \A d \in Caller : Pending(d) => ~ Rejected(d, R)
    <3>. SUFFICES ASSUME NEW d \in Caller, Pending(d), Rejected(d, R) PROVE FALSE
      OBVIOUS
    <3>1. PICK k \in DOMAIN writeQueue : writeQueue[k] = d
      BY DEF QueueInv, In
    <3>2. k = 1 /\ writeQueue # <<>>
      BY <3>1, EmptyFacts DEF QueueInv, Rejected, InFlight
    <3>3. Head(writeQueue) = d
      BY <3>1, <3>2, TailFacts DEF TypeOK
    <3>. QED BY <1>2, <3>2, <3>3 DEF Rejected
  <2>3. \A d \in Caller :
          /\ Pending(d)' => Pending(d)
          /\ Pending(d) => Pending(d)' /\ call'[d].state = call[d].state
    BY <2>2 DEF Pending, Waiting, IsWrite
  <2>. QED BY <2>1, <2>3, QueueKept DEF TypeOK
<1>. QED BY <1>1, <1>2

LEMMA HeadFacts ==
  ASSUME TypeInv, writeQueue # <<>>, NEW c, c = Head(writeQueue)
  PROVE  /\ c \in Caller /\ c = writeQueue[1] /\ 1 \in DOMAIN writeQueue
         /\ Pending(c) /\ Tail(writeQueue) \in Seq(Caller)
         /\ \A d \in Caller \ {c} : Pending(d) => call[d].state = "queued"
         /\ InFlight(c) => call[c].next \in Preferences
BY TailFacts DEF TypeInv, TypeOK, QueueInv, SentWhole, Pending, In

LEMMA SendType ==
  ASSUME TypeOK, NEW c \in Caller, Send(c)
  PROVE  pipe' \in [Route -> Seq(Caller)]
<1>1. RouteOf(call'[c].op) \in Route
  BY DEF RouteOf, Route
<1>. QED BY <1>1, AppendFacts DEF TypeOK, Send

LEMMA ChildType ==
  ASSUME TypeOK, NEW R, DropChildren(R)
  PROVE  pipe' \in [Route -> Seq(Caller)] /\ memory' \in [Route -> Partial \cup {NoImage}]
BY EmptyFacts DEF TypeOK, DropChildren

LEMMA GetTypes == ASSUME TypeInv, NEW c \in Caller, Get(c) PROVE TypeInv'
<1>. USE DEF TypeInv
<1>1. TypeOK'
  BY GetCalls, SendType DEF TypeOK, Get, adapter, images
<1>2. \A d \in Caller : Pending(d)' <=> Pending(d)
  BY GetCalls DEF Pending, Waiting, IsWrite, Get, Untouched, Others
<1>3. \A d \in Caller : Pending(d) => call'[d].state = call[d].state
  BY GetCalls DEF Pending, Waiting, Get, Others
<1>4. QueueInv'
  BY <1>2, <1>3, QueueKept DEF Get, adapter
<1>5. /\ call[c].op = "get" /\ call'[c].op = "get" /\ call'[c].state = "sent"
      /\ call'[c].patch = call[c].patch /\ \A d \in Caller \ {c} : call'[d] = call[d]
  BY GetCalls DEF Get, Untouched, Others
<1>6. SentWhole' /\ Untouched'
  BY <1>5 DEF SentWhole, Untouched, IsWrite, InFlight
<1>. QED BY <1>1, <1>4, <1>6

LEMMA GetDoneTypes == ASSUME TypeInv, NEW c \in Caller, GetDone(c) PROVE TypeInv'
<1>. USE DEF TypeInv
<1>1. TypeOK'
  BY GetDoneCalls DEF TypeOK, GetDone, images
<1>2. \A d \in Caller : Pending(d)' <=> Pending(d)
  BY GetDoneCalls DEF Pending, Waiting, IsWrite, GetDone, Others
<1>3. \A d \in Caller : Pending(d) => call'[d].state = call[d].state
  BY GetDoneCalls DEF Pending, IsWrite, GetDone, Others
<1>4. QueueInv'
  BY <1>2, <1>3, QueueKept DEF GetDone
<1>5. /\ call[c].op = "get" /\ call'[c].op = "get" /\ call'[c].state = "done"
      /\ call'[c].patch = call[c].patch /\ \A d \in Caller \ {c} : call'[d] = call[d]
  BY GetDoneCalls DEF GetDone, Others
<1>6. SentWhole' /\ Untouched'
  BY <1>5 DEF SentWhole, Untouched, IsWrite, InFlight
<1>. QED BY <1>1, <1>4, <1>6

LEMMA EnqueueTypes ==
  ASSUME TypeInv, NEW c \in Caller, NEW op \in {"set", "focus"}, NEW f \in Field, NEW v \in Value,
         Enqueue(c, op, f, v), preferences' \in Preferences,
         focusedWorkspaceOverride' \in Value \cup {Unset}
  PROVE  TypeInv'
<1>. USE DEF TypeInv
<1>1. settled' \in Partial /\ due' \in [Caller -> Partial]
  BY DEF TypeOK, Enqueue, Unsettle, Partial
<1>2. writeQueue' \in Seq(Caller)
  BY AppendFacts DEF TypeOK, Enqueue
<1>3. TypeOK'
  BY <1>1, <1>2, EnqueueCalls DEF TypeOK, Enqueue, images
<1>4. ~ Pending(c) /\ Pending(c)'
  BY EnqueueCalls DEF Pending, Waiting, IsWrite, Enqueue
<1>5. QueueInv'
  BY <1>4, EnqueueCalls, QueueGrows DEF Enqueue, Others
<1>6. IsWrite(c)' /\ call'[c].state = "queued" /\ \A d \in Caller \ {c} : call'[d] = call[d]
  BY EnqueueCalls DEF IsWrite, Others
<1>7. SentWhole'
  BY <1>6 DEF SentWhole, InFlight, IsWrite
<1>8. Untouched'
  BY <1>6 DEF Untouched, IsWrite
<1>. QED BY <1>3, <1>5, <1>7, <1>8

LEMMA SetTypes == ASSUME TypeInv, NEW c \in Caller, Set(c) PROVE TypeInv'
BY EnqueueTypes DEF Set, TypeInv, TypeOK

LEMMA FocusTypes == ASSUME TypeInv, NEW c \in Caller, Focus(c) PROVE TypeInv'
<1>1. PICK v \in Value : /\ Enqueue(c, "focus", "lastWorkspace", v)
                         /\ focusedWorkspaceOverride' = v
                         /\ preferences' = [preferences EXCEPT !["lastWorkspace"] = v]
  BY DEF Focus
<1>2. preferences' \in Preferences /\ "lastWorkspace" \in Field
  BY <1>1 DEF TypeInv, TypeOK, Preferences, Field
<1>. QED BY <1>1, <1>2, EnqueueTypes

LEMMA FocusedType ==
  ASSUME TypeOK, NEW patch \in Partial
  PROVE  Focused(patch) \in Value \cup {Unset}
BY DEF TypeOK, Focused, Partial, Field

LEMMA StartTypes == ASSUME TypeInv, StartWrite PROVE TypeInv'
<1>. USE DEF TypeInv
<1>1. PICK c \in Caller : c = Head(writeQueue) /\ writeQueue # <<>> /\ call[c].state = "queued"
  BY HeadFacts DEF StartWrite, WriteStarts
<1>2. Pending(c) /\ Tail(writeQueue) \in Seq(Caller)
  BY <1>1, HeadFacts
<1>3. call[c].patch \in Partial /\ Others(c) /\ call' \in [Caller -> CallRecord]
  BY <1>1, StartCalls
<1>4. CASE bindingTransitionInFlight
  <2>1. /\ preferences' = Merge(preferences, call[c].patch)
        /\ focusedWorkspaceOverride' = Focused(call[c].patch)
        /\ writeQueue' = Tail(writeQueue) /\ pipe' = pipe
    BY <1>1, <1>4 DEF StartWrite
  <2>2. TypeOK'
    BY <1>2, <1>3, <2>1, MergeType, FocusedType DEF TypeOK, StartWrite, images
  <2>3. call'[c].state = "done" /\ call'[c].op = call[c].op /\ call'[c].patch = call[c].patch
    BY <1>1, <1>4, StartCalls
  <2>4. /\ ~ Pending(c)'
        /\ \A d \in Caller \ {c} :
             (Pending(d)' <=> Pending(d)) /\ call'[d].state = call[d].state
    BY <1>3, <2>3 DEF Pending, Waiting, IsWrite, Others
  <2>5. QueueInv'
    BY <1>1, <2>1, <2>4, QueueShrinks
  <2>6. SentWhole' /\ Untouched'
    BY <1>3, <2>3 DEF SentWhole, Untouched, InFlight, IsWrite, Others
  <2>. QED BY <2>2, <2>5, <2>6
<1>5. CASE ~ bindingTransitionInFlight
  <2>1. /\ preferences' = preferences /\ focusedWorkspaceOverride' = focusedWorkspaceOverride
        /\ writeQueue' = writeQueue /\ Send(c)
    BY <1>1, <1>5 DEF StartWrite
  <2>2. TypeOK'
    BY <1>3, <2>1, SendType DEF TypeOK, StartWrite, images
  <2>3. /\ call'[c].state = "sent" /\ call'[c].op = call[c].op
        /\ call'[c].patch = call[c].patch /\ call'[c].next = Sent(call[c].patch)
    BY <1>1, <1>5, StartCalls
  <2>4. Pending(c)'
    BY <1>2, <2>3 DEF Pending, Waiting, IsWrite
  <2>5. QueueInv'
    BY <1>1, <1>3, <2>1, <2>4, QueueSent DEF Others
  <2>6. Sent(call[c].patch) \in Preferences
    BY <1>3, MergeType DEF Sent, TypeOK
  <2>7. SentWhole' /\ Untouched'
    BY <1>3, <2>3, <2>6 DEF SentWhole, Untouched, InFlight, IsWrite, Others
  <2>. QED BY <2>2, <2>5, <2>7
<1>. QED BY <1>4, <1>5

LEMMA AcknowledgedType ==
  ASSUME TypeOK, NEW c \in Caller
  PROVE  Acknowledged(c) \in Partial
<1>1. call[c].patch \in Partial
  BY DEF TypeOK, CallRecord
<1>. QED BY <1>1 DEF Acknowledged, TypeOK, Partial

LEMMA WriteDoneTypes == ASSUME TypeInv, WriteDone PROVE TypeInv'
<1>. USE DEF TypeInv
<1>1. PICK c \in Caller : c = Head(writeQueue) /\ writeQueue # <<>>
  BY HeadFacts DEF WriteDone
<1>2. /\ call[c] \in CallRecord /\ call[c].state = "answered" /\ Others(c)
      /\ call' \in [Caller -> CallRecord]
      /\ call'[c].op = call[c].op /\ call'[c].state = "done" /\ call'[c].patch = call[c].patch
  BY <1>1, WriteDoneCalls
<1>3. Tail(writeQueue) \in Seq(Caller) /\ call[c].next \in Preferences
  BY <1>1, <1>2, HeadFacts DEF InFlight
<1>4. /\ preferences' = Merge(call[c].next, call[c].data)
      /\ focusedWorkspaceOverride' = Focused(call[c].patch)
      /\ writeQueue' = Tail(writeQueue) /\ settled' = Acknowledged(c)
  BY <1>1 DEF WriteDone
<1>5. preferences' \in Preferences /\ focusedWorkspaceOverride' \in Value \cup {Unset}
  BY <1>2, <1>3, <1>4, MergeType, FocusedType DEF CallRecord
<1>6. TypeOK'
  BY <1>2, <1>3, <1>4, <1>5, AcknowledgedType DEF TypeOK, WriteDone, images
<1>7. /\ ~ Pending(c)'
      /\ \A d \in Caller \ {c} :
           (Pending(d)' <=> Pending(d)) /\ call'[d].state = call[d].state
  BY <1>2 DEF Pending, Waiting, IsWrite, Others
<1>8. QueueInv'
  BY <1>1, <1>4, <1>7, QueueShrinks
<1>9. SentWhole' /\ Untouched'
  BY <1>2 DEF SentWhole, Untouched, InFlight, IsWrite, Others
<1>. QED BY <1>6, <1>8, <1>9

LEMMA RejectTypes ==
  ASSUME TypeInv, NEW R \in SUBSET Route, RejectRoutes(R)
  PROVE  /\ writeQueue' \in Seq(Caller) /\ call' \in [Caller -> CallRecord]
         /\ QueueInv' /\ SentWhole' /\ Untouched'
<1>. USE DEF TypeInv
<1>1. /\ call' \in [Caller -> CallRecord]
      /\ \A d \in Caller : /\ call'[d].op = call[d].op /\ call'[d].patch = call[d].patch
                           /\ call'[d].next = call[d].next
                           /\ Rejected(d, R) => call'[d].state = "rejected"
                           /\ ~ Rejected(d, R) => call'[d] = call[d]
  BY RejectCalls
<1>2. writeQueue' \in Seq(Caller) /\ QueueInv'
  BY <1>1, QueueRejected DEF RejectRoutes
<1>3. SentWhole' /\ Untouched'
  BY <1>1 DEF SentWhole, Untouched, InFlight, IsWrite
<1>. QED BY <1>1, <1>2, <1>3

LEMMA LoseChildTypes == ASSUME TypeInv, NEW r \in Route, LoseChild(r) PROVE TypeInv'
<1>1. {r} \in SUBSET Route
  OBVIOUS
<1>2. /\ writeQueue' \in Seq(Caller) /\ call' \in [Caller -> CallRecord]
      /\ QueueInv' /\ SentWhole' /\ Untouched'
  BY <1>1, RejectTypes DEF LoseChild
<1>3. pipe' \in [Route -> Seq(Caller)] /\ memory' \in [Route -> Partial \cup {NoImage}]
  BY ChildType DEF LoseChild, TypeInv
<1>4. bindingTransitionInFlight' \in BOOLEAN
  BY DEF LoseChild
<1>. QED BY <1>2, <1>3, <1>4 DEF TypeInv, TypeOK, LoseChild

LEMMA MalformedTypes == ASSUME TypeInv, NEW r \in Route, Malformed(r) PROVE TypeInv'
<1>1. {r} \in SUBSET Route
  OBVIOUS
<1>2. /\ writeQueue' \in Seq(Caller) /\ call' \in [Caller -> CallRecord]
      /\ QueueInv' /\ SentWhole' /\ Untouched'
  BY <1>1, RejectTypes DEF Malformed
<1>3. bindingTransitionInFlight' \in BOOLEAN
  BY DEF Malformed
<1>. QED BY <1>2, <1>3 DEF TypeInv, TypeOK, Malformed, images

LEMMA ServeTypes == ASSUME TypeInv, NEW r \in Route, Serve(r) PROVE TypeInv'
<1>. USE DEF TypeInv
<1>1. PICK c \in Caller : c = Head(pipe[r]) /\ Tail(pipe[r]) \in Seq(Caller)
  BY TailFacts DEF Serve, TypeOK
<1>2. \E s \in Served(c, r) :
        s[1] \in Partial /\ memory' = [memory EXCEPT ![r] = s[1]] /\ file' = s[1]
  BY <1>1, ServeCalls
<1>3. /\ call' \in [Caller -> CallRecord] /\ Others(c)
      /\ call'[c].op = call[c].op
      /\ call'[c].patch = call[c].patch /\ call'[c].next = call[c].next
      /\ call[c].state = "sent" => call'[c].state = "answered"
      /\ call[c].state # "sent" => call'[c] = call[c]
  BY <1>1, ServeCalls
<1>4. memory' \in [Route -> Partial \cup {NoImage}] /\ file' \in Partial
  BY <1>2 DEF TypeOK
<1>5. pipe' \in [Route -> Seq(Caller)]
  BY <1>1 DEF Serve, TypeOK
<1>6. settled' \in Partial /\ due' \in [Caller -> Partial]
  BY PartialType DEF Serve, TypeOK
<1>7. TypeOK'
  BY <1>3, <1>4, <1>5, <1>6 DEF TypeOK, Serve, adapter
<1>8. SentWhole' /\ Untouched'
  BY <1>3 DEF SentWhole, Untouched, InFlight, IsWrite, Others
<1>9. \A d \in Caller : Pending(d)' <=> Pending(d)
  BY <1>3 DEF Pending, Waiting, IsWrite, Others
<1>10. CASE call[c].state = "sent" /\ Pending(c)
  <2>1. PICK k \in DOMAIN writeQueue : writeQueue[k] = c
    BY <1>10 DEF QueueInv, In
  <2>2. k = 1 /\ writeQueue # <<>>
    BY <1>10, <2>1, EmptyFacts DEF QueueInv
  <2>3. c = Head(writeQueue)
    BY <2>1, <2>2, HeadFacts
  <2>4. writeQueue' = writeQueue /\ Pending(c)' /\ \A d \in Caller \ {c} : call'[d] = call[d]
    BY <1>3, <1>9, <1>10 DEF Serve, adapter, Others
  <2>5. QueueInv'
    BY <2>2, <2>3, <2>4, QueueSent
  <2>. QED BY <1>7, <1>8, <2>5
<1>11. CASE ~ (call[c].state = "sent" /\ Pending(c))
  <2>1. \A d \in Caller : Pending(d) => call'[d].state = call[d].state
    BY <1>3, <1>11 DEF Others
  <2>2. QueueInv'
    BY <1>9, <2>1, QueueKept DEF Serve, adapter
  <2>. QED BY <1>7, <1>8, <2>2
<1>. QED BY <1>10, <1>11

LEMMA ServeOtherTypes == ASSUME TypeInv, NEW r \in Route, ServeOther(r) PROVE TypeInv'
<1>. USE DEF TypeInv
<1>1. Image(r) \in Partial
  BY DEF Image, TypeOK
<1>2. TypeOK'
  BY <1>1 DEF ServeOther, TypeOK, adapter
<1>3. QueueInv' /\ SentWhole' /\ Untouched'
  BY DEF ServeOther, adapter, QueueInv, SentWhole, Untouched, Pending, Waiting, IsWrite, InFlight, In
<1>. QED BY <1>2, <1>3

LEMMA StartTransitionTypes == ASSUME TypeInv, NEW c \in Caller, StartTransition(c) PROVE TypeInv'
<1>. USE DEF TypeInv
<1>1. /\ call[c].state = "idle" /\ bindingTransitionInFlight' \in BOOLEAN
      /\ call' \in [Caller -> CallRecord] /\ Others(c)
      /\ call'[c].op \in Transition /\ call'[c].state = "sent"
      /\ call'[c].patch = call[c].patch /\ call'[c].next = call[c].next
  BY StartTransitionCalls
<1>2. TypeOK'
  BY <1>1, SendType DEF TypeOK, StartTransition, images
<1>3. ~ IsWrite(c)' /\ ~ Pending(c) /\ ~ IsWrite(c)
  BY <1>1 DEF IsWrite, Transition, Pending, Waiting, Untouched
<1>4. \A d \in Caller : /\ Pending(d)' <=> Pending(d)
                        /\ Pending(d) => call'[d].state = call[d].state
  BY <1>1, <1>3 DEF Pending, Waiting, IsWrite, Others
<1>5. QueueInv'
  <2>1. writeQueue' = writeQueue
    BY DEF StartTransition
  <2>. QED BY <1>4, <2>1, QueueKept
<1>6. SentWhole' /\ Untouched'
  BY <1>1, <1>3 DEF SentWhole, Untouched, InFlight, IsWrite, Others
<1>. QED BY <1>2, <1>5, <1>6

LEMMA FinishTypes == ASSUME TypeInv, NEW c \in Caller, FinishTransition(c) PROVE TypeInv'
<1>. USE DEF TypeInv
<1>1. /\ call' \in [Caller -> CallRecord]
      /\ \A d \in Caller : /\ call'[d].op = call[d].op /\ call'[d].patch = call[d].patch
                           /\ InFlight(d) => call'[d].state \in {"done", "rejected"}
                           /\ IsWrite(d) /\ InFlight(d) => call'[d].state = "rejected"
                           /\ ~ InFlight(d) => call'[d] = call[d]
  BY FinishCalls
<1>2. \A d \in Caller : /\ Rejected(d, Route) <=> InFlight(d)
                        /\ ~ InFlight(d)'
  BY <1>1 DEF Rejected, RouteOf, Route, InFlight
<1>3. writeQueue' \in Seq(Caller) /\ QueueInv'
  <2>1. \A d \in Caller :
           /\ call'[d].op = call[d].op
           /\ call'[d].state = call[d].state \/ call'[d].state \in {"done", "rejected"}
           /\ IsWrite(d) /\ Rejected(d, Route) => call'[d].state = "rejected"
           /\ IsWrite(d) /\ ~ Rejected(d, Route) => call'[d].state = call[d].state
    BY <1>1, <1>2
  <2>. QED BY <2>1, QueueRejected DEF FinishTransition
<1>4. pipe' \in [Route -> Seq(Caller)] /\ memory' \in [Route -> Partial \cup {NoImage}]
  BY ChildType DEF FinishTransition
<1>5. bindingTransitionInFlight' \in BOOLEAN
  BY DEF FinishTransition
<1>6. TypeOK'
  BY <1>1, <1>3, <1>4, <1>5 DEF TypeOK, FinishTransition
<1>7. SentWhole' /\ Untouched'
  BY <1>1, <1>2 DEF SentWhole, Untouched, InFlight, IsWrite
<1>. QED BY <1>3, <1>6, <1>7

LEMMA TypeInit == Init => TypeInv
<1>. SUFFICES ASSUME Init PROVE TypeInv
  OBVIOUS
<1>1. Nothing \in Partial /\ [f \in Field |-> Default] \in Preferences
  BY PartialType DEF Preferences
<1>2. call \in [Caller -> CallRecord]
  BY <1>1 DEF Init, CallRecord, Op
<1>3. TypeOK
  BY <1>1, <1>2, EmptyFacts, PartialType DEF Init, TypeOK
<1>4. SentWhole /\ QueueInv /\ Untouched
  BY EmptyFacts DEF Init, SentWhole, QueueInv, Untouched, InFlight, Pending, Waiting, IsWrite
<1>. QED BY <1>3, <1>4 DEF TypeInv

LEMMA TypeStep == TypeInv /\ [Next]_vars => TypeInv'
<1>. SUFFICES ASSUME TypeInv, [Next]_vars PROVE TypeInv'
  OBVIOUS
<1>1. CASE UNCHANGED vars
  BY <1>1 DEF vars, adapter, images, TypeInv, TypeOK, SentWhole, QueueInv, Untouched,
              InFlight, Pending, Waiting, IsWrite, In
<1>. QED
  BY <1>1, GetTypes, GetDoneTypes, SetTypes, FocusTypes, StartTransitionTypes, FinishTypes,
     StartTypes, WriteDoneTypes, LoseChildTypes, MalformedTypes, ServeTypes, ServeOtherTypes
     DEF Next

(* Every variable keeps its type: the preferences of the adapter and those *)
(* it sends are whole, although callers, children and files give parts.    *)
THEOREM TypeCorrect == Spec => []TypeOK
<1>1. TypeInv => TypeOK
  BY DEF TypeInv
<1>. QED BY <1>1, TypeInit, TypeStep, PTL DEF Spec
-----------------------------------------------------------------------------
(* Promises: while a write of a field is not settled, no value of the      *)
(* field counts as acknowledged.                                           *)
Unsettled ==
  \A c \in Caller, f \in Field :
    Waiting(c) /\ call[c].patch[f] # Unset =>
      settled[f] = Unset /\ \A d \in Caller : due[d][f] = Unset

(* What a step does to the calls that wait, except that it may queue one.  *)
CallsKept ==
  \A d \in Caller :
    Waiting(d)' => \/ call'[d].patch = Nothing
                   \/ Waiting(d) /\ call'[d].patch = call[d].patch

LEMMA CallsKeptStep ==
  ASSUME TypeInv, [Next]_vars
  PROVE  CallsKept \/ \E c \in Caller : Set(c) \/ Focus(c)
<1>. USE DEF TypeInv
<1>1. ASSUME NEW c \in Caller, Get(c) PROVE CallsKept
  <2>1. call[c].patch = Nothing
    BY <1>1 DEF Get, Untouched, IsWrite
  <2>. QED BY <1>1, <2>1, GetCalls DEF CallsKept, Waiting, Others
<1>2. ASSUME NEW c \in Caller, GetDone(c) PROVE CallsKept
  BY <1>2, GetDoneCalls DEF CallsKept, Waiting, Others
<1>3. ASSUME NEW c \in Caller, StartTransition(c) PROVE CallsKept
  BY <1>3, StartTransitionCalls DEF CallsKept, Waiting, Others, Untouched, IsWrite
<1>4. ASSUME NEW c \in Caller, FinishTransition(c) PROVE CallsKept
  <2>. SUFFICES ASSUME NEW d \in Caller, Waiting(d)'
                PROVE  Waiting(d) /\ call'[d].patch = call[d].patch
    BY DEF CallsKept
  <2>1. ~ InFlight(d)
    BY <1>4, FinishCalls DEF Waiting
  <2>. QED BY <1>4, <2>1, FinishCalls DEF Waiting
<1>5. ASSUME StartWrite PROVE CallsKept
  <2>1. PICK c \in Caller : c = Head(writeQueue) /\ Pending(c)
    BY <1>5, HeadFacts DEF StartWrite, WriteStarts
  <2>. QED BY <1>5, <2>1, StartCalls DEF CallsKept, Waiting, Others, Pending
<1>6. ASSUME WriteDone PROVE CallsKept
  <2>1. PICK c \in Caller : c = Head(writeQueue)
    BY <1>6, HeadFacts DEF WriteDone
  <2>. QED BY <1>6, <2>1, WriteDoneCalls DEF CallsKept, Waiting, Others
<1>7. ASSUME NEW R, RejectRoutes(R) PROVE CallsKept
  BY <1>7, RejectCalls DEF CallsKept, Waiting
<1>8. ASSUME NEW r \in Route, Serve(r) PROVE CallsKept
  <2>1. PICK c \in Caller : c = Head(pipe[r])
    BY <1>8, TailFacts DEF Serve, TypeOK
  <2>. QED BY <1>8, <2>1, ServeCalls DEF CallsKept, Waiting, Others
<1>9. CASE call' = call
  BY <1>9 DEF CallsKept, Waiting
<1>10. CASE Next
  BY <1>1, <1>2, <1>3, <1>4, <1>5, <1>6, <1>7, <1>8, <1>9, <1>10
     DEF Next, LoseChild, Malformed, ServeOther
<1>. QED BY <1>9, <1>10 DEF vars

(* A write that is queued takes back what was promised about its field.    *)
LEMMA EnqueueUnsettles ==
  ASSUME TypeOK, NEW c \in Caller, NEW op \in {"set", "focus"}, NEW f \in Field, NEW v \in Value,
         Enqueue(c, op, f, v)
  PROVE  /\ settled'[f] = Unset /\ \A d \in Caller : due'[d][f] = Unset
         /\ \A g \in Field \ {f} : /\ settled'[g] = settled[g] /\ Only(f, v)[g] = Unset
                                   /\ \A d \in Caller : due'[d][g] = due[d][g]
BY PartialType DEF TypeOK, Enqueue, Unsettle, Partial

LEMMA UnsettledEnqueue ==
  ASSUME TypeInv, Unsettled,
         NEW c \in Caller, NEW op \in {"set", "focus"}, NEW f \in Field, NEW v \in Value,
         Enqueue(c, op, f, v)
  PROVE  Unsettled'
<1>. SUFFICES ASSUME NEW d \in Caller, NEW g \in Field, g # f, Waiting(d)', call'[d].patch[g] # Unset
              PROVE  settled'[g] = Unset /\ \A e \in Caller : due'[e][g] = Unset
  BY EnqueueUnsettles DEF Unsettled, TypeInv
<1>1. d # c
  BY EnqueueCalls, EnqueueUnsettles DEF TypeInv
<1>2. Waiting(d) /\ call'[d].patch = call[d].patch
  BY <1>1, EnqueueCalls DEF TypeInv, Others, Waiting
<1>. QED BY <1>2, EnqueueUnsettles DEF Unsettled, TypeInv

(* What an acknowledgement settles.                                        *)
LEMMA WriteDoneSettles ==
  ASSUME TypeInv, WriteDone, NEW c \in Caller, c = Head(writeQueue), NEW f \in Field
  PROVE  \/ settled'[f] = settled[f]
         \/ /\ settled'[f] = call[c].patch[f] /\ call[c].patch[f] # Unset
            /\ call[c].data # Nothing
            /\ \A d \in Caller \ {c} : Waiting(d) => call[d].patch[f] = Unset
<1>1. settled' = Acknowledged(c)
  BY DEF WriteDone
<1>. QED BY <1>1 DEF Acknowledged, Waiting

LEMMA UnsettledStep == TypeInv /\ Unsettled /\ [Next]_vars => Unsettled'
<1>. SUFFICES ASSUME TypeInv, Unsettled, [Next]_vars PROVE Unsettled'
  OBVIOUS
<1>1. ASSUME NEW c \in Caller, Set(c) PROVE Unsettled'
  BY <1>1, UnsettledEnqueue DEF Set
<1>2. ASSUME NEW c \in Caller, Focus(c) PROVE Unsettled'
  BY <1>2, UnsettledEnqueue DEF Focus, Field
<1>3. ASSUME CallsKept, \A f \in Field : /\ settled'[f] \in {settled[f], Unset}
                                         /\ \A d \in Caller : due'[d][f] \in {due[d][f], settled[f], Unset}
      PROVE  Unsettled'
  <2>. SUFFICES ASSUME NEW d \in Caller, NEW f \in Field, Waiting(d)', call'[d].patch[f] # Unset
                PROVE  settled'[f] = Unset /\ \A e \in Caller : due'[e][f] = Unset
    BY DEF Unsettled
  <2>1. Waiting(d) /\ call[d].patch[f] # Unset
    BY <1>3 DEF CallsKept, Nothing
  <2>. QED BY <1>3, <2>1 DEF Unsettled
<1>4. ASSUME CallsKept, WriteDone PROVE Unsettled'
  <2>1. PICK c \in Caller : c = Head(writeQueue)
    BY <1>4, HeadFacts DEF WriteDone
  <2>2. call'[c].state = "done" /\ due' = due
    BY <1>4, <2>1, WriteDoneCalls DEF TypeInv, WriteDone
  <2>. SUFFICES ASSUME NEW d \in Caller, NEW f \in Field, Waiting(d)', call'[d].patch[f] # Unset
                PROVE  settled'[f] = Unset /\ \A e \in Caller : due'[e][f] = Unset
    BY DEF Unsettled
  <2>3. d # c /\ Waiting(d) /\ call[d].patch[f] # Unset
    BY <1>4, <2>2 DEF CallsKept, Nothing, Waiting
  <2>4. settled'[f] = settled[f]
    BY <1>4, <2>1, <2>3, WriteDoneSettles
  <2>. QED BY <2>2, <2>3, <2>4 DEF Unsettled
<1>5. ASSUME NEW c \in Caller, Get(c)
      PROVE  \A f \in Field : /\ settled'[f] \in {settled[f], Unset}
                              /\ \A d \in Caller : due'[d][f] \in {due[d][f], settled[f], Unset}
  BY <1>5 DEF Get, TypeInv, TypeOK
<1>6. ASSUME NEW r \in Route, Serve(r)
      PROVE  \A f \in Field : /\ settled'[f] \in {settled[f], Unset}
                              /\ \A d \in Caller : due'[d][f] \in {due[d][f], settled[f], Unset}
  BY <1>6 DEF Serve, Nothing
<1>7. CASE settled' = settled /\ due' = due
  <2>1. \A f \in Field : /\ settled'[f] \in {settled[f], Unset}
                         /\ \A d \in Caller : due'[d][f] \in {due[d][f], settled[f], Unset}
    BY <1>7
  <2>. QED BY <1>1, <1>2, <1>3, <2>1, CallsKeptStep
<1>8. CASE Next /\ ~ (settled' = settled /\ due' = due)
  <2>1. \/ \E c \in Caller : Get(c) \/ Set(c) \/ Focus(c)
        \/ WriteDone \/ \E r \in Route : Serve(r)
    BY <1>8 DEF Next, GetDone, StartTransition, FinishTransition, StartWrite, LoseChild, Malformed,
                ServeOther
  <2>. QED BY <1>1, <1>2, <1>3, <1>4, <1>5, <1>6, <2>1, CallsKeptStep
<1>. QED BY <1>7, <1>8 DEF vars
-----------------------------------------------------------------------------
(* The focused workspace.                                                  *)

(* What is promised of the workspace is what reads are made to show.       *)
Overridden(v) == v \in {Unset, focusedWorkspaceOverride}

FocusKept ==
  /\ Overridden(settled["lastWorkspace"])
  /\ \A c \in Caller : call[c].op = "get" /\ InFlight(c) => Overridden(due[c]["lastWorkspace"])

FocusInv == Unsettled /\ FocusKept /\ FocusIsShown

NothingIsDue == \A d \in Caller : due'[d]["lastWorkspace"] = Unset

(* The override changes only while nothing is promised to a read, and what *)
(* is promised to the next ones is the new override.                       *)
LEMMA OverrideSteps ==
  ASSUME TypeInv, FocusInv, [Next]_vars
  PROVE  \/ /\ focusedWorkspaceOverride' = focusedWorkspaceOverride
            /\ settled'["lastWorkspace"] \in {settled["lastWorkspace"], Unset}
         \/ /\ settled'["lastWorkspace"] \in {Unset, focusedWorkspaceOverride'}
            /\ NothingIsDue
<1>. DEFINE Goal == \/ /\ focusedWorkspaceOverride' = focusedWorkspaceOverride
                       /\ settled'["lastWorkspace"] \in {settled["lastWorkspace"], Unset}
                    \/ /\ settled'["lastWorkspace"] \in {Unset, focusedWorkspaceOverride'}
                       /\ NothingIsDue
<1>. SUFFICES Goal
  OBVIOUS
<1>0. "lastWorkspace" \in Field
  BY DEF Field
<1>1. ASSUME NEW c \in Caller, Focus(c) PROVE Goal
  BY <1>0, <1>1, EnqueueUnsettles DEF Focus, TypeInv, NothingIsDue
<1>2. ASSUME NEW c \in Caller, Set(c) PROVE Goal
  <2>1. PICK f \in Field, v \in Value : Enqueue(c, "set", f, v)
    BY <1>2 DEF Set
  <2>. QED BY <1>0, <1>2, <2>1, EnqueueUnsettles DEF Set, TypeInv
<1>3. ASSUME StartWrite PROVE Goal
  <2>1. PICK c \in Caller : c = Head(writeQueue) /\ Pending(c)
    BY <1>3, HeadFacts DEF StartWrite, WriteStarts
  <2>2. /\ settled' = settled /\ due' = due
        /\ focusedWorkspaceOverride' \in {focusedWorkspaceOverride, Focused(call[c].patch)}
    BY <1>3, <2>1 DEF StartWrite
  <2>3. CASE call[c].patch["lastWorkspace"] = Unset
    BY <2>2, <2>3 DEF Focused
  <2>4. CASE call[c].patch["lastWorkspace"] # Unset
    BY <1>0, <2>1, <2>2, <2>4 DEF FocusInv, Unsettled, Pending, NothingIsDue
  <2>. QED BY <2>3, <2>4
<1>4. ASSUME WriteDone PROVE Goal
  <2>1. PICK c \in Caller : c = Head(writeQueue) /\ Pending(c)
    BY <1>4, HeadFacts DEF WriteDone
  <2>2. due' = due /\ focusedWorkspaceOverride' = Focused(call[c].patch)
    BY <1>4, <2>1 DEF WriteDone
  <2>3. CASE call[c].patch["lastWorkspace"] = Unset
    BY <1>0, <1>4, <2>1, <2>2, <2>3, WriteDoneSettles DEF Focused
  <2>4. CASE call[c].patch["lastWorkspace"] # Unset
    <3>1. settled["lastWorkspace"] = Unset /\ NothingIsDue
      BY <1>0, <2>1, <2>2, <2>4 DEF FocusInv, Unsettled, Pending, NothingIsDue
    <3>2. settled'["lastWorkspace"] \in {Unset, call[c].patch["lastWorkspace"]}
      BY <1>0, <1>4, <2>1, <3>1, WriteDoneSettles
    <3>. QED BY <2>2, <2>4, <3>1, <3>2 DEF Focused
  <2>. QED BY <2>3, <2>4
<1>5. ASSUME NEW r \in Route, Serve(r) PROVE Goal
  BY <1>0, <1>5 DEF Serve, adapter, Nothing
<1>6. CASE focusedWorkspaceOverride' = focusedWorkspaceOverride /\ settled' = settled
  BY <1>6
<1>7. CASE Next
  BY <1>1, <1>2, <1>3, <1>4, <1>5, <1>6, <1>7
     DEF Next, Get, GetDone, StartTransition, FinishTransition, LoseChild, Malformed, ServeOther,
         adapter
<1>. QED BY <1>6, <1>7 DEF vars, adapter

(* Reads in flight and reads that have shown something: a step makes one,  *)
(* answers one or completes one, and what is due to them only shrinks.     *)
ReadKept(c) ==
  /\ due'[c]["lastWorkspace"] \in {due[c]["lastWorkspace"], Unset}
  /\ InFlight(c)' => call[c].op = "get" /\ InFlight(c)
  /\ call'[c].state = "done" => call[c].op = "get" /\ call'[c] = call[c]

LEMMA ReadSteps ==
  ASSUME TypeInv, [Next]_vars, NEW c \in Caller, call'[c].op = "get"
  PROVE  \/ ReadKept(c)
         \/ Get(c) /\ InFlight(c)' /\ due'[c] = settled
         \/ GetDone(c) /\ due' = due
<1>. DEFINE Goal == \/ ReadKept(c)
                    \/ Get(c) /\ InFlight(c)' /\ due'[c] = settled
                    \/ GetDone(c) /\ due' = due
<1>. SUFFICES Goal
  OBVIOUS
<1>. USE DEF TypeInv
<1>0. "lastWorkspace" \in Field
  BY DEF Field
<1>1. ASSUME NEW d \in Caller, Get(d) PROVE Goal
  <2>1. CASE d = c
    BY <1>1, <2>1, GetCalls DEF Get, InFlight, TypeOK
  <2>2. CASE d # c
    BY <1>1, <2>2, GetCalls DEF Get, InFlight, TypeOK, Others, ReadKept
  <2>. QED BY <2>1, <2>2
<1>2. ASSUME NEW d \in Caller, GetDone(d) PROVE Goal
  <2>1. CASE d = c
    BY <1>2, <2>1 DEF GetDone
  <2>2. CASE d # c
    BY <1>2, <2>2, GetDoneCalls DEF GetDone, InFlight, Others, ReadKept
  <2>. QED BY <2>1, <2>2
<1>3. ASSUME NEW d \in Caller, NEW op \in {"set", "focus"}, NEW f \in Field, NEW v \in Value,
             Enqueue(d, op, f, v)
      PROVE  Goal
  <2>1. d # c
    BY <1>3, EnqueueCalls
  <2>2. call'[c] = call[c]
    BY <1>3, <2>1, EnqueueCalls DEF Others
  <2>3. due'[c]["lastWorkspace"] \in {due[c]["lastWorkspace"], Unset}
    BY <1>0, <1>3, EnqueueUnsettles
  <2>. QED BY <2>2, <2>3 DEF ReadKept, InFlight
<1>4. ASSUME NEW d \in Caller, StartTransition(d) PROVE Goal
  <2>1. d # c
    BY <1>4, StartTransitionCalls DEF Transition
  <2>. QED BY <1>4, <2>1, StartTransitionCalls DEF StartTransition, InFlight, Others, ReadKept
<1>5. ASSUME NEW d \in Caller, FinishTransition(d) PROVE Goal
  <2>1. due' = due
    BY <1>5 DEF FinishTransition
  <2>2. d # c /\ call[c].op = "get"
    BY <1>5, FinishCalls DEF Transition
  <2>. QED BY <1>5, <2>1, <2>2, FinishCalls DEF InFlight, ReadKept
<1>6. ASSUME StartWrite PROVE Goal
  <2>1. PICK d \in Caller : d = Head(writeQueue) /\ Pending(d)
    BY <1>6, HeadFacts DEF StartWrite, WriteStarts
  <2>2. d # c
    BY <1>6, <2>1, StartCalls DEF Pending, IsWrite
  <2>. QED BY <1>6, <2>1, <2>2, StartCalls DEF StartWrite, InFlight, Others, ReadKept
<1>7. ASSUME WriteDone PROVE Goal
  <2>1. PICK d \in Caller : d = Head(writeQueue) /\ Pending(d)
    BY <1>7, HeadFacts DEF WriteDone
  <2>2. d # c
    BY <1>7, <2>1, WriteDoneCalls DEF Pending, IsWrite
  <2>. QED BY <1>7, <2>1, <2>2, WriteDoneCalls DEF WriteDone, InFlight, Others, ReadKept
<1>8. ASSUME NEW R, RejectRoutes(R), due' = due PROVE Goal
  BY <1>8, RejectCalls DEF InFlight, ReadKept, Rejected
<1>9. ASSUME NEW r \in Route, Serve(r) PROVE Goal
  <2>1. PICK d \in Caller : d = Head(pipe[r])
    BY <1>9, TailFacts DEF Serve, TypeOK
  <2>2. due'[c]["lastWorkspace"] \in {due[c]["lastWorkspace"], Unset}
    BY <1>0, <1>9 DEF Serve, Nothing
  <2>3. CASE d = c /\ call[c].state = "sent"
    BY <1>9, <2>1, <2>2, <2>3, ServeCalls DEF InFlight, ReadKept
  <2>4. CASE ~ (d = c /\ call[c].state = "sent")
    <3>1. call'[c] = call[c]
      BY <1>9, <2>1, <2>4, ServeCalls DEF Others
    <3>. QED BY <2>2, <3>1 DEF InFlight, ReadKept
  <2>. QED BY <2>3, <2>4
<1>10. CASE call' = call /\ due' = due
  BY <1>10 DEF InFlight, ReadKept
<1>11. CASE Next
  BY <1>1, <1>2, <1>3, <1>4, <1>5, <1>6, <1>7, <1>8, <1>9, <1>10, <1>11
     DEF Next, Set, Focus, LoseChild, Malformed, ServeOther, Field
<1>. QED BY <1>10, <1>11 DEF vars

LEMMA FocusStep == TypeInv /\ FocusInv /\ [Next]_vars => FocusInv'
<1>. SUFFICES ASSUME TypeInv, FocusInv, [Next]_vars PROVE FocusInv'
  OBVIOUS
<1>1. Unsettled'
  BY UnsettledStep DEF FocusInv
<1>2. Overridden(settled["lastWorkspace"])'
  BY OverrideSteps DEF FocusInv, FocusKept, Overridden
<1>3. ASSUME NEW c \in Caller, call'[c].op = "get", InFlight(c)'
      PROVE  due'[c]["lastWorkspace"] \in {Unset, focusedWorkspaceOverride'}
  <2>1. CASE NothingIsDue
    BY <2>1 DEF NothingIsDue
  <2>2. CASE focusedWorkspaceOverride' = focusedWorkspaceOverride
    <3>1. CASE ReadKept(c)
      BY <1>3, <2>2, <3>1 DEF ReadKept, FocusInv, FocusKept, Overridden
    <3>2. CASE due'[c] = settled
      BY <2>2, <3>2 DEF FocusInv, FocusKept, Overridden
    <3>3. CASE GetDone(c)
      BY <1>3, <3>3, GetDoneCalls DEF InFlight, TypeInv
    <3>. QED BY <1>3, <3>1, <3>2, <3>3, ReadSteps
  <2>. QED BY <2>1, <2>2, OverrideSteps
<1>4. ASSUME NEW c \in Caller, call'[c].op = "get", call'[c].state = "done"
      PROVE  due'[c]["lastWorkspace"] \in {Unset, call'[c].data["lastWorkspace"]}
  <2>1. CASE ReadKept(c)
    BY <1>4, <2>1 DEF ReadKept, FocusInv, FocusIsShown
  <2>2. CASE InFlight(c)'
    BY <1>4, <2>2 DEF InFlight
  <2>3. CASE GetDone(c) /\ due' = due
    <3>1. call[c].op = "get" /\ InFlight(c) /\ call[c].data \in Partial
      BY <2>3 DEF GetDone, InFlight, TypeInv, TypeOK, CallRecord
    <3>2. due[c]["lastWorkspace"] \in {Unset, focusedWorkspaceOverride}
      BY <3>1 DEF FocusInv, FocusKept, Overridden
    <3>3. call'[c].data = Read(call[c].data)
      BY <2>3, GetDoneCalls DEF TypeInv, GetDone
    <3>4. focusedWorkspaceOverride # Unset =>
            call'[c].data["lastWorkspace"] = focusedWorkspaceOverride
      BY <3>1, <3>3, ReadType DEF TypeInv
    <3>. QED BY <2>3, <3>2, <3>4
  <2>. QED BY <1>4, <2>1, <2>2, <2>3, ReadSteps
<1>5. FocusKept'
  BY <1>2, <1>3 DEF FocusKept, Overridden
<1>6. FocusIsShown'
  BY <1>4 DEF FocusIsShown
<1>. QED BY <1>1, <1>5, <1>6 DEF FocusInv

(* A read made after a focus was acknowledged shows the focused workspace, *)
(* whatever older image the read child answers from, and although focuses, *)
(* other writes, loads and lost children come in any order: the override   *)
(* changes only while the focus that changes it is not acknowledged.       *)
THEOREM FocusedWorkspaceIsShown == Spec => []FocusIsShown
<1>1. Init => FocusInv
  <2>. SUFFICES ASSUME Init PROVE FocusInv
    OBVIOUS
  <2>1. Nothing["lastWorkspace"] = Unset
    BY DEF Nothing, Field
  <2>. QED BY <2>1 DEF Init, FocusInv, Unsettled, FocusKept, FocusIsShown, Waiting, InFlight,
                       Overridden
<1>2. FocusInv => FocusIsShown
  BY DEF FocusInv
<1>. QED BY <1>1, <1>2, TypeInit, TypeStep, FocusStep, PTL DEF Spec
-----------------------------------------------------------------------------
(* The pipes.                                                              *)
Started(c) == call[c].state \notin {"idle", "queued"}

(* What a step may do to a call that has been started.                     *)
Goes(d) ==
  /\ Started(d)' /\ call'[d].op = call[d].op
  /\ call'[d].patch = call[d].patch /\ call'[d].next = call[d].next
  /\ InFlight(d)' => InFlight(d)
  /\ call'[d].state = "sent" => call[d].state = "sent"
  /\ call[d].state = "done" => call'[d] = call[d]
  /\ \/ call'[d].state = "answered" => call[d].state = "answered" /\ call'[d].data = call[d].data
     \/ call[d].state = "sent" /\ \E r \in Route : Serve(r) /\ d = Head(pipe[r])

LEMMA StartedGoes ==
  ASSUME TypeInv, [Next]_vars, NEW d \in Caller, Started(d)
  PROVE  Goes(d)
<1>. USE DEF TypeInv
<1>1. CASE call'[d] = call[d]
  BY <1>1 DEF Goes, Started, InFlight
<1>2. ASSUME NEW c \in Caller, Get(c) PROVE Goes(d)
  BY <1>1, <1>2, GetCalls DEF Get, Started, Others
<1>3. ASSUME NEW c \in Caller, GetDone(c) PROVE Goes(d)
  <2>1. CASE c = d
    BY <1>3, <2>1, GetDoneCalls DEF GetDone, Goes, Started, InFlight
  <2>. QED BY <1>1, <1>3, <2>1, GetDoneCalls DEF Others
<1>4. ASSUME NEW c \in Caller, NEW op \in {"set", "focus"}, NEW f \in Field, NEW v \in Value,
             Enqueue(c, op, f, v)
      PROVE  Goes(d)
  BY <1>1, <1>4, EnqueueCalls DEF Enqueue, Started, Others
<1>5. ASSUME NEW c \in Caller, StartTransition(c) PROVE Goes(d)
  BY <1>1, <1>5, StartTransitionCalls DEF Started, Others
<1>6. ASSUME NEW c \in Caller, FinishTransition(c) PROVE Goes(d)
  <2>1. CASE InFlight(d)
    BY <1>6, <2>1, FinishCalls DEF Goes, Started, InFlight
  <2>. QED BY <1>1, <1>6, <2>1, FinishCalls
<1>7. ASSUME StartWrite PROVE Goes(d)
  <2>1. PICK c \in Caller : c = Head(writeQueue) /\ call[c].state = "queued"
    BY <1>7, HeadFacts DEF StartWrite, WriteStarts
  <2>. QED BY <1>1, <1>7, <2>1, StartCalls DEF Started, Others
<1>8. ASSUME WriteDone PROVE Goes(d)
  <2>1. PICK c \in Caller : c = Head(writeQueue)
    BY <1>8, HeadFacts DEF WriteDone
  <2>2. CASE c = d
    BY <1>8, <2>1, <2>2, WriteDoneCalls DEF Goes, Started, InFlight
  <2>. QED BY <1>1, <1>8, <2>1, <2>2, WriteDoneCalls DEF Others
<1>9. ASSUME NEW R, RejectRoutes(R) PROVE Goes(d)
  <2>1. CASE Rejected(d, R)
    BY <1>9, <2>1, RejectCalls DEF Goes, Started, InFlight, Rejected
  <2>. QED BY <1>1, <1>9, <2>1, RejectCalls
<1>10. ASSUME NEW r \in Route, Serve(r) PROVE Goes(d)
  <2>1. PICK c \in Caller : c = Head(pipe[r])
    BY <1>10, TailFacts DEF Serve, TypeOK
  <2>2. CASE c = d /\ call[c].state = "sent"
    BY <1>10, <2>1, <2>2, ServeCalls DEF Goes, Started, InFlight
  <2>. QED BY <1>1, <1>10, <2>1, <2>2, ServeCalls DEF Others
<1>11. CASE Next /\ call' # call
  BY <1>2, <1>3, <1>4, <1>5, <1>6, <1>7, <1>8, <1>9, <1>10, <1>11
     DEF Next, Set, Focus, LoseChild, Malformed, ServeOther, Field
<1>. QED BY <1>1, <1>11 DEF vars

(* A call of which a step sends the request.                               *)
Sends(c) ==
  /\ ~ Started(c) /\ call'[c].state = "sent" /\ Others(c)
  /\ settled' = settled /\ preferences' = preferences
  /\ call'[c].op \in {"set", "focus"} => StartWrite /\ Pending(c) /\ ~ bindingTransitionInFlight

LEMMA SendSteps ==
  ASSUME TypeInv, NEW c \in Caller,
         \/ Get(c) \/ StartTransition(c)
         \/ StartWrite /\ c = Head(writeQueue) /\ ~ bindingTransitionInFlight
  PROVE  Sends(c) /\ Send(c)
<1>1. CASE Get(c)
  BY <1>1, GetCalls DEF TypeInv, Get, Sends, Started, IsWrite, adapter
<1>2. CASE StartTransition(c)
  <2>1. Send(c) /\ settled' = settled /\ preferences' = preferences
    BY <1>2 DEF StartTransition
  <2>. QED BY <1>2, <2>1, StartTransitionCalls DEF TypeInv, Sends, Started, IsWrite, Transition
<1>3. CASE StartWrite /\ c = Head(writeQueue) /\ ~ bindingTransitionInFlight
  BY <1>3, HeadFacts, StartCalls DEF TypeInv, StartWrite, WriteStarts, Sends, Started
<1>. QED BY <1>1, <1>2, <1>3

(* A pipe stays, is dropped, loses its first request to the child, or      *)
(* takes one more.                                                         *)
LEMMA PipeSteps ==
  ASSUME TypeInv, [Next]_vars, NEW r \in Route
  PROVE  \/ pipe'[r] = pipe[r] \/ pipe'[r] = <<>>
         \/ Serve(r) /\ pipe[r] # <<>> /\ pipe'[r] = Tail(pipe[r])
         \/ \E c \in Caller : /\ Sends(c) /\ RouteOf(call'[c].op) = r
                              /\ pipe'[r] = Append(pipe[r], c)
<1>. DEFINE Goal == \/ pipe'[r] = pipe[r] \/ pipe'[r] = <<>>
                    \/ Serve(r) /\ pipe[r] # <<>> /\ pipe'[r] = Tail(pipe[r])
                    \/ \E c \in Caller : /\ Sends(c) /\ RouteOf(call'[c].op) = r
                                         /\ pipe'[r] = Append(pipe[r], c)
<1>. SUFFICES Goal
  OBVIOUS
<1>. USE DEF TypeInv
<1>1. ASSUME NEW c \in Caller, Sends(c), Send(c) PROVE Goal
  BY <1>1 DEF Send, TypeOK
<1>2. ASSUME NEW c \in Caller, Get(c) \/ StartTransition(c) PROVE Goal
  BY <1>1, <1>2, SendSteps
<1>3. ASSUME StartWrite PROVE Goal
  <2>1. PICK c \in Caller : c = Head(writeQueue)
    BY <1>3, HeadFacts DEF StartWrite, WriteStarts
  <2>2. CASE bindingTransitionInFlight
    BY <1>3, <2>2 DEF StartWrite
  <2>. QED BY <1>1, <1>3, <2>1, <2>2, SendSteps
<1>4. ASSUME NEW R, DropChildren(R) PROVE Goal
  BY <1>4 DEF DropChildren, TypeOK
<1>5. ASSUME NEW q \in Route, Serve(q) PROVE Goal
  BY <1>5 DEF Serve, TypeOK
<1>6. CASE pipe' = pipe
  BY <1>6
<1>7. CASE Next
  BY <1>2, <1>3, <1>4, <1>5, <1>6, <1>7
     DEF Next, GetDone, Set, Focus, Enqueue, FinishTransition, WriteDone, LoseChild, Malformed,
         ServeOther
<1>. QED BY <1>6, <1>7 DEF vars

(* Where a request in a pipe comes from, and where two of them come from.  *)
LEMMA PipeEntry ==
  ASSUME TypeInv, [Next]_vars, NEW r \in Route, NEW k \in DOMAIN pipe'[r]
  PROVE  \/ \E m \in DOMAIN pipe[r] : pipe'[r][k] = pipe[r][m]
         \/ Sends(pipe'[r][k]) /\ RouteOf(call'[pipe'[r][k]].op) = r
<1>1. pipe[r] \in Seq(Caller)
  BY DEF TypeInv, TypeOK
<1>2. CASE pipe'[r] = <<>>
  BY <1>2, EmptyFacts
<1>3. CASE pipe[r] # <<>> /\ pipe'[r] = Tail(pipe[r])
  BY <1>1, <1>3, TailFacts
<1>4. ASSUME NEW c \in Caller, Sends(c), RouteOf(call'[c].op) = r, pipe'[r] = Append(pipe[r], c)
      PROVE  \/ \E m \in DOMAIN pipe[r] : pipe'[r][k] = pipe[r][m]
             \/ Sends(pipe'[r][k]) /\ RouteOf(call'[pipe'[r][k]].op) = r
  <2>1. CASE \E m \in DOMAIN pipe[r] : pipe'[r][k] = pipe[r][m]
    BY <2>1
  <2>2. CASE pipe'[r][k] = c
    BY <1>4, <2>2
  <2>. QED BY <1>1, <1>4, <2>1, <2>2, AppendFacts
<1>. QED BY <1>2, <1>3, <1>4, PipeSteps

LEMMA PipePair ==
  ASSUME TypeInv, [Next]_vars, NEW r \in Route,
         NEW i \in DOMAIN pipe'[r], NEW j \in DOMAIN pipe'[r], i < j
  PROVE  \E m \in DOMAIN pipe[r] :
           /\ pipe'[r][i] = pipe[r][m]
           /\ \/ \E n \in DOMAIN pipe[r] : m < n /\ pipe'[r][j] = pipe[r][n]
              \/ Sends(pipe'[r][j])
<1>1. pipe[r] \in Seq(Caller)
  BY DEF TypeInv, TypeOK
<1>2. CASE pipe'[r] = <<>>
  BY <1>2, EmptyFacts
<1>3. CASE pipe[r] # <<>> /\ pipe'[r] = Tail(pipe[r])
  <2>1. /\ i \in Nat /\ j \in Nat /\ i + 1 \in DOMAIN pipe[r] /\ j + 1 \in DOMAIN pipe[r]
        /\ pipe'[r][i] = pipe[r][i + 1] /\ pipe'[r][j] = pipe[r][j + 1]
    BY <1>1, <1>3, TailFacts
  <2>2. i + 1 < j + 1
    BY <2>1
  <2>. QED BY <2>1, <2>2
<1>4. ASSUME NEW c \in Caller, Sends(c), pipe'[r] = Append(pipe[r], c)
      PROVE  \E m \in DOMAIN pipe[r] :
               /\ pipe'[r][i] = pipe[r][m]
               /\ \/ \E n \in DOMAIN pipe[r] : m < n /\ pipe'[r][j] = pipe[r][n]
                  \/ Sends(pipe'[r][j])
  <2>1. i \in DOMAIN pipe[r] /\ pipe'[r][i] = pipe[r][i]
    <3>1. i # Len(pipe[r]) + 1
      <4>. SUFFICES ASSUME i = Len(pipe[r]) + 1 PROVE FALSE
        OBVIOUS
      <4>1. Len(pipe[r]) \in Nat /\ j \in DOMAIN pipe[r] => j < Len(pipe[r]) + 1
        BY <1>1, AppendFacts, LenProperties
      <4>2. j \in DOMAIN pipe[r] \/ j = Len(pipe[r]) + 1
        BY <1>1, <1>4, AppendFacts
      <4>3. j \in DOMAIN pipe[r] => j \in Nat
        BY <1>1, MemberType
      <4>. QED BY <1>1, <4>1, <4>2, <4>3, LenProperties
    <3>. QED BY <1>1, <1>4, <3>1, AppendFacts
  <2>2. CASE j \in DOMAIN pipe[r] /\ pipe'[r][j] = pipe[r][j]
    BY <2>1, <2>2
  <2>3. CASE pipe'[r][j] = c
    <3>1. Sends(pipe'[r][j])
      BY <1>4, <2>3
    <3>. QED BY <2>1, <3>1
  <2>. QED BY <1>1, <1>4, <2>2, <2>3, AppendFacts
<1>5. CASE pipe'[r] = pipe[r]
  BY <1>5
<1>. QED BY <1>2, <1>3, <1>4, <1>5, PipeSteps
-----------------------------------------------------------------------------
(* No write behind a load.                                                 *)

(* What is in a pipe has been sent, on the route of its operation, and a   *)
(* load in flight has raised the flag.                                     *)
Piped ==
  \A r \in Route : \A k \in DOMAIN pipe[r] :
    Started(pipe[r][k]) /\ RouteOf(call[pipe[r][k]].op) = r

FlagBacked ==
  \A c \in Caller : InFlight(c) /\ call[c].op = "load" => bindingTransitionInFlight

PipeInv == Piped /\ FlagBacked /\ NoWriteBehindALoad

LEMMA PipedStep == TypeInv /\ Piped /\ [Next]_vars => Piped'
<1>. SUFFICES ASSUME TypeInv, Piped, [Next]_vars, NEW r \in Route, NEW k \in DOMAIN pipe'[r],
                     NEW d, d = pipe'[r][k]
              PROVE  call'[d].state \notin {"idle", "queued"} /\ RouteOf(call'[d].op) = r
  BY DEF Piped, Started
<1>1. CASE Sends(d) /\ RouteOf(call'[d].op) = r
  BY <1>1 DEF Sends
<1>2. ASSUME NEW m \in DOMAIN pipe[r], d = pipe[r][m]
      PROVE  call'[d].state \notin {"idle", "queued"} /\ RouteOf(call'[d].op) = r
  <2>1. d \in Caller /\ Started(d) /\ RouteOf(call[d].op) = r
    BY <1>2, MemberType DEF TypeInv, TypeOK, Piped
  <2>. QED BY <2>1, StartedGoes DEF Goes, Started
<1>. QED BY <1>1, <1>2, PipeEntry

LEMMA FlagStep == TypeInv /\ FlagBacked /\ [Next]_vars => FlagBacked'
<1>. SUFFICES ASSUME TypeInv, FlagBacked, [Next]_vars, NEW d \in Caller,
                     InFlight(d)', call'[d].op = "load"
              PROVE  bindingTransitionInFlight'
  BY DEF FlagBacked
<1>. USE DEF TypeInv
<1>1. CASE InFlight(d) /\ bindingTransitionInFlight' = bindingTransitionInFlight
  <2>1. call[d].op = "load"
    BY <1>1, StartedGoes DEF Goes, Started, InFlight
  <2>. QED BY <1>1, <2>1 DEF FlagBacked
<1>2. CASE ~ InFlight(d)
  <2>1. ~ Started(d)
    BY <1>2, StartedGoes DEF Goes, Started
  <2>2. ASSUME NEW c \in Caller, Get(c) \/ GetDone(c) PROVE FALSE
    BY <1>2, <2>2, GetCalls, GetDoneCalls DEF InFlight, Others
  <2>3. ASSUME NEW c \in Caller, NEW op \in {"set", "focus"}, NEW f \in Field, NEW v \in Value,
               Enqueue(c, op, f, v)
        PROVE  FALSE
    BY <1>2, <2>3, EnqueueCalls DEF InFlight, Others
  <2>4. ASSUME NEW c \in Caller, FinishTransition(c) PROVE FALSE
    BY <1>2, <2>4, FinishCalls DEF InFlight
  <2>5. ASSUME StartWrite PROVE FALSE
    <3>1. PICK c \in Caller : c = Head(writeQueue) /\ Pending(c)
      BY <2>5, HeadFacts DEF StartWrite, WriteStarts
    <3>. QED BY <1>2, <2>5, <3>1, StartCalls DEF InFlight, Others, Pending, IsWrite
  <2>6. ASSUME WriteDone PROVE FALSE
    <3>1. PICK c \in Caller : c = Head(writeQueue)
      BY <2>6, HeadFacts DEF WriteDone
    <3>. QED BY <1>2, <2>6, <3>1, WriteDoneCalls DEF InFlight, Others
  <2>7. ASSUME NEW R, RejectRoutes(R) PROVE FALSE
    BY <1>2, <2>7, RejectCalls DEF InFlight
  <2>8. ASSUME NEW r \in Route, Serve(r) PROVE FALSE
    <3>1. PICK c \in Caller : c = Head(pipe[r])
      BY <2>8, TailFacts DEF Serve, TypeOK
    <3>. QED BY <1>2, <2>8, <3>1, ServeCalls DEF InFlight, Others
  <2>9. ASSUME NEW c \in Caller, StartTransition(c) PROVE bindingTransitionInFlight'
    BY <1>2, <2>9, StartTransitionCalls DEF InFlight, Others
  <2>10. CASE call' = call
    BY <1>2, <2>10 DEF InFlight
  <2>. QED
    BY <2>2, <2>3, <2>4, <2>5, <2>6, <2>7, <2>8, <2>9, <2>10
       DEF Next, Set, Focus, LoseChild, Malformed, ServeOther, Field, vars
<1>3. CASE InFlight(d)
  <2>0. call[d].op = "load"
    BY <1>3, StartedGoes DEF Goes, Started, InFlight
  <2>1. ASSUME NEW r \in Route, RejectRoutes({r}),
               bindingTransitionInFlight' =
                 (bindingTransitionInFlight /\ ~ (r = "write" /\ LoadInFlight))
        PROVE  bindingTransitionInFlight'
    <3>1. r # "write"
      BY <1>3, <2>0, <2>1, RejectCalls DEF Rejected, RouteOf, InFlight
    <3>. QED BY <1>3, <2>0, <2>1, <3>1 DEF FlagBacked
  <2>2. ASSUME NEW c \in Caller, FinishTransition(c) PROVE FALSE
    BY <1>3, <2>2, FinishCalls DEF InFlight
  <2>3. ASSUME NEW c \in Caller, StartTransition(c) PROVE bindingTransitionInFlight'
    <3>1. CASE call'[c].op = "load"
      BY <2>3, <3>1, StartTransitionCalls
    <3>2. CASE call'[c].op # "load"
      BY <1>1, <1>3, <2>3, <3>2, StartTransitionCalls
    <3>. QED BY <3>1, <3>2
  <2>. QED
    BY <1>1, <1>3, <2>1, <2>2, <2>3
       DEF Next, Get, GetDone, Set, Focus, Enqueue, StartWrite, WriteDone, LoseChild, Malformed,
           Serve, ServeOther, vars, adapter
<1>. QED BY <1>2, <1>3

LEMMA PipeStep == TypeInv /\ PipeInv /\ [Next]_vars => PipeInv'
<1>. SUFFICES ASSUME TypeInv, PipeInv, [Next]_vars PROVE PipeInv'
  OBVIOUS
<1>1. Piped' /\ FlagBacked'
  BY PipedStep, FlagStep DEF PipeInv
<1>2. ASSUME NEW i \in DOMAIN pipe'["write"], NEW j \in DOMAIN pipe'["write"], i < j,
             NEW c, c = pipe'["write"][i], call'[c].op = "load", call'[c].state = "sent",
             NEW d, d = pipe'["write"][j], call'[d].op \in {"set", "focus"}
      PROVE  FALSE
  <2>0. "write" \in Route /\ \A k \in DOMAIN pipe["write"] : pipe["write"][k] \in Caller
    BY MemberType DEF Route, TypeInv, TypeOK
  <2>1. PICK m \in DOMAIN pipe["write"] :
          /\ c = pipe["write"][m]
          /\ \/ \E n \in DOMAIN pipe["write"] : m < n /\ d = pipe["write"][n]
             \/ Sends(d)
    BY <1>2, <2>0, PipePair
  <2>2. c \in Caller /\ call[c].op = "load" /\ call[c].state = "sent"
    BY <1>2, <2>0, <2>1, StartedGoes DEF PipeInv, Piped, Goes
  <2>3. ASSUME NEW n \in DOMAIN pipe["write"], m < n, d = pipe["write"][n] PROVE FALSE
    <3>1. IsWrite(d)
      BY <1>2, <2>0, <2>3, StartedGoes DEF PipeInv, Piped, Goes, IsWrite
    <3>. QED BY <2>1, <2>2, <2>3, <3>1 DEF PipeInv, NoWriteBehindALoad
  <2>4. CASE Sends(d)
    <3>1. ~ bindingTransitionInFlight
      BY <1>2, <2>4 DEF Sends
    <3>. QED BY <2>2, <3>1 DEF PipeInv, FlagBacked, InFlight
  <2>. QED BY <2>1, <2>3, <2>4
<1>3. NoWriteBehindALoad'
  BY <1>2 DEF NoWriteBehindALoad, IsWrite
<1>. QED BY <1>1, <1>3 DEF PipeInv

(* No write of preferences is sent behind a load that has not been served, *)
(* in whatever order loads, writes, malformed lines and lost children      *)
(* come: the flag that keeps writes in the adapter stays up as long as any *)
(* load is in flight, although the end of one lowers it.                   *)
THEOREM WritesStayBeforeLoads == Spec => []NoWriteBehindALoad
<1>1. Init => PipeInv
  BY EmptyFacts DEF Init, PipeInv, Piped, FlagBacked, NoWriteBehindALoad, InFlight, Route
<1>2. PipeInv => NoWriteBehindALoad
  BY DEF PipeInv
<1>. QED BY <1>1, <1>2, TypeInit, TypeStep, PipeStep, PTL DEF Spec
-----------------------------------------------------------------------------
(* Writes of different preferences.                                        *)

(* A write in flight has no other write behind it, and the write answered  *)
(* leaves none in the pipe: what the child still has to serve is older     *)
(* than what the adapter waits for.                                        *)
ServedInOrder ==
  \A c \in Caller : IsWrite(c) /\ InFlight(c) =>
    \A k \in DOMAIN pipe["write"] : IsWrite(pipe["write"][k]) =>
      /\ call[c].state = "sent"
      /\ \A j \in DOMAIN pipe["write"] : j < k => pipe["write"][j] # c

SentMerged ==
  \A c \in Caller : IsWrite(c) /\ InFlight(c) =>
    /\ \A f \in Field : call[c].patch[f] # Unset => call[c].next[f] = call[c].patch[f]
    /\ call[c].state = "answered" => call[c].data \in {call[c].next, Nothing}

(* Until a read is merged, the adapter's copy, and every write on its way, *)
(* have the values that are settled.                                       *)
Agrees(p) == \A f \in Field : settled[f] # Unset => p[f] = settled[f]

OnItsWay(c) == IsWrite(c) /\ (InFlight(c) \/ In(c, pipe["write"]))

CopyAgrees ==
  ~ HasRead => Agrees(preferences) /\ \A c \in Caller : OnItsWay(c) => Agrees(call[c].next)

WriterInv == Unsettled /\ Piped /\ ServedInOrder /\ SentMerged /\ CopyAgrees

(* A write in flight was in flight before, or its request is sent.         *)
LEMMA WriteSteps ==
  ASSUME TypeInv, [Next]_vars, NEW c \in Caller, IsWrite(c)', InFlight(c)'
  PROVE  \/ IsWrite(c) /\ InFlight(c) /\ Goes(c)
         \/ /\ StartWrite /\ c = Head(writeQueue) /\ ~ bindingTransitionInFlight
            /\ call[c].state = "queued" /\ call'[c].state = "sent"
            /\ call'[c].patch = call[c].patch /\ call'[c].next = Sent(call[c].patch)
            /\ settled' = settled /\ preferences' = preferences
<1>. DEFINE Goal == /\ StartWrite /\ c = Head(writeQueue) /\ ~ bindingTransitionInFlight
                    /\ call[c].state = "queued" /\ call'[c].state = "sent"
                    /\ call'[c].patch = call[c].patch /\ call'[c].next = Sent(call[c].patch)
                    /\ settled' = settled /\ preferences' = preferences
<1>. USE DEF TypeInv
<1>1. CASE Started(c)
  BY <1>1, StartedGoes DEF Goes, IsWrite
<1>2. CASE ~ Started(c)
  <2>1. ~ InFlight(c)
    BY <1>2 DEF Started, InFlight
  <2>2. ASSUME NEW d \in Caller, Get(d) \/ GetDone(d) \/ StartTransition(d) PROVE FALSE
    BY <2>1, <2>2, GetCalls, GetDoneCalls, StartTransitionCalls
       DEF InFlight, IsWrite, Others, Transition
  <2>3. ASSUME NEW d \in Caller, NEW op \in {"set", "focus"}, NEW f \in Field, NEW v \in Value,
               Enqueue(d, op, f, v)
        PROVE  FALSE
    BY <2>1, <2>3, EnqueueCalls DEF InFlight, Others
  <2>4. ASSUME NEW d \in Caller, FinishTransition(d) PROVE FALSE
    BY <2>1, <2>4, FinishCalls DEF InFlight
  <2>5. ASSUME StartWrite PROVE Goal
    <3>1. PICK d \in Caller : d = Head(writeQueue) /\ call[d].state = "queued"
      BY <2>5, HeadFacts DEF StartWrite, WriteStarts
    <3>2. d = c /\ ~ bindingTransitionInFlight
      BY <2>1, <2>5, <3>1, StartCalls DEF InFlight, Others
    <3>. QED BY <2>5, <3>1, <3>2, StartCalls DEF StartWrite
  <2>6. ASSUME WriteDone PROVE FALSE
    <3>1. PICK d \in Caller : d = Head(writeQueue)
      BY <2>6, HeadFacts DEF WriteDone
    <3>. QED BY <2>1, <2>6, <3>1, WriteDoneCalls DEF InFlight, Others
  <2>7. ASSUME NEW R, RejectRoutes(R) PROVE FALSE
    BY <2>1, <2>7, RejectCalls DEF InFlight
  <2>8. ASSUME NEW r \in Route, Serve(r) PROVE FALSE
    <3>1. PICK d \in Caller : d = Head(pipe[r])
      BY <2>8, TailFacts DEF Serve, TypeOK
    <3>. QED BY <2>1, <2>8, <3>1, ServeCalls DEF InFlight, Others
  <2>9. CASE call' = call
    BY <2>1, <2>9 DEF InFlight
  <2>. QED
    BY <2>2, <2>3, <2>4, <2>5, <2>6, <2>7, <2>8, <2>9
       DEF Next, Set, Focus, LoseChild, Malformed, ServeOther, Field, vars
<1>. QED BY <1>1, <1>2

LEMMA OrderStep == TypeInv /\ Piped /\ ServedInOrder /\ [Next]_vars => ServedInOrder'
<1>. SUFFICES ASSUME TypeInv, Piped, ServedInOrder, [Next]_vars,
                     NEW c \in Caller, IsWrite(c)', InFlight(c)',
                     NEW k \in DOMAIN pipe'["write"],
                     NEW d, d = pipe'["write"][k], call'[d].op \in {"set", "focus"}
              PROVE  /\ call'[c].state = "sent"
                     /\ \A j \in DOMAIN pipe'["write"] : j < k => pipe'["write"][j] # c
  BY DEF ServedInOrder, IsWrite
<1>0. /\ "write" \in Route /\ pipe["write"] \in Seq(Caller)
      /\ \A m \in DOMAIN pipe["write"] : /\ pipe["write"][m] \in Caller /\ m \in Nat \ {0}
                                         /\ Started(pipe["write"][m])
                                         /\ RouteOf(call[pipe["write"][m]].op) = "write"
  BY MemberType DEF Route, TypeInv, TypeOK, Piped
<1>1. CASE /\ StartWrite /\ c = Head(writeQueue) /\ call[c].state = "queued"
           /\ call'[c].state = "sent"
  <2>. SUFFICES ASSUME NEW j \in DOMAIN pipe'["write"], j < k, pipe'["write"][j] = c PROVE FALSE
    BY <1>1
  <2>1. PICK m \in DOMAIN pipe["write"] : c = pipe["write"][m]
    BY <1>0, PipePair
  <2>. QED BY <1>0, <1>1, <2>1 DEF Started
<1>2. CASE IsWrite(c) /\ InFlight(c) /\ Goes(c)
  <2>1. ~ Sends(d)
    <3>. SUFFICES ASSUME Sends(d) PROVE FALSE
      OBVIOUS
    <3>1. StartWrite
      BY DEF Sends
    <3>2. PICK h \in Caller : h = Head(writeQueue) /\ call[h].state = "queued" /\ writeQueue # <<>>
      BY <3>1, HeadFacts DEF StartWrite, WriteStarts
    <3>3. Pending(c) /\ call[c].state # "queued"
      BY <1>2 DEF Pending, Waiting, InFlight
    <3>. QED BY <3>2, <3>3, HeadFacts
  <2>2. PICK n \in DOMAIN pipe["write"] : d = pipe["write"][n]
    BY <1>0, <2>1, PipeEntry
  <2>3. IsWrite(d)
    BY <1>0, <2>2, StartedGoes DEF Goes, IsWrite
  <2>4. call[c].state = "sent" /\ \A j \in DOMAIN pipe["write"] : j < n => pipe["write"][j] # c
    BY <1>2, <2>2, <2>3 DEF ServedInOrder
  <2>5. ASSUME NEW j \in DOMAIN pipe'["write"], j < k, pipe'["write"][j] = c PROVE FALSE
    <3>1. PICK m \in DOMAIN pipe["write"] :
            /\ c = pipe["write"][m]
            /\ \E i \in DOMAIN pipe["write"] : m < i /\ d = pipe["write"][i]
      BY <1>0, <2>1, <2>5, PipePair
    <3>. QED BY <1>2, <2>3, <3>1 DEF ServedInOrder
  <2>6. call'[c].state = "sent"
    <3>. SUFFICES ASSUME call'[c].state = "answered" PROVE FALSE
      BY DEF InFlight
    <3>1. PICK r \in Route : Serve(r) /\ c = Head(pipe[r])
      BY <1>2, <2>4 DEF Goes
    <3>2. pipe[r] \in Seq(Caller) /\ pipe[r] # <<>> /\ c = pipe[r][1] /\ 1 \in DOMAIN pipe[r]
      BY <3>1, TailFacts DEF Serve, TypeInv, TypeOK
    <3>3. r = "write"
      BY <1>2, <3>2 DEF Piped, IsWrite, RouteOf
    <3>4. pipe'["write"] = Tail(pipe["write"])
      BY <1>0, <3>1, <3>3 DEF Serve, TypeInv, TypeOK
    <3>5. /\ k \in Nat \ {0} /\ k + 1 \in DOMAIN pipe["write"] /\ d = pipe["write"][k + 1]
      BY <1>0, <3>2, <3>3, <3>4, TailFacts
    <3>6. 1 < k + 1
      BY <3>5
    <3>. QED BY <1>2, <2>3, <3>2, <3>3, <3>5, <3>6 DEF ServedInOrder
  <2>. QED BY <2>5, <2>6
<1>. QED BY <1>1, <1>2, WriteSteps

LEMMA MergedStep == TypeInv /\ SentMerged /\ [Next]_vars => SentMerged'
<1>. SUFFICES ASSUME TypeInv, SentMerged, [Next]_vars, NEW c \in Caller, IsWrite(c)', InFlight(c)'
              PROVE  /\ \A f \in Field :
                          call'[c].patch[f] # Unset => call'[c].next[f] = call'[c].patch[f]
                     /\ call'[c].state = "answered" => call'[c].data \in {call'[c].next, Nothing}
  BY DEF SentMerged
<1>1. CASE /\ call'[c].state = "sent" /\ call'[c].patch = call[c].patch
           /\ call'[c].next = Sent(call[c].patch)
  <2>1. call[c].patch \in Partial /\ preferences \in Preferences
    BY DEF TypeInv, TypeOK, CallRecord
  <2>. QED BY <1>1, <2>1, MergeType DEF Sent
<1>2. CASE IsWrite(c) /\ InFlight(c) /\ Goes(c)
  <2>1. \A f \in Field : call'[c].patch[f] # Unset => call'[c].next[f] = call'[c].patch[f]
    BY <1>2 DEF SentMerged, Goes
  <2>2. CASE call'[c].state = "answered" => call[c].state = "answered" /\ call'[c].data = call[c].data
    BY <1>2, <2>1, <2>2 DEF SentMerged, Goes
  <2>3. ASSUME NEW r \in Route, Serve(r), c = Head(pipe[r]), call[c].state = "sent"
        PROVE  call'[c].data \in {call'[c].next, Nothing}
    <3>1. PICK s \in Served(c, r) : call'[c].data = s[2]
      BY <2>3, ServeCalls DEF TypeInv
    <3>2. call[c].op \notin Transition /\ call[c].op # "get"
      BY <1>2 DEF IsWrite, Transition
    <3>3. Served(c, r) = {<<call[c].next, call[c].next>>, <<Image(r), Nothing>>}
      BY <3>2 DEF Served
    <3>4. s = <<call[c].next, call[c].next>> \/ s = <<Image(r), Nothing>>
      BY <3>3
    <3>. QED BY <1>2, <3>1, <3>4 DEF Goes
  <2>. QED BY <1>2, <2>1, <2>2, <2>3 DEF Goes
<1>. QED BY <1>1, <1>2, WriteSteps

LEMMA ReadsAreKept == TypeInv /\ [Next]_vars /\ HasRead => HasRead'
<1>. SUFFICES ASSUME TypeInv, [Next]_vars,
                     NEW c \in Caller, call[c].op = "get", call[c].state = "done"
              PROVE  call'[c].op = "get" /\ call'[c].state = "done"
  BY DEF HasRead
<1>. QED BY StartedGoes DEF Started, Goes

(* A write on its way was on its way before with the same preferences, or  *)
(* is sent with the adapter's copy.                                        *)
LEMMA WaySteps ==
  ASSUME TypeInv, Piped, [Next]_vars, NEW c \in Caller, OnItsWay(c)'
  PROVE  \/ OnItsWay(c) /\ call'[c].next = call[c].next
         \/ /\ Waiting(c) /\ call'[c].next = Sent(call[c].patch) /\ settled' = settled
            /\ preferences' = preferences
<1>1. CASE InFlight(c)'
  BY <1>1, WriteSteps DEF OnItsWay, Goes, Waiting
<1>2. ASSUME NEW k \in DOMAIN pipe'["write"], pipe'["write"][k] = c, ~ InFlight(c)'
      PROVE  OnItsWay(c) /\ call'[c].next = call[c].next
  <2>0. "write" \in Route
    BY DEF Route
  <2>1. ~ Sends(c)
    BY <1>2 DEF Sends, InFlight
  <2>2. PICK m \in DOMAIN pipe["write"] : pipe["write"][m] = c
    BY <1>2, <2>0, <2>1, PipeEntry
  <2>3. Goes(c)
    BY <2>0, <2>2, StartedGoes DEF Piped
  <2>. QED BY <2>2, <2>3 DEF Goes, OnItsWay, In, IsWrite
<1>3. \/ InFlight(c)'
      \/ \E k \in DOMAIN pipe'["write"] : pipe'["write"][k] = c
  BY DEF OnItsWay, In
<1>. QED BY <1>1, <1>2, <1>3

(* The values that a write is sent with, or keeps in the adapter, are the  *)
(* settled ones: it sets only what is not settled.                         *)
LEMMA MergeAgrees ==
  ASSUME TypeInv, Unsettled, Agrees(preferences), NEW c \in Caller, Waiting(c)
  PROVE  Agrees(Merge(preferences, call[c].patch))
<1>1. call[c].patch \in Partial /\ preferences \in Preferences
  BY DEF TypeInv, TypeOK, CallRecord
<1>. QED BY <1>1, MergeType DEF Agrees, Unsettled

LEMMA SettledSteps ==
  ASSUME TypeInv, [Next]_vars, ~ WriteDone, NEW f \in Field
  PROVE  settled'[f] \in {settled[f], Unset}
<1>1. ASSUME NEW c \in Caller, NEW op \in {"set", "focus"}, NEW g \in Field, NEW v \in Value,
             Enqueue(c, op, g, v)
      PROVE  settled'[f] \in {settled[f], Unset}
  BY <1>1, EnqueueUnsettles DEF TypeInv
<1>2. ASSUME NEW r \in Route, Serve(r) PROVE settled'[f] \in {settled[f], Unset}
  BY <1>2 DEF Serve, Nothing
<1>3. CASE settled' = settled
  BY <1>3
<1>4. CASE Next
  BY <1>1, <1>2, <1>3, <1>4
     DEF Next, Set, Focus, Get, GetDone, StartTransition, FinishTransition, StartWrite, LoseChild,
         Malformed, ServeOther, Field
<1>. QED BY <1>3, <1>4 DEF vars

(* When a write is acknowledged no other write is on its way.              *)
LEMMA WriteDoneAlone ==
  ASSUME TypeInv, Piped, ServedInOrder, WriteDone, NEW c \in Caller, c = Head(writeQueue),
         NEW d \in Caller, OnItsWay(d)'
  PROVE  FALSE
<1>1. /\ IsWrite(c) /\ InFlight(c) /\ call[c].state = "answered"
      /\ \A e \in Caller \ {c} : Pending(e) => call[e].state = "queued"
  BY HeadFacts DEF WriteDone, InFlight, Pending
<1>2. call'[c].state = "done" /\ Others(c) /\ pipe' = pipe /\ call'[c].op = call[c].op
  BY WriteDoneCalls DEF TypeInv, WriteDone
<1>3. ~ InFlight(d)'
  BY <1>1, <1>2 DEF OnItsWay, InFlight, Others, Pending, Waiting, IsWrite
<1>4. \E k \in DOMAIN pipe["write"] : pipe["write"][k] = d
  BY <1>2, <1>3 DEF OnItsWay, In
<1>5. IsWrite(d)
  BY <1>2 DEF OnItsWay, IsWrite, Others
<1>. QED BY <1>1, <1>4, <1>5 DEF ServedInOrder

LEMMA CopyStep == TypeInv /\ WriterInv /\ [Next]_vars => CopyAgrees'
<1>. SUFFICES ASSUME TypeInv, WriterInv, [Next]_vars, ~ HasRead'
              PROVE  Agrees(preferences)' /\ \A c \in Caller : OnItsWay(c)' => Agrees(call[c].next)'
  BY DEF CopyAgrees
<1>. USE DEF WriterInv
<1>0. ~ HasRead /\ Agrees(preferences) /\ \A c \in Caller : OnItsWay(c) => Agrees(call[c].next)
  BY ReadsAreKept DEF CopyAgrees
<1>1. CASE WriteDone
  <2>1. PICK c \in Caller : /\ c = Head(writeQueue) /\ IsWrite(c) /\ InFlight(c)
                            /\ call[c].state = "answered" /\ call[c].next \in Preferences
    BY <1>1, HeadFacts DEF WriteDone, Pending, InFlight
  <2>2. call[c].data \in {call[c].next, Nothing}
    BY <2>1 DEF SentMerged
  <2>3. preferences' = Merge(call[c].next, call[c].data)
    BY <1>1, <2>1 DEF WriteDone
  <2>4. \A f \in Field : preferences'[f] = call[c].next[f]
    <3>1. call[c].data \in Partial
      BY DEF TypeInv, TypeOK, CallRecord
    <3>2. \A f \in Field :
            preferences'[f] = IF call[c].data[f] = Unset THEN call[c].next[f] ELSE call[c].data[f]
      BY <2>1, <2>3, <3>1, MergeType
    <3>3. CASE call[c].data = call[c].next
      BY <3>2, <3>3
    <3>4. CASE call[c].data = Nothing
      BY <3>2, <3>4 DEF Nothing
    <3>. QED BY <2>2, <3>3, <3>4
  <2>5. ASSUME NEW f \in Field, settled'[f] # Unset PROVE call[c].next[f] = settled'[f]
    <3>1. CASE settled'[f] = settled[f]
      BY <1>0, <2>1, <2>5, <3>1 DEF OnItsWay, Agrees
    <3>2. CASE settled'[f] = call[c].patch[f] /\ call[c].patch[f] # Unset
      BY <2>1, <3>2 DEF SentMerged
    <3>. QED BY <1>1, <2>1, <3>1, <3>2, WriteDoneSettles
  <2>6. Agrees(preferences)'
    BY <2>4, <2>5 DEF Agrees
  <2>. QED BY <1>1, <2>1, <2>6, WriteDoneAlone
<1>2. CASE ~ WriteDone
  <2>1. \A f \in Field : settled'[f] \in {settled[f], Unset}
    BY <1>2, SettledSteps
  <2>2. \A p : Agrees(p) => \A f \in Field : settled'[f] # Unset => p[f] = settled'[f]
    BY <2>1 DEF Agrees
  <2>3. ASSUME NEW c \in Caller, OnItsWay(c)' PROVE Agrees(call[c].next)'
    <3>1. CASE OnItsWay(c) /\ call'[c].next = call[c].next
      BY <1>0, <2>2, <3>1 DEF Agrees
    <3>2. CASE Waiting(c) /\ call'[c].next = Sent(call[c].patch) /\ settled' = settled
      <4>1. Agrees(Sent(call[c].patch))
        BY <1>0, <3>2, MergeAgrees DEF Sent
      <4>. QED BY <2>2, <3>2, <4>1 DEF Agrees
    <3>. QED BY <2>3, <3>1, <3>2, WaySteps
  <2>4. CASE preferences' = preferences
    <3>1. Agrees(preferences)'
      BY <1>0, <2>2, <2>4 DEF Agrees
    <3>. QED BY <2>3, <3>1
  <2>5. ASSUME NEW c \in Caller, GetDone(c) PROVE FALSE
    BY <2>5, GetDoneCalls DEF HasRead, TypeInv
  <2>6. ASSUME NEW c \in Caller, Focus(c) PROVE Agrees(preferences)'
    <3>1. PICK v \in Value : /\ Enqueue(c, "focus", "lastWorkspace", v)
                             /\ preferences' = [preferences EXCEPT !["lastWorkspace"] = v]
      BY <2>6 DEF Focus
    <3>2. "lastWorkspace" \in Field /\ settled'["lastWorkspace"] = Unset
      BY <3>1, EnqueueUnsettles DEF Field, TypeInv
    <3>3. \A f \in Field \ {"lastWorkspace"} : preferences'[f] = preferences[f]
      BY <3>1 DEF TypeInv, TypeOK, Preferences
    <3>. QED BY <1>0, <2>2, <3>2, <3>3 DEF Agrees
  <2>7. ASSUME StartWrite PROVE Agrees(preferences)'
    <3>1. PICK c \in Caller : c = Head(writeQueue) /\ Waiting(c)
      BY <2>7, HeadFacts DEF StartWrite, WriteStarts, Pending
    <3>2. preferences' = preferences \/ preferences' = Merge(preferences, call[c].patch)
      BY <2>7, <3>1 DEF StartWrite
    <3>3. Agrees(Merge(preferences, call[c].patch))
      BY <1>0, <3>1, MergeAgrees
    <3>. QED BY <1>0, <2>2, <3>2, <3>3 DEF Agrees
  <2>8. CASE Next
    BY <1>2, <2>3, <2>4, <2>5, <2>6, <2>7, <2>8
       DEF Next, Get, Set, StartTransition, FinishTransition, LoseChild, Malformed, Serve,
           ServeOther, adapter
  <2>. QED BY <2>3, <2>4, <2>8 DEF vars, adapter
<1>. QED BY <1>1, <1>2

LEMMA WriterStep == TypeInv /\ WriterInv /\ [Next]_vars => WriterInv'
BY UnsettledStep, PipedStep, OrderStep, MergedStep, CopyStep DEF WriterInv

(* Writes of different preferences do not undo each other, for any number  *)
(* of writers: until a read is merged into the adapter's copy, what has    *)
(* been acknowledged leaves the image of the write child only with the     *)
(* child, or for a later write of it.                                      *)
THEOREM WritersKeepWhatIsSettled == Spec => OnlyTheWriterForgets
<1>1. Init => WriterInv
  BY EmptyFacts DEF Init, WriterInv, Unsettled, Piped, ServedInOrder, SentMerged, CopyAgrees,
                    OnItsWay, In, InFlight, Waiting, Agrees, Route, Nothing
<1>2. TypeInv /\ WriterInv /\ [Next]_vars =>
        [\A f \in Field :
           settled[f] # Unset /\ Remembered(f) /\ ~ Remembered(f)' /\ ~ HasRead =>
             settled'[f] = Unset \/ memory'["write"] = NoImage]_vars
  <2>. SUFFICES ASSUME TypeInv, WriterInv, [Next]_vars, NEW f \in Field,
                       settled[f] # Unset, Remembered(f), ~ Remembered(f)', ~ HasRead,
                       settled'[f] # Unset, memory'["write"] # NoImage
                PROVE  FALSE
    OBVIOUS
  <2>0. "write" \in Route /\ memory["write"] # NoImage /\ memory["write"][f] = settled[f]
    BY DEF Remembered, Route
  <2>1. settled'[f] = settled[f]
    <3>1. ASSUME WriteDone PROVE settled'[f] = settled[f]
      <4>1. PICK c \in Caller : c = Head(writeQueue) /\ Waiting(c)
        BY <3>1, HeadFacts DEF WriteDone, Pending
      <4>2. call[c].patch[f] = Unset
        BY <4>1 DEF WriterInv, Unsettled
      <4>. QED BY <3>1, <4>1, <4>2, WriteDoneSettles
    <3>. QED BY <3>1, SettledSteps
  <2>2. memory'["write"] # memory["write"]
    BY <2>0, <2>1 DEF Remembered
  <2>3. ASSUME NEW r \in Route, Serve(r) PROVE FALSE
    <3>1. PICK c \in Caller : c = pipe[r][1] /\ c = Head(pipe[r]) /\ 1 \in DOMAIN pipe[r]
      BY <2>3, TailFacts DEF Serve, TypeInv, TypeOK
    <3>2. r = "write"
      BY <2>2, <2>3 DEF Serve, TypeInv, TypeOK
    <3>3. call[c].op \notin Transition
      BY <2>3, <3>1 DEF Serve, Nothing
    <3>4. IsWrite(c)
      BY <3>1, <3>2, <3>3 DEF WriterInv, Piped, RouteOf, Transition, IsWrite, TypeInv, TypeOK,
                              CallRecord, Op
    <3>5. Served(c, r) = {<<call[c].next, call[c].next>>, <<Image(r), Nothing>>}
      BY <3>3, <3>4 DEF Served, IsWrite
    <3>6. PICK s \in Served(c, r) : memory' = [memory EXCEPT ![r] = s[1]]
      BY <2>3, <3>1, ServeCalls DEF TypeInv
    <3>7. s = <<call[c].next, call[c].next>> \/ s = <<Image(r), Nothing>>
      BY <3>5
    <3>8. memory'["write"] = s[1]
      BY <2>0, <3>2, <3>6 DEF TypeInv, TypeOK
    <3>9. s[1] \in {call[c].next, Image("write")}
      BY <3>2, <3>7
    <3>10. call[c].next[f] = settled[f]
      BY <3>1, <3>2, <3>4 DEF WriterInv, CopyAgrees, OnItsWay, In, Agrees
    <3>11. Image("write") = memory["write"]
      BY <2>0 DEF Image
    <3>. QED BY <2>1, <2>2, <3>8, <3>9, <3>10, <3>11 DEF Remembered
  <2>4. ASSUME NEW r \in Route, ServeOther(r) PROVE FALSE
    BY <2>0, <2>2, <2>4 DEF ServeOther, Image, TypeInv, TypeOK
  <2>5. ASSUME NEW R, DropChildren(R) PROVE FALSE
    BY <2>0, <2>2, <2>5 DEF DropChildren
  <2>6. memory' # memory
    BY <2>2
  <2>. QED BY <2>3, <2>4, <2>5, <2>6
           DEF Next, Get, GetDone, Set, Focus, Enqueue, StartTransition, FinishTransition,
               StartWrite, WriteDone, LoseChild, Malformed, vars, images
<1>. QED BY <1>1, <1>2, TypeInit, TypeStep, WriterStep, PTL DEF Spec, OnlyTheWriterForgets
=============================================================================
