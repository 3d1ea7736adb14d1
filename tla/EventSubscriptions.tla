------------------------- MODULE EventSubscriptions -------------------------
(***************************************************************************)
(* How environment events reach the renderer: DesktopEventBroker in the    *)
(* main process, the handlers and the queues of the preload bridge, and    *)
(* the effects of App.tsx that subscribe.  An effect runs again when what  *)
(* it depends on changes: its cleanup leaves the subscription of the run   *)
(* before and the new run asks for one.  The invocations of the page, the  *)
(* answers to them and the events sent to it are three queues; the events  *)
(* are kept by subscription, and taken in the order they were sent.        *)
(*                                                                         *)
(* A run of an effect has a number.  Events are numbered in the order they *)
(* are emitted and are of a sort: what an effect filters by (families and  *)
(* visibility) and what its handler looks at (the event's kind).  What a   *)
(* refresh loads is the matter of other modules.                           *)
(***************************************************************************)
EXTENDS Naturals, Sequences

CONSTANTS
  Effect,          \* effects that subscribe
  Sort,            \* sorts of events
  Filters,         \* Filters[e]: the sets of sorts that effect e may ask for
  Refreshing,      \* sorts whose events make a handler schedule a refresh
  MaxRuns,         \* runs of effects
  MaxEvents,
  MaxReloads       \* reloads of the page

ASSUME EffectAssumption == Effect # {}
ASSUME FilterAssumption == Refreshing \subseteq Sort /\ \A e \in Effect : Filters[e] \subseteq SUBSET Sort
ASSUME BoundAssumption == MaxRuns \in Nat /\ MaxEvents \in Nat /\ MaxReloads \in Nat

VARIABLES
  subscriptions,   \* eventSubscriptions of the broker: who subscribed
  nextId,          \* nextSubscriptionId
  requests,        \* invocations on their way to the main process
  answers,         \* answers to subscriptions, on their way back
  sent,            \* events on their way to the page, by subscription
  handlers,        \* eventHandlers of the preload bridge
  held,            \* pendingEvents
  run,             \* runs of effects
  timer,           \* pendingConversationRefreshTimerRef and its like: the run that set it, or 0
  reloads,
  due,             \* history: the events emitted since a run was subscribed
  heard,           \* history: the events its handler was called with
  emitted          \* history: the sort of each event

main == <<subscriptions, nextId, due, emitted>>
preload == <<handlers, held>>
renderer == <<run, timer, heard>>
vars == <<main, requests, answers, sent, preload, renderer, reloads>>

Run     == 1..MaxRuns
Id      == 1..MaxRuns
Event   == 1..MaxEvents
NotRun  == [effect |-> CHOOSE e \in Effect : TRUE, filter |-> {}, phase |-> "none", id |-> 0]

\* What the page invokes.
Subscribe(r)    == [call |-> "subscribe", of |-> r]
Unsubscribe(id) == [call |-> "unsubscribe", of |-> id]

Request   == [call : {"subscribe", "unsubscribe"}, of : Run \cup Id]
Answer    == [id : Id, of : Run]
RunRecord == [effect : Effect, filter : SUBSET Sort, id : {0} \cup Id,
              phase : {"none", "asked", "ready", "left", "abandoned", "gone"}]

Active(r) == run[r].phase \in {"asked", "ready"}

(* Values have their types, and an effect has one active run at most.      *)
TypeOK ==
  /\ subscriptions \subseteq Answer
  /\ nextId \in 1..(MaxRuns + 1)
  /\ requests \in Seq(Request)
  /\ answers \in Seq(Answer)
  /\ sent \in [Id -> Seq(Event)]
  /\ handlers \in [Id -> {0} \cup Run] /\ held \in [Id -> Seq(Event)]
  /\ run \in [Run -> RunRecord]
  /\ timer \in [Effect -> {0} \cup Run]
  /\ reloads \in 0..MaxReloads
  /\ due \in [Run -> Seq(Event)] /\ heard \in [Run -> Seq(Event)] /\ emitted \in Seq(Sort)
  /\ \A r, s \in Run : Active(r) /\ Active(s) /\ run[r].effect = run[s].effect => r = s

Init ==
  /\ subscriptions = {} /\ nextId = 1 /\ requests = <<>> /\ answers = <<>>
  /\ sent = [id \in Id |-> <<>>]
  /\ handlers = [id \in Id |-> 0] /\ held = [id \in Id |-> <<>>]
  /\ run = [r \in Run |-> NotRun] /\ timer = [e \in Effect |-> 0] /\ reloads = 0
  /\ due = [r \in Run |-> <<>>] /\ heard = [r \in Run |-> <<>>] /\ emitted = <<>>
-----------------------------------------------------------------------------
(* Effects.                                                                *)

\* A cleanup that leaves the timer running, for the mutation runs.
TimerKept(e) == timer

TimerCleared(e) == [timer EXCEPT ![e] = 0]

\* An effect without a cleanup, for the mutation runs.
NoneLeft(e) == run

\* What is left of the runs of e when its cleanup has run.  A run whose subscription was not
\* answered yet does not know what to unsubscribe.
Left(e) ==
  [r \in Run |->
     CASE run[r].effect = e /\ run[r].phase = "ready" -> [run[r] EXCEPT !.phase = "left"]
       [] run[r].effect = e /\ run[r].phase = "asked" -> [run[r] EXCEPT !.phase = "abandoned"]
       [] OTHER -> run[r]]

Known(e) == {run[r].id : r \in {x \in Run : run[x].effect = e /\ run[x].phase = "ready"}}

\* A cleanup that drops the handler in the preload bridge alone, for the mutation runs.
NoCalls(e) == <<>>

\* Of the runs of an effect only the last one is active.
UnsubscribeCalls(e) ==
  IF Known(e) = {} THEN <<>> ELSE <<Unsubscribe(CHOOSE id \in Known(e) : TRUE)>>

\* events.unsubscribe of the preload bridge.
Forgotten(e) ==
  /\ handlers' = [id \in Id |-> IF id \in Known(e) THEN 0 ELSE handlers[id]]
  /\ held' = [id \in Id |-> IF id \in Known(e) THEN <<>> ELSE held[id]]

Leave(e) ==
  /\ \E r \in Run : Active(r) /\ run[r].effect = e
  /\ Forgotten(e)
  /\ requests' = requests \o UnsubscribeCalls(e)
  /\ run' = Left(e)
  /\ timer' = TimerCleared(e)
  /\ UNCHANGED <<main, answers, sent, heard, reloads>>

\* What e depends on changed, or it runs for the first time.
Rerun(e, r, filter) ==
  /\ run[r].phase = "none" /\ \A s \in 1..(r - 1) : run[s].phase # "none"
  /\ Forgotten(e)
  /\ requests' = requests \o UnsubscribeCalls(e) \o <<Subscribe(r)>>
  /\ run' = [Left(e) EXCEPT ![r] = [effect |-> e, filter |-> filter, phase |-> "asked", id |-> 0]]
  /\ timer' = TimerCleared(e)
  /\ UNCHANGED <<main, answers, sent, heard, reloads>>

\* The timer of e goes off: what e shows is loaded again.
Refresh(e) ==
  /\ timer[e] # 0
  /\ timer' = TimerCleared(e)
  /\ UNCHANGED <<main, requests, answers, sent, preload, run, heard, reloads>>

\* The page is loaded again.  The main process learns nothing of it.
Reload ==
  /\ reloads < MaxReloads /\ reloads' = reloads + 1
  /\ handlers' = [id \in Id |-> 0] /\ held' = [id \in Id |-> <<>>]
  /\ run' = [r \in Run |-> IF run[r].phase = "none" THEN run[r] ELSE [run[r] EXCEPT !.phase = "gone"]]
  /\ timer' = [e \in Effect |-> 0]
  /\ answers' = <<>> /\ sent' = [id \in Id |-> <<>>]
  /\ UNCHANGED <<main, requests, heard>>
-----------------------------------------------------------------------------
(* The main process.                                                       *)

Call == Head(requests)

ServeSubscribe ==
  /\ requests # <<>> /\ Call.call = "subscribe"
  /\ subscriptions' = subscriptions \cup {[id |-> nextId, of |-> Call.of]}
  /\ nextId' = nextId + 1
  /\ requests' = Tail(requests)
  /\ answers' = IF run[Call.of].phase = "gone" THEN answers
                ELSE Append(answers, [id |-> nextId, of |-> Call.of])
  /\ UNCHANGED <<due, emitted, sent, preload, renderer, reloads>>

ServeUnsubscribe ==
  /\ requests # <<>> /\ Call.call = "unsubscribe"
  /\ subscriptions' = {s \in subscriptions : s.id # Call.of}
  /\ requests' = Tail(requests)
  /\ UNCHANGED <<nextId, due, emitted, answers, sent, preload, renderer, reloads>>

\* eventMatchesSubscription.
Matches(sort, s) == sort \in run[s.of].filter

\* emit, when a command streams an event.
Emit(sort) ==
  /\ Len(emitted) < MaxEvents
  /\ LET event == Len(emitted) + 1
         to    == {s \in subscriptions : Matches(sort, s)}
     IN /\ sent' = [id \in Id |-> IF \E s \in to : s.id = id THEN Append(sent[id], event) ELSE sent[id]]
        /\ due' = [r \in Run |-> IF \E s \in to : s.of = r THEN Append(due[r], event) ELSE due[r]]
  /\ emitted' = Append(emitted, sort)
  /\ UNCHANGED <<subscriptions, nextId, requests, answers, preload, renderer, reloads>>
-----------------------------------------------------------------------------
(* Messages reach the page.                                                *)

\* A handler that looks at nothing before it acts, for the mutation runs.
HandlesAlways(r, events) == events

\* handleEnvironmentEvent and handleTranscriptEvent: the handler of a run that was left does nothing.
Handles(r, events) == IF Active(r) THEN events ELSE <<>>

Called(r, events) ==
  /\ heard' = [heard EXCEPT ![r] = @ \o Handles(r, events)]
  /\ timer' = IF \E k \in DOMAIN Handles(r, events) : emitted[events[k]] \in Refreshing
              THEN [timer EXCEPT ![run[r].effect] = r] ELSE timer

\* A subscription answered as if no event could have come before, for the mutation runs.
NoneHeld(id) == <<>>

\* The events that came before the answer.
Flushed(id) == held[id]

\* subscribeEnvironmentEvents goes on.
AnswerArrives ==
  /\ answers # <<>>
  /\ LET r == Head(answers).of  id == Head(answers).id
     IN /\ handlers' = [handlers EXCEPT ![id] = r]
        /\ held' = [held EXCEPT ![id] = <<>>]
        /\ Called(r, Flushed(id))
        /\ run' = [run EXCEPT ![r].id = id, ![r].phase = IF @ = "asked" THEN "ready" ELSE @]
  /\ answers' = Tail(answers)
  /\ UNCHANGED <<main, requests, sent, reloads>>

\* The broker sends an event to its subscriptions in the order of their identifiers.
SentBefore(j, id) ==
  /\ sent[j] # <<>>
  /\ \/ Head(sent[j]) < Head(sent[id])
     \/ Head(sent[j]) = Head(sent[id]) /\ j < id

\* events:subscription-event.
Arrives(id) ==
  /\ sent[id] # <<>> /\ \A j \in Id : ~ SentBefore(j, id)
  /\ LET event == Head(sent[id])
     IN IF handlers[id] # 0
        THEN Called(handlers[id], <<event>>) /\ UNCHANGED held
        ELSE held' = [held EXCEPT ![id] = Append(@, event)] /\ UNCHANGED <<heard, timer>>
  /\ sent' = [sent EXCEPT ![id] = Tail(@)]
  /\ UNCHANGED <<main, requests, answers, handlers, run, reloads>>

EventArrives == \E id \in Id : Arrives(id)
-----------------------------------------------------------------------------
Next ==
  \/ \E e \in Effect : \/ Leave(e) \/ Refresh(e)
                       \/ \E r \in Run, filter \in Filters[e] : Rerun(e, r, filter)
  \/ Reload
  \/ ServeSubscribe \/ ServeUnsubscribe
  \/ \E sort \in Sort : Emit(sort)
  \/ AnswerArrives \/ EventArrives

Spec == Init /\ [][Next]_vars

(* The two processes take the messages they are sent.                      *)
FairSpec == Spec /\ WF_vars(ServeSubscribe) /\ WF_vars(ServeUnsubscribe)
                 /\ WF_vars(AnswerArrives) /\ WF_vars(EventArrives)
-----------------------------------------------------------------------------
(* Properties.                                                             *)

\* The identifier a run was given, if it was given one.
IdOf(r) == {s.id : s \in {x \in subscriptions : x.of = r}}

(* The handler of an active run is called with the events emitted since    *)
(* the broker entered its subscription, each once and in their order:      *)
(* what it heard, what the preload bridge holds for it because the answer  *)
(* to the subscription is not there yet, and what is on its way, are       *)
(* together what is due to it (subscribe and emit of the broker, and the   *)
(* queue and the flush of the preload bridge).                             *)
EverySubscriberHearsItsEvents ==
  \A r \in Run : Active(r) =>
    \/ IdOf(r) = {} /\ due[r] = <<>> /\ heard[r] = <<>>
    \/ \E id \in IdOf(r) : heard[r] \o held[id] \o sent[id] = due[r]

(* A refresh is waited for only by the run that scheduled it, while that   *)
(* run is active: none is made for an environment or a filter that was     *)
(* left, although events for runs that were left keep coming (the flag     *)
(* "active" of the effects and the timers their cleanups clear).           *)
RefreshesAreForWhatIsShown ==
  \A e \in Effect : timer[e] # 0 => Active(timer[e]) /\ run[timer[e]].effect = e

(* When nothing is on its way, the broker sends events only to runs that   *)
(* are active, apart from runs whose cleanup came before the answer to     *)
(* their subscription, and from runs of a page that was loaded again:      *)
(* these nobody unsubscribes.                                              *)
LeftRunsAreUnsubscribed ==
  requests = <<>> /\ answers = <<>> =>
    \A s \in subscriptions : Active(s.of) \/ run[s.of].phase \in {"abandoned", "gone"}

(* What is due to a run it hears, or it is left first.                     *)
EventsAreHeard ==
  \A r \in Run, n \in Event :
    (Active(r) /\ Len(due[r]) >= n) ~> (Len(heard[r]) >= n \/ ~ Active(r))
=============================================================================
