--------------------- MODULE ConversationThreads_proofs ---------------------
(***************************************************************************)
(* Theorems about ConversationThreads, for any sets of threads and of      *)
(* messages: types, the released composer, transcripts that only grow, and *)
(* the selected thread that ends up on screen.                             *)
(***************************************************************************)
EXTENDS ConversationThreads, TLAPS

USE ThreadAssumption, BoundAssumption

LEMMA OrType ==
  ASSUME NEW a \in MaybeThread, NEW b \in MaybeThread
  PROVE  Or(a, b) \in MaybeThread
BY DEF Or

LEMMA MoreType ==
  ASSUME NEW loads \in [Thread -> Nat], NEW t \in MaybeThread
  PROVE  More(loads, t) \in [Thread -> Nat]
BY DEF More, MaybeThread

LEMMA FewerType ==
  ASSUME NEW S, NEW loads \in [S -> Nat], NEW t \in S, loads[t] > 0
  PROVE  Fewer(loads, t) \in [S -> Nat]
BY DEF Fewer

LEMMA BlankType == Blank \in Transcript
BY DEF Blank, Transcript, MaybeThread

LEMMA IncomingType ==
  ASSUME TypeOK, NEW t \in Thread
  PROVE  Incoming(t) \in Transcript /\ Incoming(t).thread = t
BY DEF Incoming, Transcript, TypeOK, MaybeThread

LEMMA AppliedType ==
  ASSUME TypeOK, NEW d \in Transcript
  PROVE  Applied(d) \in Transcript /\ Applied(d).thread = d.thread
BY DEF Applied, TypeOK

LEMMA UnstuckType ==
  ASSUME NEW sticky \in MaybeThread, NEW d
  PROVE  Unstuck(sticky, d) \in MaybeThread
BY DEF Unstuck, MaybeThread

LEMMA RememberedType ==
  ASSUME TypeOK, NEW id, NEW shown
  PROVE  Remembered(id, shown) \in [Thread -> {"no", "yes"}]
BY DEF Remembered, TypeOK

LEMMA RenderingType ==
  ASSUME TypeOK, NEW id \in MaybeThread, NEW shown \in Transcript, NEW busy \in BOOLEAN,
         Rendering(id, shown, busy)
  PROVE  /\ rendered' \in [id : MaybeThread, shown : Transcript, sending : BOOLEAN]
         /\ details' \in [Thread -> Nat]
BY MoreType DEF Rendering, LoadIfNotShown, TypeOK

LEMMA RefreshType ==
  ASSUME TypeOK, NEW active \in BOOLEAN, RefreshEvent(active)
  PROVE  /\ workspaces' \in [MaybeThread -> Nat]
         /\ details' \in [Thread -> Nat]
<1>1. rendered.id \in MaybeThread /\ stickyThread \in MaybeThread
  BY DEF TypeOK
<1>2. Or(stickyThread, rendered.id) \in MaybeThread
  BY <1>1, OrType
<1>3. workspaces' \in [MaybeThread -> Nat]
  BY <1>2 DEF RefreshEvent, TypeOK
<1>4. details' \in [Thread -> Nat]
  BY <1>1, MoreType DEF RefreshEvent, TypeOK
<1>. QED BY <1>3, <1>4

LEMMA ActsType ==
  ASSUME TypeOK, acts' = acts \/ Acts
  PROVE  acts' \in 0 .. MaxActs
BY DEF Acts, TypeOK

(* What the answer about the workspace leaves: the next thread selected,   *)
(* and its transcript shown or nothing.                                    *)
LEMMA WorkspaceEffect ==
  ASSUME TypeOK, NEW asked \in MaybeThread, NEW last \in MaybeThread,
         WorkspaceAnswered(asked, last)
  PROVE  /\ threads' = listed /\ selectedThreadId' \in Thread
         /\ selectedThread' \in {Applied(Incoming(selectedThreadId')), Blank}
         /\ selectedThread' \in Transcript
         /\ stickyThread' \in MaybeThread
         /\ missed' = Remembered(selectedThreadId', selectedThread')
<1>1. listed \subseteq Thread /\ stickyThread \in MaybeThread /\ rendered.id \in MaybeThread
  BY DEF TypeOK
<1>2. NextThreads(last) \subseteq Thread
  BY <1>1 DEF NextThreads, MaybeThread
<1>3. Preferred(last) \in MaybeThread
  BY <1>1, OrType DEF Preferred
<1>4. PICK next \in NextThreads(last), about \in (IF asked \in listed THEN {asked} ELSE listed \cup {NoThread}) :
        LET sticky == StuckTo(next, Preferred(last)) IN
        /\ threads' = listed /\ selectedThreadId' = next
        /\ selectedThread' = IF about = next THEN Applied(Incoming(next)) ELSE Blank
        /\ stickyThread' = IF about = next THEN Unstuck(sticky, Incoming(next)) ELSE sticky
        /\ missed' = Remembered(next, selectedThread')
  BY DEF WorkspaceAnswered
<1>5. next \in Thread
  BY <1>2, <1>4
<1>6. selectedThread' \in Transcript
  BY <1>4, <1>5, IncomingType, AppliedType, BlankType
<1>7. StuckTo(next, Preferred(last)) \in MaybeThread
  BY <1>1, <1>5 DEF StuckTo, MaybeThread
<1>8. stickyThread' \in MaybeThread
  BY <1>4, <1>7, UnstuckType
<1>. QED BY <1>4, <1>5, <1>6, <1>8

LEMMA SendType ==
  ASSUME TypeOK, NEW s \in Send, NEW r \in SendRecord, send' = [send EXCEPT ![s] = r],
         r.state \in InProgress => r.thread \in Thread
  PROVE  send' \in [Send -> SendRecord] /\ Addressed'
<1>1. \A x \in Send : send'[x] = IF x = s THEN r ELSE send[x]
  BY DEF TypeOK
<1>. QED BY <1>1 DEF TypeOK, Addressed

LEMMA SettledType ==
  ASSUME TypeOK, NEW s \in Send, send' = Settled(s)
  PROVE  send' \in [Send -> SendRecord] /\ Addressed'
<1>1. Unused("settled") \in SendRecord /\ Unused("settled").state \notin InProgress
  BY DEF Unused, SendRecord, MaybeThread, InProgress
<1>. QED BY <1>1, SendType DEF Settled

LEMMA AnswerType ==
  ASSUME TypeOK, NEW s \in Send, NEW state \in {"confirming", "explaining"},
         NEW reply \in {"none", "bare", "turn"}, send[s].thread \in Thread
  PROVE  Answer(s, state, reply) \in SendRecord /\ Answer(s, state, reply).thread \in Thread
<1>1. send[s] \in SendRecord
  BY DEF TypeOK
<1>. DEFINE prior == IF reply = "turn" THEN send[s].prior ELSE 0
           over  == IF reply = "none" THEN NoThread ELSE send[s].over
<1>2. prior \in Nat /\ over \in MaybeThread
  BY <1>1 DEF SendRecord, MaybeThread
<1>. HIDE DEF prior, over
<1>3. [send[s] EXCEPT !.state = state, !.reply = reply, !.base = 0, !.prior = prior, !.over = over]
        \in SendRecord
  BY <1>1, <1>2 DEF SendRecord
<1>4. Answer(s, state, reply) =
        [send[s] EXCEPT !.state = state, !.reply = reply, !.base = 0, !.prior = prior, !.over = over]
  BY <1>1 DEF Answer, SendRecord, prior, over
<1>. QED BY <1>1, <1>3, <1>4 DEF SendRecord

LEMMA WithReplyType ==
  ASSUME TypeOK, NEW s \in Send, NEW reply
  PROVE  WithReply(s, reply) \in Transcript
<1>. DEFINE replaced == IF reply = "turn" /\ selectedThread.kept >= send[s].base + 2 THEN 2 ELSE 0
           answered == [selectedThread EXCEPT !.kept = @ - replaced, !.added = @ + 1]
<1>1. selectedThread \in Transcript /\ send[s].base \in Nat
  BY DEF TypeOK, SendRecord
<1>2. selectedThread.kept - replaced \in Nat /\ selectedThread.added + 1 \in Nat
  BY <1>1 DEF Transcript
<1>3. answered \in Transcript
  BY <1>1, <1>2 DEF Transcript
<1>4. WithReply(s, reply) \in {selectedThread, answered}
  BY DEF WithReply
<1>. QED BY <1>1, <1>3, <1>4

(* Every variable keeps its type.                                          *)
LEMMA TypeStep == TypeOK /\ [Next]_vars => TypeOK'
<1>. SUFFICES ASSUME TypeOK, [Next]_vars PROVE TypeOK'
  OBVIOUS
<1>. USE DEF environment, view, Addressed
<1>a. NoThread \in MaybeThread /\ ProjectThread \in MaybeThread /\ Thread \subseteq MaybeThread
  BY DEF MaybeThread
<1>1. CASE Render
  <2>1. Rendering(selectedThreadId, selectedThread, sending)
    BY <1>1 DEF Render
  <2>2. /\ rendered' \in [id : MaybeThread, shown : Transcript, sending : BOOLEAN]
        /\ details' \in [Thread -> Nat]
    BY <2>1, RenderingType DEF TypeOK
  <2>. QED BY <1>1, <2>2 DEF Render, TypeOK
<1>2. ASSUME NEW t \in Thread, Focus(t) PROVE TypeOK'
  <2>1. Rendering(t, Blank, sending)
    BY <1>2 DEF Focus
  <2>2. /\ rendered' \in [id : MaybeThread, shown : Transcript, sending : BOOLEAN]
        /\ details' \in [Thread -> Nat]
    BY <2>1, <1>a, BlankType, RenderingType DEF TypeOK
  <2>3. acts' \in 0 .. MaxActs
    BY <1>2, ActsType DEF Focus
  <2>. QED BY <1>2, <1>a, <2>2, <2>3, BlankType DEF Focus, TypeOK
<1>3. ASSUME NEW t \in Thread, Select(t) PROVE TypeOK'
  <2>1. Rendering(t, selectedThread, sending)
    BY <1>3 DEF Select
  <2>2. /\ rendered' \in [id : MaybeThread, shown : Transcript, sending : BOOLEAN]
        /\ details' \in [Thread -> Nat]
    BY <2>1, <1>a, RenderingType DEF TypeOK
  <2>3. acts' \in 0 .. MaxActs
    BY <1>3, ActsType DEF Select
  <2>. QED BY <1>3, <1>a, <2>2, <2>3 DEF Select, TypeOK
<1>4. ASSUME NEW t \in Thread, SelectFromIncident(t) PROVE TypeOK'
  <2>1. Rendering(t, Blank, sending)
    BY <1>4 DEF SelectFromIncident
  <2>2. /\ rendered' \in [id : MaybeThread, shown : Transcript, sending : BOOLEAN]
        /\ details' \in [Thread -> Nat]
    BY <2>1, <1>a, BlankType, RenderingType DEF TypeOK
  <2>3. acts' \in 0 .. MaxActs
    BY <1>4, ActsType DEF SelectFromIncident
  <2>. QED BY <1>4, <1>a, <2>2, <2>3, BlankType DEF SelectFromIncident, TypeOK
<1>5. ASSUME NEW s \in Send, SendMessage(s) PROVE TypeOK'
  <2>1. rendered.id \in Thread /\ rendered.shown \in Transcript
    BY <1>5 DEF SendMessage, TypeOK, MaybeThread
  <2>2. WithPrompt(rendered.id) \in Transcript
    BY <2>1, <1>a DEF WithPrompt, Transcript, TypeOK
  <2>3. Rendering(rendered.id, selectedThread', TRUE) /\ selectedThread' = WithPrompt(rendered.id)
    BY <1>5 DEF SendMessage
  <2>4. /\ rendered' \in [id : MaybeThread, shown : Transcript, sending : BOOLEAN]
        /\ details' \in [Thread -> Nat]
    BY <2>1, <2>2, <2>3, <1>a, RenderingType
  <2>5. Length(rendered.shown) \in Nat /\ rendered.shown.thread \in MaybeThread
    BY <2>1 DEF Length, Transcript
  <2>. DEFINE r == [Unused("asked") EXCEPT !.thread = rendered.id, !.prior = Length(rendered.shown),
                                         !.over = rendered.shown.thread]
  <2>6. r \in SendRecord /\ r.thread \in Thread
    BY <1>a, <2>1, <2>5 DEF SendRecord, Unused
  <2>7. send' = [send EXCEPT ![s] = r]
    BY <1>5 DEF SendMessage
  <2>8. send' \in [Send -> SendRecord] /\ Addressed'
    BY <2>6, <2>7, SendType
  <2>9. acts' \in 0 .. MaxActs
    BY <1>5, ActsType DEF SendMessage
  <2>. QED BY <1>5, <2>2, <2>3, <2>4, <2>8, <2>9 DEF SendMessage, TypeOK
<1>6. ASSUME NEW t \in Thread, CreateThread(t) PROVE TypeOK'
  <2>1. acts' \in 0 .. MaxActs
    BY <1>6, ActsType DEF CreateThread
  <2>. QED BY <1>6, <2>1 DEF CreateThread, TypeOK
<1>7. CASE RefreshedFromElsewhere
  <2>1. acts' \in 0 .. MaxActs
    BY <1>7, ActsType DEF RefreshedFromElsewhere
  <2>2. workspaces' \in [MaybeThread -> Nat] /\ details' \in [Thread -> Nat]
    BY <1>7, RefreshType DEF RefreshedFromElsewhere
  <2>. QED BY <1>7, <2>1, <2>2 DEF RefreshedFromElsewhere, TypeOK
<1>8. ASSUME NEW t \in Thread, DetailAnswered(t) PROVE TypeOK'
  <2>1. details' \in [Thread -> Nat]
    BY <1>8, FewerType DEF DetailAnswered, TypeOK
  <2>2. CASE StillActive(t) /\ selectedThread' = Applied(Incoming(t))
             /\ stickyThread' = Unstuck(stickyThread, Incoming(t))
             /\ missed' = Remembered(selectedThreadId, selectedThread')
    <3>1. selectedThread' \in Transcript /\ stickyThread' \in MaybeThread
      BY <2>2, IncomingType, AppliedType, UnstuckType DEF TypeOK
    <3>2. missed' \in [Thread -> {"no", "yes"}]
      BY <2>2, RememberedType
    <3>. QED BY <1>8, <2>1, <3>1, <3>2 DEF DetailAnswered, TypeOK
  <2>3. CASE ~ StillActive(t) /\ missed' = [missed EXCEPT ![t] = "yes"]
             /\ UNCHANGED <<selectedThread, stickyThread>>
    BY <1>8, <2>1, <2>3 DEF DetailAnswered, TypeOK
  <2>. QED BY <1>8, <2>2, <2>3 DEF DetailAnswered
<1>9. ASSUME NEW t \in Thread, DetailFailed(t) PROVE TypeOK'
  <2>1. details' \in [Thread -> Nat]
    BY <1>9, FewerType DEF DetailFailed, TypeOK
  <2>. QED BY <1>9, <2>1 DEF DetailFailed, TypeOK
<1>10. CASE Opened
  <2>1. CASE WorkspaceAnswered(ProjectThread, ProjectThread)
    <3>1. /\ threads' = listed /\ selectedThreadId' \in Thread
          /\ selectedThread' \in Transcript /\ stickyThread' \in MaybeThread
          /\ missed' = Remembered(selectedThreadId', selectedThread')
      BY <2>1, <1>a, WorkspaceEffect
    <3>2. missed' \in [Thread -> {"no", "yes"}]
      BY <3>1, RememberedType
    <3>. QED BY <1>10, <1>a, <3>1, <3>2 DEF Opened, TypeOK
  <2>2. CASE UNCHANGED <<threads, selectedThreadId, selectedThread, stickyThread, missed>>
    BY <1>10, <2>2 DEF Opened, TypeOK
  <2>. QED BY <1>10, <2>1, <2>2 DEF Opened
<1>11. ASSUME NEW t \in MaybeThread, WorkspaceDone(t) PROVE TypeOK'
  <2>1. workspaces' \in [MaybeThread -> Nat]
    BY <1>11, FewerType DEF WorkspaceDone, TypeOK
  <2>2. CASE WorkspaceAnswered(t, NoThread)
    <3>1. /\ threads' = listed /\ selectedThreadId' \in Thread
          /\ selectedThread' \in Transcript /\ stickyThread' \in MaybeThread
          /\ missed' = Remembered(selectedThreadId', selectedThread')
      BY <2>2, <1>a, WorkspaceEffect
    <3>2. missed' \in [Thread -> {"no", "yes"}]
      BY <3>1, RememberedType
    <3>. QED BY <1>11, <1>a, <2>1, <3>1, <3>2 DEF WorkspaceDone, TypeOK
  <2>3. CASE UNCHANGED <<threads, selectedThreadId, selectedThread, stickyThread, missed>>
    BY <1>11, <2>1, <2>3 DEF WorkspaceDone, TypeOK
  <2>. QED BY <1>11, <2>2, <2>3 DEF WorkspaceDone
<1>12. ASSUME NEW t \in Thread, ThreadCreated(t) PROVE TypeOK'
  <2>1. workspaces' \in [MaybeThread -> Nat] /\ details' \in [Thread -> Nat]
    BY <1>12, RefreshType DEF ThreadCreated
  <2>. QED BY <1>12, <2>1 DEF ThreadCreated, TypeOK
<1>13. ASSUME NEW t \in Thread, ThreadNotCreated(t) PROVE TypeOK'
  BY <1>13 DEF ThreadNotCreated, TypeOK
<1>14. ASSUME NEW t \in Thread, NewThreadListed(t) PROVE TypeOK'
  <2>1. More(details, t) \in [Thread -> Nat]
    BY <1>a, MoreType DEF TypeOK
  <2>. QED BY <1>14, <1>a, <2>1, BlankType DEF NewThreadListed, TypeOK
<1>15. ASSUME NEW s \in Send, StoreTurn(s) PROVE TypeOK'
  <2>1. send[s].thread \in Thread /\ send[s] \in SendRecord
    BY <1>15 DEF StoreTurn, TypeOK, Addressed, InProgress
  <2>2. PICK t \in listed \cup {send[s].thread} :
          /\ stored' = [stored EXCEPT ![t] = @ + 2]
          /\ send' = [send EXCEPT ![s] = [AnsweredIn(s, t, "stored") EXCEPT !.base = stored[t]]]
    BY <1>15 DEF StoreTurn
  <2>3. t \in Thread /\ stored[t] \in Nat
    BY <2>1, <2>2 DEF TypeOK
  <2>4. stored' \in [Thread -> Nat]
    BY <2>2, <2>3 DEF TypeOK
  <2>. DEFINE r == [AnsweredIn(s, t, "stored") EXCEPT !.base = stored[t]]
  <2>5. r \in SendRecord /\ r.thread \in Thread
    BY <1>a, <2>1, <2>3 DEF SendRecord, AnsweredIn
  <2>6. send' \in [Send -> SendRecord] /\ Addressed'
    BY <2>2, <2>5, SendType
  <2>. QED BY <1>15, <2>4, <2>6 DEF StoreTurn, TypeOK
<1>16. ASSUME NEW s \in Send, RefuseTurn(s) PROVE TypeOK'
  <2>1. send[s].thread \in Thread /\ send[s] \in SendRecord
    BY <1>16 DEF RefuseTurn, TypeOK, Addressed, InProgress
  <2>2. PICK t \in listed \cup {send[s].thread}, n \in {0, 1} :
          /\ stored' = [stored EXCEPT ![t] = @ + n]
          /\ send' = [send EXCEPT ![s] = AnsweredIn(s, t, "refused")]
    BY <1>16 DEF RefuseTurn
  <2>3. t \in Thread /\ stored[t] \in Nat
    BY <2>1, <2>2 DEF TypeOK
  <2>4. stored' \in [Thread -> Nat]
    BY <2>2, <2>3 DEF TypeOK
  <2>. DEFINE r == AnsweredIn(s, t, "refused")
  <2>5. r \in SendRecord /\ r.thread \in Thread
    BY <1>a, <2>1, <2>3 DEF SendRecord, AnsweredIn
  <2>6. send' \in [Send -> SendRecord] /\ Addressed'
    BY <2>2, <2>5, SendType
  <2>. QED BY <1>16, <2>4, <2>6 DEF RefuseTurn, TypeOK
<1>17. ASSUME NEW s \in Send, SendAnswered(s) PROVE TypeOK'
  <2>1. send[s].thread \in Thread
    BY <1>17 DEF SendAnswered, TypeOK, Addressed, InProgress
  <2>2. PICK reply \in {"none", "bare", "turn"} :
          /\ send' = [send EXCEPT ![s] = Answer(s, "confirming", reply)]
          /\ selectedThread' = WithReply(s, reply)
    BY <1>17 DEF SendAnswered
  <2>3. send' \in [Send -> SendRecord] /\ Addressed'
    BY <2>1, <2>2, AnswerType, SendType
  <2>4. WithReply(s, reply) \in Transcript
    BY WithReplyType
  <2>5. missed' \in [Thread -> {"no", "yes"}]
    BY <1>17, RememberedType DEF SendAnswered
  <2>6. workspaces' \in [MaybeThread -> Nat] /\ details' \in [Thread -> Nat]
    BY <1>17, RefreshType DEF SendAnswered
  <2>. QED BY <1>17, <1>a, <2>1, <2>2, <2>3, <2>4, <2>5, <2>6 DEF SendAnswered, TypeOK
<1>18. ASSUME NEW s \in Send, SendRefused(s) PROVE TypeOK'
  <2>1. send[s].thread \in Thread
    BY <1>18 DEF SendRefused, TypeOK, Addressed, InProgress
  <2>2. PICK reply \in {"none", "bare"} : send' = [send EXCEPT ![s] = Answer(s, "explaining", reply)]
    BY <1>18 DEF SendRefused
  <2>3. send' \in [Send -> SendRecord] /\ Addressed'
    BY <2>1, <2>2, AnswerType, SendType
  <2>4. missed' \in [Thread -> {"no", "yes"}]
    BY <1>18, RememberedType DEF SendRefused
  <2>5. workspaces' \in [MaybeThread -> Nat] /\ details' \in [Thread -> Nat]
    BY <1>18, RefreshType DEF SendRefused
  <2>. QED BY <1>18, <1>a, <2>1, <2>3, <2>4, <2>5 DEF SendRefused, TypeOK
<1>19. ASSUME NEW s \in Send, SendLost(s) PROVE TypeOK'
  BY <1>19, SettledType DEF SendLost, TypeOK
<1>20. ASSUME NEW s \in Send, Reconciled(s) PROVE TypeOK'
  <2>1. send[s].thread \in Thread
    BY <1>20 DEF Reconciled, TypeOK, Addressed, InProgress
  <2>2. /\ selectedThreadId' \in MaybeThread
        /\ selectedThread' \in Transcript /\ stickyThread' \in MaybeThread
    BY <1>20, <1>a, <2>1, IncomingType, AppliedType, UnstuckType DEF Reconciled, TypeOK
  <2>3. missed' \in [Thread -> {"no", "yes"}]
    BY <1>20, RememberedType DEF Reconciled
  <2>. DEFINE r == [Unused("excusing") EXCEPT !.thread = send[s].thread]
  <2>4. r \in SendRecord /\ r.thread \in Thread
    BY <2>1, <1>a DEF SendRecord, Unused
  <2>5. send' \in [Send -> SendRecord] /\ Addressed'
    <3>1. CASE send' = Settled(s)
      BY <3>1, SettledType
    <3>2. CASE send' = [send EXCEPT ![s] = r]
      BY <2>4, <3>2, SendType
    <3>. QED BY <1>20, <3>1, <3>2 DEF Reconciled
  <2>. QED BY <1>20, <2>2, <2>3, <2>5 DEF Reconciled, TypeOK
<1>21. ASSUME NEW s \in Send, ReconcileFailed(s) PROVE TypeOK'
  <2>1. send' \in [Send -> SendRecord] /\ Addressed'
    BY <1>21, SettledType DEF ReconcileFailed
  <2>2. sending' \in BOOLEAN
    BY <1>21 DEF ReconcileFailed, Busy, TypeOK
  <2>. QED BY <1>21, <2>1, <2>2 DEF ReconcileFailed, TypeOK
<1>22. ASSUME NEW s \in Send, ThreadFound(s) PROVE TypeOK'
  <2>1. send[s].thread \in Thread /\ send[s] \in SendRecord
    BY <1>22 DEF ThreadFound, TypeOK, Addressed, InProgress
  <2>. DEFINE r == [send[s] EXCEPT !.found = TRUE]
  <2>2. r \in SendRecord /\ r.thread \in Thread
    BY <2>1 DEF SendRecord
  <2>3. send' \in [Send -> SendRecord] /\ Addressed'
    BY <1>22, <2>2, SendType DEF ThreadFound
  <2>4. selectedThreadId' \in MaybeThread /\ stickyThread' \in MaybeThread
    BY <1>22, <1>a, <2>1, OrType DEF ThreadFound, TypeOK
  <2>5. missed' \in [Thread -> {"no", "yes"}]
    BY <1>22, RememberedType DEF ThreadFound
  <2>. QED BY <1>22, <2>3, <2>4, <2>5 DEF ThreadFound, TypeOK
<1>23. ASSUME NEW s \in Send, Excused(s) PROVE TypeOK'
  <2>1. send[s].thread \in Thread
    BY <1>23 DEF Excused, TypeOK, Addressed, InProgress
  <2>2. send' \in [Send -> SendRecord] /\ Addressed'
    BY <1>23, SettledType DEF Excused
  <2>3. sending' \in BOOLEAN
    BY <1>23 DEF Excused, Busy, TypeOK
  <2>4. CASE UNCHANGED <<selectedThreadId, selectedThread, stickyThread, missed>>
    BY <1>23, <2>2, <2>3, <2>4 DEF Excused, TypeOK
  <2>5. CASE /\ selectedThreadId' = send[s].thread /\ stickyThread' = send[s].thread
             /\ selectedThread' \in {selectedThread} \cup
                  {WithPrompt(t) : t \in {selectedThread.thread} \cap {send[s].thread}}
             /\ missed' = Remembered(selectedThreadId', selectedThread')
    <3>1. WithPrompt(send[s].thread) \in Transcript
      BY <2>1, <1>a DEF WithPrompt, Transcript, TypeOK
    <3>2. selectedThread' \in Transcript
      BY <2>5, <3>1 DEF TypeOK
    <3>3. missed' \in [Thread -> {"no", "yes"}]
      BY <2>5, RememberedType
    <3>. QED BY <1>23, <1>a, <2>1, <2>2, <2>3, <2>5, <3>2, <3>3 DEF Excused, TypeOK
  <2>. QED BY <1>23, <2>4, <2>5 DEF Excused
<1>24. CASE UNCHANGED vars
  BY <1>24 DEF vars, TypeOK, Addressed
<1>. QED
  BY <1>1, <1>2, <1>3, <1>4, <1>5, <1>6, <1>7, <1>8, <1>9, <1>10, <1>11, <1>12, <1>13, <1>14,
     <1>15, <1>16, <1>17, <1>18, <1>19, <1>20, <1>21, <1>22, <1>23, <1>24
  DEF Next, User, DetailDone, CreateDone, TurnServed, SendDone, ReconcileDone

(* Every reachable state is of its type.                                   *)
THEOREM TypeCorrect == Spec => []TypeOK
<1>1. Init => TypeOK
  <2>. SUFFICES ASSUME Init PROVE TypeOK
    OBVIOUS
  <2>0. History \cup {0} \subseteq Nat
    OBVIOUS
  <2>1. stored \in [Thread -> Nat]
    <3>1. stored \in [Thread -> History \cup {0}]
      BY DEF Init
    <3>. QED BY <2>0, <3>1
  <2>2. Unused("unsent") \in SendRecord /\ Unused("unsent").state \notin InProgress
    BY DEF Unused, SendRecord, MaybeThread, InProgress
  <2>3. send \in [Send -> SendRecord] /\ Addressed
    BY <2>2 DEF Init, Addressed
  <2>4. rendered \in [id : MaybeThread, shown : Transcript, sending : BOOLEAN]
    BY BlankType DEF Init, Now, MaybeThread
  <2>5. listed \subseteq Thread /\ threads \subseteq listed
    BY DEF Init
  <2>6. selectedThreadId \in MaybeThread /\ stickyThread \in MaybeThread /\ sending \in BOOLEAN
    BY DEF Init, MaybeThread
  <2>7. details \in [Thread -> Nat] /\ workspaces \in [MaybeThread -> Nat]
    BY DEF Init
  <2>8. opening \in BOOLEAN /\ acts \in 0 .. MaxActs
    BY DEF Init
  <2>9. /\ creating \in [Thread -> {"no", "asked", "listing", "done"}]
        /\ missed \in [Thread -> {"no", "yes"}]
    BY DEF Init
  <2>10. selectedThread \in Transcript
    BY BlankType DEF Init
  <2>. QED BY <2>1, <2>3, <2>4, <2>5, <2>6, <2>7, <2>8, <2>9, <2>10 DEF TypeOK
<1>. QED BY <1>1, TypeStep, PTL DEF Spec
-----------------------------------------------------------------------------
(* The composer: while it is busy, a message has still to be answered or   *)
(* its refusal to be explained.                                            *)
Waiting == {"asked", "stored", "refused", "explaining", "excusing"}
Busied  == sending => \E s \in Send : send[s].state \in Waiting

LEMMA BusiedStep == TypeOK /\ Busied /\ [Next]_vars => Busied'
<1>. SUFFICES ASSUME TypeOK, Busied, [Next]_vars PROVE Busied'
  OBVIOUS
<1>. USE DEF view, environment, Waiting
<1>a. \A s \in Send : send[s] \in SendRecord
  BY DEF TypeOK
<1>1. CASE UNCHANGED <<sending, send>>
  BY <1>1 DEF Busied
<1>2. ASSUME NEW s \in Send, SendMessage(s) PROVE Busied'
  <2>1. send'[s].state = "asked"
    BY <1>2 DEF SendMessage, TypeOK, Unused
  <2>. QED BY <2>1 DEF Busied
<1>3. ASSUME NEW s \in Send, StoreTurn(s) PROVE Busied'
  <2>1. send'[s].state = "stored"
    BY <1>3, <1>a DEF StoreTurn, TypeOK, SendRecord, AnsweredIn
  <2>. QED BY <2>1 DEF Busied
<1>4. ASSUME NEW s \in Send, RefuseTurn(s) PROVE Busied'
  <2>1. send'[s].state = "refused"
    BY <1>4, <1>a DEF RefuseTurn, TypeOK, SendRecord, AnsweredIn
  <2>. QED BY <2>1 DEF Busied
<1>5. ASSUME NEW s \in Send, SendAnswered(s) \/ SendLost(s) PROVE Busied'
  BY <1>5 DEF SendAnswered, SendLost, Busied
<1>6. ASSUME NEW s \in Send, SendRefused(s) PROVE Busied'
  <2>1. send'[s].state = "explaining"
    BY <1>6, <1>a DEF SendRefused, TypeOK, Answer, SendRecord
  <2>. QED BY <2>1 DEF Busied
<1>7. ASSUME NEW s \in Send, send' = Settled(s), sending' => sending, send[s].state \notin Waiting
      PROVE  Busied'
  <2>. SUFFICES ASSUME sending' PROVE \E x \in Send : send'[x].state \in Waiting
    BY DEF Busied
  <2>1. PICK x \in Send : send[x].state \in Waiting
    BY <1>7 DEF Busied
  <2>2. x # s /\ send'[x] = send[x]
    BY <1>7, <2>1 DEF Settled, TypeOK
  <2>. QED BY <2>1, <2>2
<1>8. ASSUME NEW t \in Thread,
             \/ Focus(t) \/ Select(t) \/ SelectFromIncident(t) \/ CreateThread(t)
             \/ DetailDone(t) \/ CreateDone(t)
      PROVE  UNCHANGED <<sending, send>>
  BY <1>8 DEF Focus, Select, SelectFromIncident, CreateThread, DetailDone, DetailAnswered,
     DetailFailed, CreateDone, ThreadCreated, ThreadNotCreated, NewThreadListed
<1>9. ASSUME NEW t \in MaybeThread, WorkspaceDone(t) PROVE UNCHANGED <<sending, send>>
  BY <1>9 DEF WorkspaceDone
<1>10. ASSUME Render \/ RefreshedFromElsewhere \/ Opened \/ UNCHANGED vars
       PROVE  UNCHANGED <<sending, send>>
  BY <1>10 DEF Render, RefreshedFromElsewhere, Opened, vars
<1>11. ASSUME NEW s \in Send, Reconciled(s) PROVE Busied'
  <2>1. CASE send[s].state = "explaining"
    <3>1. send'[s].state = "excusing"
      BY <1>11, <2>1 DEF Reconciled, TypeOK, Unused
    <3>. QED BY <3>1 DEF Busied
  <2>2. CASE send[s].state = "confirming"
    BY <1>11, <2>2, <1>7 DEF Reconciled
  <2>. QED BY <1>11, <2>1, <2>2 DEF Reconciled
<1>12. ASSUME NEW s \in Send, Excused(s) \/ ReconcileFailed(s) PROVE Busied'
  <2>1. CASE send[s].state \in {"explaining", "excusing"}
    BY <1>12, <2>1 DEF Excused, ReconcileFailed, Busy, Busied
  <2>2. CASE send[s].state = "confirming"
    BY <1>12, <2>2, <1>7 DEF Excused, ReconcileFailed, Busy
  <2>. QED BY <1>12, <2>1, <2>2 DEF Excused, ReconcileFailed
<1>13. ASSUME NEW s \in Send, ThreadFound(s) PROVE Busied'
  <2>1. sending' = sending /\ \A x \in Send : send'[x].state = send[x].state
    BY <1>13, <1>a DEF ThreadFound, TypeOK, SendRecord
  <2>. QED BY <2>1 DEF Busied
<1>. QED
  BY <1>1, <1>2, <1>3, <1>4, <1>5, <1>6, <1>8, <1>9, <1>10, <1>11, <1>12, <1>13
  DEF Next, User, TurnServed, SendDone, ReconcileDone

(* However messages overlap with each other, and whatever is refused or    *)
(* rejected, the composer is free when nothing is in progress.             *)
THEOREM ComposerIsReleased == Spec => []ComposerIsFree
<1>1. Init => Busied
  BY DEF Init, Busied
<1>2. Busied => ComposerIsFree
  BY DEF Busied, ComposerIsFree, Quiet, Waiting
<1>. QED BY <1>1, <1>2, BusiedStep, TypeCorrect, PTL DEF Spec
-----------------------------------------------------------------------------
(* Transcripts: what a step may show.                                      *)
LEMMA TranscriptSteps ==
  ASSUME TypeOK, [Next]_vars
  PROVE  \/ selectedThread' \in {selectedThread, Blank}
         \/ \E t \in Thread : selectedThread' \in {Applied(Incoming(t)), WithPrompt(t)}
         \/ \E s \in Send : SendAnswered(s)
<1>. DEFINE Goal == \/ selectedThread' \in {selectedThread, Blank}
                    \/ \E t \in Thread : selectedThread' \in {Applied(Incoming(t)), WithPrompt(t)}
                    \/ \E s \in Send : SendAnswered(s)
<1>. USE DEF view, environment
<1>1. ASSUME NEW t \in Thread,
             \/ Focus(t) \/ Select(t) \/ SelectFromIncident(t) \/ CreateThread(t)
             \/ DetailDone(t) \/ CreateDone(t)
      PROVE  Goal
  BY <1>1 DEF Focus, Select, SelectFromIncident, CreateThread, DetailDone, DetailAnswered,
     DetailFailed, CreateDone, ThreadCreated, ThreadNotCreated, NewThreadListed
<1>2. ASSUME NEW s \in Send, SendMessage(s) PROVE Goal
  BY <1>2 DEF SendMessage, TypeOK, MaybeThread
<1>3. ASSUME NEW asked \in MaybeThread, NEW last \in MaybeThread, WorkspaceAnswered(asked, last)
      PROVE  Goal
  BY <1>3, WorkspaceEffect
<1>4. CASE Opened
  BY <1>4, <1>3 DEF Opened, MaybeThread
<1>5. ASSUME NEW t \in MaybeThread, WorkspaceDone(t) PROVE Goal
  BY <1>5, <1>3 DEF WorkspaceDone, MaybeThread
<1>6. ASSUME NEW s \in Send, Reconciled(s) PROVE Goal
  <2>1. send[s].thread \in Thread
    BY <1>6 DEF Reconciled, TypeOK, Addressed, InProgress
  <2>. QED BY <1>6, <2>1 DEF Reconciled
<1>7. ASSUME NEW s \in Send,
             \/ StoreTurn(s) \/ RefuseTurn(s) \/ SendRefused(s) \/ SendLost(s)
             \/ ReconcileFailed(s) \/ ThreadFound(s)
      PROVE  Goal
  BY <1>7 DEF StoreTurn, RefuseTurn, SendRefused, SendLost, ReconcileFailed, ThreadFound
<1>9. ASSUME NEW s \in Send, Excused(s) PROVE Goal
  <2>1. send[s].thread \in Thread
    BY <1>9 DEF Excused, TypeOK, Addressed, InProgress
  <2>. QED BY <1>9, <2>1 DEF Excused
<1>8. CASE Render \/ RefreshedFromElsewhere \/ UNCHANGED vars
  BY <1>8 DEF Render, RefreshedFromElsewhere, vars
<1>. QED
  BY <1>1, <1>2, <1>4, <1>5, <1>6, <1>7, <1>8, <1>9
  DEF Next, User, TurnServed, SendDone, ReconcileDone

LEMMA LengthType == ASSUME NEW d \in Transcript PROVE Length(d) \in Nat
BY DEF Length, Transcript

LEMMA AppliedKeeps ==
  ASSUME TypeOK, NEW d \in Transcript, selectedThread.thread = d.thread
  PROVE  Length(Applied(d)) >= Length(selectedThread)
BY LengthType DEF Applied, TypeOK

LEMMA PromptKeeps ==
  ASSUME TypeOK, NEW t \in Thread
  PROVE  /\ WithPrompt(t).thread = t
         /\ selectedThread.thread = t => Length(WithPrompt(t)) >= Length(selectedThread)
BY DEF WithPrompt, TypeOK, Transcript, Length

(* A thread that is not shown has no messages.                             *)
BlankIsEmpty == selectedThread.thread = NoThread => Length(selectedThread) = 0

LEMMA EmptyStep == TypeOK /\ BlankIsEmpty /\ [Next]_vars => BlankIsEmpty'
<1>. SUFFICES ASSUME TypeOK, BlankIsEmpty, [Next]_vars PROVE BlankIsEmpty'
  OBVIOUS
<1>1. CASE selectedThread' \in {selectedThread, Blank}
  BY <1>1 DEF BlankIsEmpty, Length, Blank
<1>2. ASSUME NEW t \in Thread, selectedThread' = Applied(Incoming(t)) PROVE BlankIsEmpty'
  <2>1. selectedThread'.thread = t
    BY <1>2, IncomingType, AppliedType
  <2>. QED BY <2>1 DEF BlankIsEmpty
<1>3. ASSUME NEW t \in Thread, selectedThread' = WithPrompt(t) PROVE BlankIsEmpty'
  BY <1>3, PromptKeeps DEF BlankIsEmpty
<1>4. ASSUME NEW s \in Send, SendAnswered(s) PROVE BlankIsEmpty'
  <2>1. send[s].thread \in Thread /\ \E reply \in {"none", "bare", "turn"} :
                                        selectedThread' = WithReply(s, reply)
    BY <1>4 DEF SendAnswered, TypeOK, Addressed, InProgress
  <2>2. selectedThread' = selectedThread \/ selectedThread'.thread \in Thread
    BY <2>1 DEF WithReply, TypeOK, Transcript
  <2>. QED BY <2>1, <2>2 DEF BlankIsEmpty
<1>. QED BY <1>1, <1>2, <1>3, <1>4, TranscriptSteps

(* No answer, however late, takes messages off the screen.                 *)
THEOREM TranscriptsAreKept == Spec => LoadsKeepTheTranscript
<1>1. Init => BlankIsEmpty
  BY DEF Init, BlankIsEmpty, Blank, Length
<1>2. TypeOK /\ BlankIsEmpty /\ [Next]_vars => [TranscriptNeverShrinks]_vars
  <2>. SUFFICES ASSUME TypeOK, BlankIsEmpty, [Next]_vars,
                       selectedThread'.thread = selectedThread.thread,
                       Length(selectedThread') < Length(selectedThread)
                PROVE  Replies
    BY DEF TranscriptNeverShrinks
  <2>a. Length(selectedThread) \in Nat
    BY LengthType DEF TypeOK
  <2>1. CASE selectedThread' \in {selectedThread, Blank}
    BY <2>1, <2>a DEF BlankIsEmpty, Blank, Length
  <2>2. ASSUME NEW t \in Thread, selectedThread' = Applied(Incoming(t)) PROVE FALSE
    <3>1. Incoming(t) \in Transcript /\ selectedThread'.thread = Incoming(t).thread
      BY <2>2, IncomingType, AppliedType
    <3>2. Length(selectedThread') \in Nat
      BY <2>2, <3>1, AppliedType, LengthType
    <3>. QED BY <2>2, <2>a, <3>1, <3>2, AppliedKeeps
  <2>3. ASSUME NEW t \in Thread, selectedThread' = WithPrompt(t) PROVE FALSE
    <3>1. WithPrompt(t) \in Transcript
      BY DEF WithPrompt, TypeOK, Transcript, MaybeThread
    <3>. QED BY <2>3, <2>a, <3>1, PromptKeeps, LengthType
  <2>4. ASSUME NEW s \in Send, SendAnswered(s) PROVE Replies
    <3>1. selectedThread.thread = send[s].thread
      BY <2>4, <2>a DEF SendAnswered, WithReply
    <3>2. send'[s].state = "confirming" /\ send[s].state = "stored"
      BY <2>4 DEF SendAnswered, TypeOK, SendRecord, Answer
    <3>. QED BY <3>1, <3>2 DEF Replies
  <2>. QED BY <2>1, <2>2, <2>3, <2>4, TranscriptSteps
<1>. QED BY <1>1, <1>2, EmptyStep, TypeCorrect, PTL DEF Spec, LoadsKeepTheTranscript
-----------------------------------------------------------------------------
(* The selected thread.  As long as it is not shown, either its load is in *)
(* flight, or the next render asks for it, or its last answer is known to  *)
(* have been lost.                                                         *)
LoadIsComing ==
  selectedThreadId # NoThread /\ selectedThread.thread # selectedThreadId
      /\ missed[selectedThreadId] = "no"
    => \/ <<selectedThreadId, selectedThread.thread>> # <<rendered.id, rendered.shown.thread>>
       \/ details[selectedThreadId] > 0

(* A render that shows another thread than it selects has a load of it in  *)
(* flight.                                                                 *)
LEMMA RenderingLoads ==
  ASSUME TypeOK, LoadIsComing, NEW id \in Thread, NEW shown \in Transcript, NEW busy,
         Rendering(id, shown, busy), shown.thread # id, missed[id] = "no",
         \/ rendered = Now
         \/ id = selectedThreadId /\ shown = selectedThread
  PROVE  details'[id] > 0
<1>1. details[id] \in Nat /\ id # NoThread
  BY DEF TypeOK
<1>2. CASE <<id, shown.thread>> # <<rendered.id, rendered.shown.thread>>
  <2>1. details' = [details EXCEPT ![id] = @ + 1]
    BY <1>1, <1>2 DEF Rendering, LoadIfNotShown, More
  <2>. QED BY <1>1, <2>1 DEF TypeOK
<1>3. CASE <<id, shown.thread>> = <<rendered.id, rendered.shown.thread>>
  <2>1. id = selectedThreadId /\ shown.thread = selectedThread.thread
    BY <1>3 DEF Now
  <2>2. details[id] > 0
    BY <1>1, <1>3, <2>1 DEF LoadIsComing
  <2>3. details' = details
    BY <1>3 DEF Rendering, LoadIfNotShown
  <2>. QED BY <2>2, <2>3
<1>. QED BY <1>2, <1>3

(* A continuation that remembers what it left is followed by a render that *)
(* asks for the selected thread, or has it noted as unnoticed.             *)
LEMMA RememberedIsComing ==
  ASSUME TypeOK, rendered' = rendered, selectedThreadId' \in MaybeThread,
         missed' = Remembered(selectedThreadId', selectedThread')
  PROVE  LoadIsComing'
BY DEF LoadIsComing, Remembered, MaybeThread

LEMMA RefreshAdds ==
  ASSUME TypeOK, NEW active \in BOOLEAN, RefreshEvent(active), NEW t \in Thread
  PROVE  details[t] > 0 => details'[t] > 0
BY DEF RefreshEvent, More, TypeOK, MaybeThread

LEMMA ComingStep == TypeOK /\ LoadIsComing /\ [Next]_vars => LoadIsComing'
<1>. SUFFICES ASSUME TypeOK, LoadIsComing, [Next]_vars PROVE LoadIsComing'
  OBVIOUS
<1>. USE DEF view, environment
<1>a. /\ selectedThreadId \in MaybeThread /\ selectedThread \in Transcript
      /\ details \in [Thread -> Nat]
  BY DEF TypeOK
<1>1. CASE UNCHANGED <<selectedThreadId, selectedThread, rendered, details, missed>>
  BY <1>1 DEF LoadIsComing
<1>2. CASE Render
  <2>. SUFFICES ASSUME selectedThreadId # NoThread, selectedThread.thread # selectedThreadId,
                       missed[selectedThreadId] = "no"
                PROVE  details'[selectedThreadId] > 0
    BY <1>2 DEF Render, LoadIsComing
  <2>. QED BY <1>2, <1>a, RenderingLoads DEF Render, MaybeThread
<1>3. ASSUME NEW t \in Thread, Focus(t) \/ SelectFromIncident(t) PROVE LoadIsComing'
  <2>1. Rendering(t, Blank, sending) /\ rendered = Now /\ selectedThreadId' = t /\ missed' = missed
    BY <1>3 DEF Focus, SelectFromIncident, UserActs
  <2>2. Blank.thread # t
    BY DEF Blank
  <2>3. missed[t] = "no" => details'[t] > 0
    BY <2>1, <2>2, BlankType, RenderingLoads
  <2>. QED BY <2>1, <2>3 DEF LoadIsComing
<1>4. ASSUME NEW t \in Thread, Select(t) PROVE LoadIsComing'
  <2>1. /\ Rendering(t, selectedThread, sending) /\ rendered = Now
        /\ selectedThreadId' = t /\ missed' = missed /\ selectedThread' = selectedThread
    BY <1>4 DEF Select, UserActs
  <2>2. missed[t] = "no" /\ selectedThread.thread # t => details'[t] > 0
    BY <2>1, <1>a, RenderingLoads
  <2>. QED BY <2>1, <2>2 DEF LoadIsComing
<1>5. ASSUME NEW s \in Send, SendMessage(s) PROVE LoadIsComing'
  <2>1. selectedThread' = WithPrompt(selectedThreadId) /\ selectedThreadId' = selectedThreadId
        /\ selectedThreadId \in Thread
    BY <1>5, <1>a DEF SendMessage, UserActs, Now, MaybeThread
  <2>2. selectedThread'.thread = selectedThreadId'
    BY <2>1, PromptKeeps
  <2>. QED BY <2>2 DEF LoadIsComing
<1>6. CASE RefreshedFromElsewhere
  <2>1. /\ RefreshEvent(TRUE)
        /\ UNCHANGED <<selectedThreadId, selectedThread, rendered, missed>>
    BY <1>6 DEF RefreshedFromElsewhere
  <2>. QED BY <1>a, <2>1, RefreshAdds DEF LoadIsComing, MaybeThread
<1>7. ASSUME NEW t \in Thread, DetailAnswered(t) PROVE LoadIsComing'
  <2>1. CASE missed' = Remembered(selectedThreadId, selectedThread')
    <3>1. rendered' = rendered /\ selectedThreadId' = selectedThreadId
      BY <1>7 DEF DetailAnswered
    <3>. QED BY <1>a, <2>1, <3>1, RememberedIsComing
  <2>2. CASE missed' = [missed EXCEPT ![t] = "yes"] /\ selectedThread' = selectedThread
    <3>1. /\ rendered' = rendered /\ selectedThreadId' = selectedThreadId
          /\ details' = [details EXCEPT ![t] = @ - 1]
      BY <1>7 DEF DetailAnswered, Fewer
    <3>. QED BY <1>a, <2>2, <3>1 DEF LoadIsComing, TypeOK, MaybeThread
  <2>. QED BY <1>7, <2>1, <2>2 DEF DetailAnswered
<1>8. ASSUME NEW t \in Thread, DetailFailed(t) PROVE LoadIsComing'
  <2>1. /\ missed' = [missed EXCEPT ![t] = "yes"] /\ details' = [details EXCEPT ![t] = @ - 1]
        /\ UNCHANGED <<selectedThreadId, selectedThread, rendered>>
    BY <1>8 DEF DetailFailed, Fewer
  <2>. QED BY <1>a, <2>1 DEF LoadIsComing, TypeOK, MaybeThread
<1>9. ASSUME NEW asked \in MaybeThread, NEW last \in MaybeThread,
             WorkspaceAnswered(asked, last), rendered' = rendered
      PROVE  LoadIsComing'
  BY <1>9, WorkspaceEffect, RememberedIsComing DEF MaybeThread
<1>10. CASE Opened
  <2>1. rendered' = rendered /\ details' = details
    BY <1>10 DEF Opened
  <2>2. CASE WorkspaceAnswered(ProjectThread, ProjectThread)
    BY <2>1, <2>2, <1>9
  <2>3. CASE UNCHANGED <<threads, selectedThreadId, selectedThread, stickyThread, missed>>
    BY <2>1, <2>3 DEF LoadIsComing
  <2>. QED BY <1>10, <2>2, <2>3 DEF Opened
<1>11. ASSUME NEW t \in MaybeThread, WorkspaceDone(t) PROVE LoadIsComing'
  <2>1. rendered' = rendered /\ details' = details
    BY <1>11 DEF WorkspaceDone
  <2>2. CASE WorkspaceAnswered(t, NoThread)
    BY <2>1, <2>2, <1>9 DEF MaybeThread
  <2>3. CASE UNCHANGED <<threads, selectedThreadId, selectedThread, stickyThread, missed>>
    BY <2>1, <2>3 DEF LoadIsComing
  <2>. QED BY <1>11, <2>2, <2>3 DEF WorkspaceDone
<1>12. ASSUME NEW t \in Thread, ThreadCreated(t) PROVE LoadIsComing'
  <2>1. PICK active \in BOOLEAN : RefreshEvent(active)
    BY <1>12 DEF ThreadCreated
  <2>2. UNCHANGED <<selectedThreadId, selectedThread, rendered, missed>>
    BY <1>12 DEF ThreadCreated
  <2>. QED BY <1>a, <2>1, <2>2, RefreshAdds DEF LoadIsComing, MaybeThread
<1>13. ASSUME NEW t \in Thread, NewThreadListed(t) PROVE LoadIsComing'
  <2>1. CASE selectedThreadId' = t /\ details' = More(details, t)
    <3>1. details'[t] > 0
      BY <1>a, <2>1 DEF More
    <3>. QED BY <2>1, <3>1 DEF LoadIsComing
  <2>2. CASE UNCHANGED <<threads, selectedThreadId, stickyThread, selectedThread, details>>
    BY <1>13, <2>2 DEF NewThreadListed, LoadIsComing
  <2>. QED BY <1>13, <2>1, <2>2 DEF NewThreadListed
<1>14. ASSUME NEW s \in Send,
              SendAnswered(s) \/ SendRefused(s) \/ Reconciled(s) \/ ThreadFound(s)
       PROVE  LoadIsComing'
  <2>1. /\ rendered' = rendered
        /\ missed' = Remembered(selectedThreadId', selectedThread')
    BY <1>14 DEF SendAnswered, SendRefused, Reconciled, ThreadFound
  <2>2. selectedThreadId' \in MaybeThread
    BY TypeStep DEF TypeOK
  <2>. QED BY <2>1, <2>2, RememberedIsComing
<1>15. ASSUME NEW s \in Send,
              StoreTurn(s) \/ RefuseTurn(s) \/ SendLost(s) \/ ReconcileFailed(s)
       PROVE  LoadIsComing'
  BY <1>15, <1>1 DEF StoreTurn, RefuseTurn, SendLost, ReconcileFailed
<1>16. ASSUME NEW t \in Thread, CreateThread(t) \/ ThreadNotCreated(t) PROVE LoadIsComing'
  BY <1>16, <1>1 DEF CreateThread, ThreadNotCreated
<1>17. ASSUME NEW s \in Send, Excused(s) PROVE LoadIsComing'
  <2>1. CASE UNCHANGED <<selectedThreadId, selectedThread, stickyThread, missed>>
    BY <1>17, <2>1, <1>1 DEF Excused
  <2>2. CASE missed' = Remembered(selectedThreadId', selectedThread')
    <3>1. rendered' = rendered /\ selectedThreadId' \in MaybeThread
      BY <1>17, TypeStep DEF Excused, TypeOK
    <3>. QED BY <2>2, <3>1, RememberedIsComing
  <2>. QED BY <1>17, <2>1, <2>2 DEF Excused
<1>18. CASE UNCHANGED vars
  BY <1>18, <1>1 DEF vars
<1>. QED
  BY <1>2, <1>3, <1>4, <1>5, <1>6, <1>7, <1>8, <1>10, <1>11, <1>12, <1>13, <1>14, <1>15, <1>16,
     <1>17, <1>18
  DEF Next, User, DetailDone, CreateDone, TurnServed, SendDone, ReconcileDone

(* Once everything is answered the selected thread is on screen, unless    *)
(* its last load failed, was dropped or went unnoticed.                    *)
THEOREM SelectionIsShownInTheEnd == Spec => []SettledViewShowsTheSelection
<1>1. Init => LoadIsComing
  BY DEF Init, LoadIsComing
<1>2. TypeOK /\ LoadIsComing => SettledViewShowsTheSelection
  <2>. SUFFICES ASSUME TypeOK, LoadIsComing, Quiet, selectedThreadId # NoThread,
                       missed[selectedThreadId] = "no",
                       selectedThread.thread # selectedThreadId
                PROVE  FALSE
    BY DEF SettledViewShowsTheSelection
  <2>1. <<selectedThreadId, selectedThread.thread>> = <<rendered.id, rendered.shown.thread>>
    BY DEF Quiet, Now
  <2>2. details[selectedThreadId] = 0
    BY DEF Quiet, TypeOK, MaybeThread
  <2>. QED BY <2>1, <2>2 DEF LoadIsComing
<1>. QED BY <1>1, <1>2, ComingStep, TypeCorrect, PTL DEF Spec
=============================================================================
