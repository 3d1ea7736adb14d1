------------------------ MODULE ConversationThreads ------------------------
(***************************************************************************)
(* The selected conversation thread in the renderer                        *)
(* (src/renderer/src/App.tsx): what selects a thread, the loads that       *)
(* follow, the answers that come back in any order and after the user has  *)
(* moved on, and the messages sent meanwhile.                              *)
(*                                                                         *)
(* A handler or a continuation sets state; the render that follows, with   *)
(* its effects, is a step of its own, and what runs before it sees the     *)
(* state of the last render: refs and closures hold "rendered".  A render  *)
(* that a click causes belongs to the click.  A transcript is abstracted   *)
(* to its length, in messages that came from the environment and messages  *)
(* the renderer added.                                                     *)
(***************************************************************************)
EXTENDS Naturals

CONSTANTS
  Thread, NoThread,
  Send,            \* the messages a behaviour may send
  ProjectThread,   \* the thread last selected in the current project, or NoThread
  History,         \* lengths the transcripts may have at first
  MaxActs          \* what the user and the other parts of the desktop may do

MaybeThread == Thread \cup {NoThread}

ASSUME ThreadAssumption == NoThread \notin Thread /\ ProjectThread \in MaybeThread
ASSUME BoundAssumption  == History \subseteq Nat /\ MaxActs \in Nat

VARIABLES
  stored,            \* length of each thread's transcript in the environment
  listed,            \* the threads the environment has
  threads,           \* the threads the renderer knows of
  selectedThreadId,
  selectedThread,    \* the transcript that is shown
  stickyThread,      \* stickyConversationThreadIdRef
  sending,           \* isSendingConversation
  rendered,          \* what the last render saw, selectedThreadIdRef among it
  details,           \* loads of thread details in flight
  workspaces,        \* loads of the conversation workspace in flight, by what they ask for
  opening,           \* the load of the workspace at startup is in flight
  creating,          \* creations of threads in progress
  send,              \* the messages
  acts,              \* bound: how often the user and other parts of the desktop acted
  missed             \* history: threads whose last answer failed, was dropped or unnoticed

view == <<threads, selectedThreadId, selectedThread, stickyThread, sending>>
environment == <<stored, listed>>
vars == <<environment, view, rendered, details, workspaces, opening, creating, send, acts,
          missed>>

Transcript == [thread : MaybeThread, kept : Nat, added : Nat]
Blank      == [thread |-> NoThread, kept |-> 0, added |-> 0]
Length(d)  == d.kept + d.added

SendRecord ==
  [state : {"unsent", "asked", "stored", "refused", "confirming", "explaining", "excusing",
            "settled"},
   thread : MaybeThread,   \* the thread it is sent to, then the one it is answered in
   prior : Nat,            \* messages shown when it was sent
   over  : MaybeThread,    \* the thread shown when it was sent
   base  : Nat,            \* messages stored before it
   found : BOOLEAN,        \* the list of threads need not be read for it, or has been
   reply : {"none", "bare", "turn"}]    \* what the answer says, and whether it names the turn

(* A message that was sent and is not settled is about a thread.           *)
InProgress == {"asked", "stored", "refused", "confirming", "explaining", "excusing"}
Addressed  == \A s \in Send : send[s].state \in InProgress => send[s].thread \in Thread

Unused(state) ==
  [state |-> state, thread |-> NoThread, prior |-> 0, over |-> NoThread, base |-> 0,
   found |-> TRUE, reply |-> "none"]
Settled(s) == [send EXCEPT ![s] = Unused("settled")]

TypeOK ==
  /\ stored \in [Thread -> Nat] /\ listed \subseteq Thread /\ threads \subseteq listed
  /\ selectedThreadId \in MaybeThread /\ stickyThread \in MaybeThread
  /\ selectedThread \in Transcript
  /\ sending \in BOOLEAN
  /\ rendered \in [id : MaybeThread, shown : Transcript, sending : BOOLEAN]
  /\ details \in [Thread -> Nat] /\ workspaces \in [MaybeThread -> Nat]
  /\ opening \in BOOLEAN
  /\ creating \in [Thread -> {"no", "asked", "listing", "done"}]
  /\ send \in [Send -> SendRecord] /\ Addressed
  /\ acts \in 0 .. MaxActs
  /\ missed \in [Thread -> {"no", "yes"}]

Now == [id |-> selectedThreadId, shown |-> selectedThread, sending |-> sending]

(* effectiveEnvironmentId is set: the workspace is asked for.              *)
Init ==
  /\ listed \in SUBSET Thread \ {{}}
  /\ stored \in [Thread -> History \cup {0}]
  /\ \A t \in Thread : IF t \in listed THEN stored[t] \in History ELSE stored[t] = 0
  /\ threads = {} /\ selectedThreadId = NoThread /\ stickyThread = NoThread
  /\ selectedThread = Blank /\ sending = FALSE
  /\ rendered = Now
  /\ details = [t \in Thread |-> 0] /\ workspaces = [t \in MaybeThread |-> 0]
  /\ opening = TRUE
  /\ creating = [t \in Thread |-> "no"]
  /\ send = [s \in Send |-> Unused("unsent")]
  /\ acts = 0
  /\ missed = [t \in Thread |-> "no"]
-----------------------------------------------------------------------------
(* The first of two threads that there is: a ?? b.                         *)
Or(a, b) == IF a = NoThread THEN b ELSE a

More(loads, t) == IF t = NoThread THEN loads ELSE [loads EXCEPT ![t] = @ + 1]
Fewer(loads, t) == [loads EXCEPT ![t] = @ - 1]

(* An effect on the selection alone, for the mutation runs.                *)
LoadIfSelected(id, shown) ==
  IF id # rendered.id /\ shown.thread # id THEN More(details, id) ELSE details

(* The effect on [selectedThreadId, selectedThread?.threadId].             *)
LoadIfNotShown(id, shown) ==
  IF /\ <<id, shown.thread>> # <<rendered.id, rendered.shown.thread>>
     /\ shown.thread # id
  THEN More(details, id) ELSE details

Rendering(id, shown, busy) ==
  /\ rendered' = [id |-> id, shown |-> shown, sending |-> busy]
  /\ details' = LoadIfNotShown(id, shown)

Render ==
  /\ rendered # Now
  /\ Rendering(selectedThreadId, selectedThread, sending)
  /\ UNCHANGED <<environment, view, workspaces, opening, creating, send, missed, acts>>

(* What is known of the last answers when a continuation leaves this       *)
(* selection.  One that takes back what was never rendered is not followed *)
(* by a load: the effect compares with the last render.                    *)
Remembered(id, shown) ==
  [t \in Thread |->
     IF t = shown.thread THEN "no"
     ELSE IF t = id /\ <<t, shown.thread>> = <<rendered.id, rendered.shown.thread>>
          THEN "yes" ELSE missed[t]]

Incoming(t) == [thread |-> t, kept |-> stored[t], added |-> 0]

(* An update that shows whatever came, for the mutation runs.              *)
AppliedAlways(d) == d

(* applyLoadedThreadDetail keeps the longer transcript of a thread ...     *)
Applied(d) ==
  IF selectedThread.thread = d.thread /\ Length(selectedThread) > Length(d)
  THEN selectedThread ELSE d

(* ... and lets go of a sticky thread that has messages.                   *)
Unstuck(sticky, d) == IF sticky = d.thread /\ Length(d) > 0 THEN NoThread ELSE sticky
-----------------------------------------------------------------------------
(* What the user does.  A click comes when the last render is on screen.   *)
UserActs == rendered = Now

Acts == acts < MaxActs /\ acts' = acts + 1

(* focusConversationThread, from the thread table and the dashboard.       *)
Focus(t) ==
  /\ t \in threads /\ UserActs /\ Acts
  /\ stickyThread' = t /\ selectedThreadId' = t /\ selectedThread' = Blank
  /\ Rendering(t, Blank, sending)
  /\ UNCHANGED <<environment, threads, sending, workspaces, opening, creating, send, missed>>

(* The other ways to a thread set its id alone: linked conversations, the  *)
(* action queue, the quick switcher, a transcript entry.                   *)
Select(t) ==
  /\ t \in listed /\ UserActs /\ Acts
  /\ selectedThreadId' = t
  /\ Rendering(t, selectedThread, sending)
  /\ UNCHANGED <<environment, threads, selectedThread, stickyThread, sending, workspaces, opening,
                 creating, send, missed>>

(* A restart suggestion of an incident clears the transcript as well.      *)
SelectFromIncident(t) ==
  /\ t \in listed /\ UserActs /\ Acts
  /\ selectedThreadId' = t /\ selectedThread' = Blank
  /\ Rendering(t, Blank, sending)
  /\ UNCHANGED <<environment, threads, stickyThread, sending, workspaces, opening, creating, send,
                 missed>>

(* applyOptimisticConversationUserMessage.                                 *)
WithPrompt(t) ==
  IF selectedThread.thread = t THEN [selectedThread EXCEPT !.added = @ + 1]
                               ELSE [thread |-> t, kept |-> 0, added |-> 1]

(* handleSendConversationMessage up to its await.  The composer is there   *)
(* when a transcript is shown, and sends to the selected thread.           *)
SendMessage(s) ==
  LET t == rendered.id IN
  /\ send[s].state = "unsent" /\ t # NoThread
  /\ UserActs /\ Acts /\ rendered.shown.thread # NoThread /\ ~ rendered.sending
  /\ send' = [send EXCEPT ![s] = [Unused("asked") EXCEPT !.thread = t,
                                                          !.prior  = Length(rendered.shown),
                                                          !.over   = rendered.shown.thread]]
  /\ sending' = TRUE
  /\ selectedThread' = WithPrompt(t)
  /\ Rendering(t, selectedThread', TRUE)
  /\ UNCHANGED <<environment, threads, selectedThreadId, stickyThread, workspaces, opening, creating,
                 missed>>

CreateThread(t) ==
  /\ t \notin listed /\ creating[t] = "no" /\ UserActs /\ Acts
  /\ creating' = [creating EXCEPT ![t] = "asked"]
  /\ UNCHANGED <<environment, view, rendered, details, workspaces, opening, send, missed>>
-----------------------------------------------------------------------------
(* A command of the conversation, when it succeeds or is refused, makes    *)
(* the preload emit a refresh event before the caller continues.  The      *)
(* handler acts on it if the conversations are the active workspace.       *)
RefreshEvent(active) ==
  /\ workspaces' = IF active THEN [workspaces EXCEPT ![Or(stickyThread, rendered.id)] = @ + 1]
                             ELSE workspaces
  /\ details' = IF active THEN More(details, rendered.id) ELSE details

(* A command of another part of the desktop, a work item's or an approval's*)
RefreshedFromElsewhere ==
  /\ Acts
  /\ RefreshEvent(TRUE)
  /\ UNCHANGED <<environment, view, rendered, opening, creating, send, missed>>

(* loadThreadDetail after its await: an answer about another thread than   *)
(* the active one is dropped.                                              *)
Active == Or(stickyThread, Or(rendered.id, ProjectThread))
StillActive(t) == Active \in {t, NoThread}

DetailAnswered(t) ==
  /\ details[t] > 0
  /\ details' = Fewer(details, t)
  /\ \/ /\ StillActive(t)
        /\ selectedThread' = Applied(Incoming(t))
        /\ stickyThread' = Unstuck(stickyThread, Incoming(t))
        /\ missed' = Remembered(selectedThreadId, selectedThread')
     \/ /\ ~ StillActive(t)
        /\ missed' = [missed EXCEPT ![t] = "yes"]
        /\ UNCHANGED <<selectedThread, stickyThread>>
  /\ UNCHANGED <<environment, threads, selectedThreadId, sending, rendered, workspaces, opening,
                 creating, send, acts>>

DetailFailed(t) ==
  /\ details[t] > 0
  /\ details' = Fewer(details, t)
  /\ missed' = [missed EXCEPT ![t] = "yes"]
  /\ UNCHANGED <<environment, view, rendered, workspaces, opening, creating, send, acts>>

(* applyConversationThreadList: the thread it selects.                     *)
Preferred(last) == Or(stickyThread, Or(rendered.id, last))
NextThreads(last) ==
  IF Preferred(last) \in listed THEN {Preferred(last)}
  ELSE IF stickyThread # NoThread THEN {stickyThread}
  ELSE listed                \* the head of a list in the environment's order

StuckTo(next, preferred) ==
  IF stickyThread = NoThread /\ next = preferred THEN next ELSE stickyThread

(* loadConversationWorkspace after its await.  Its closure is one of the   *)
(* first renders, with nothing shown.  The environment chooses a thread    *)
(* for a question that names none, or none that it has.                    *)
WorkspaceAnswered(asked, last) ==
  \E next \in NextThreads(last),
     about \in (IF asked \in listed THEN {asked} ELSE listed \cup {NoThread}) :
    LET sticky == StuckTo(next, Preferred(last)) IN
    /\ threads' = listed /\ selectedThreadId' = next
    /\ selectedThread' = IF about = next THEN Applied(Incoming(next)) ELSE Blank
    /\ stickyThread' = IF about = next THEN Unstuck(sticky, Incoming(next)) ELSE sticky
    /\ missed' = Remembered(next, selectedThread')

Opened ==
  /\ opening /\ opening' = FALSE
  /\ \/ WorkspaceAnswered(ProjectThread, ProjectThread)
     \/ UNCHANGED <<threads, selectedThreadId, selectedThread, stickyThread, missed>>   \* it failed
  /\ UNCHANGED <<environment, sending, rendered, details, workspaces, creating, send, acts>>

WorkspaceDone(asked) ==
  /\ workspaces[asked] > 0
  /\ workspaces' = Fewer(workspaces, asked)
  /\ \/ WorkspaceAnswered(asked, NoThread)
     \/ UNCHANGED <<threads, selectedThreadId, selectedThread, stickyThread, missed>>
  /\ UNCHANGED <<environment, sending, rendered, details, opening, creating, send, acts>>
-----------------------------------------------------------------------------
(* handleCreateConversationSession.                                        *)
ThreadCreated(t) ==
  /\ creating[t] = "asked"
  /\ listed' = listed \cup {t}
  /\ creating' = [creating EXCEPT ![t] = "listing"]
  /\ \E active \in BOOLEAN : RefreshEvent(active)
  /\ UNCHANGED <<stored, view, rendered, opening, send, missed, acts>>

ThreadNotCreated(t) ==
  /\ creating[t] = "asked"
  /\ creating' = [creating EXCEPT ![t] = "no"]
  /\ UNCHANGED <<environment, view, rendered, details, workspaces, opening, send, missed,
                 acts>>

(* The list is refreshed for the new thread, then it is focused and loaded.*)
NewThreadListed(t) ==
  /\ creating[t] = "listing"
  /\ creating' = [creating EXCEPT ![t] = "done"]
  /\ \/ /\ threads' = listed
        /\ selectedThreadId' = t /\ stickyThread' = t /\ selectedThread' = Blank
        /\ details' = More(details, t)
     \/ UNCHANGED <<threads, selectedThreadId, stickyThread, selectedThread, details>>  \* it failed
  /\ UNCHANGED <<environment, sending, rendered, workspaces, opening, send, missed, acts>>
-----------------------------------------------------------------------------
(* The environment's side of a message: it stores the turn, or refuses     *)
(* with or without the user's message in the transcript.  It answers in    *)
(* the thread of the message or in another one it has.                     *)
AnsweredIn(s, t, state) ==
  [send[s] EXCEPT !.state = state, !.thread = t, !.found = (t = send[s].thread)]

StoreTurn(s) ==
  /\ send[s].state = "asked"
  /\ \E t \in listed \cup {send[s].thread} :
       /\ stored' = [stored EXCEPT ![t] = @ + 2]
       /\ send' = [send EXCEPT ![s] = [AnsweredIn(s, t, "stored") EXCEPT !.base = stored[t]]]
  /\ UNCHANGED <<listed, view, rendered, details, workspaces, opening, creating, missed,
                 acts>>

RefuseTurn(s) ==
  /\ send[s].state = "asked"
  /\ \E t \in listed \cup {send[s].thread}, n \in {0, 1} :
       /\ stored' = [stored EXCEPT ![t] = @ + n]
       /\ send' = [send EXCEPT ![s] = AnsweredIn(s, t, "refused")]
  /\ UNCHANGED <<listed, view, rendered, details, workspaces, opening, creating, missed,
                 acts>>

(* applyOptimisticConversationSendSuccess: the reply, if there is one,     *)
(* replaces what is shown of the turn that the answer names.  A reply that *)
(* counts on the turn being shown is for the mutation runs.                *)
WithReplyToTurn(s, reply) ==
  IF selectedThread.thread # send[s].thread \/ reply = "none" THEN selectedThread
  ELSE [selectedThread EXCEPT !.kept = @ - (IF reply = "turn" THEN 2 ELSE 0), !.added = @ + 1]
WithReply(s, reply) ==
  IF selectedThread.thread # send[s].thread \/ reply = "none" THEN selectedThread
  ELSE LET replaced == IF reply = "turn" /\ selectedThread.kept >= send[s].base + 2 THEN 2 ELSE 0
       IN [selectedThread EXCEPT !.kept = @ - replaced, !.added = @ + 1]

(* What the handler still asks of the answer, by what the answer says.     *)
Answer(s, state, reply) ==
  [send[s] EXCEPT !.state = state, !.reply = reply, !.base = 0,
                  !.prior = IF reply = "turn" THEN @ ELSE 0,
                  !.over  = IF reply = "none" THEN NoThread ELSE @]

(* The answer, then reconcileConversationSendResult up to its await, which *)
(* selects the thread the answer names.  An answer that leaves an approval *)
(* pending makes the thread sticky.                                        *)
SendAnswered(s) ==
  /\ send[s].state = "stored"
  /\ \E reply \in {"none", "bare", "turn"} :
       /\ send' = [send EXCEPT ![s] = Answer(s, "confirming", reply)]
       /\ selectedThread' = WithReply(s, reply)
  /\ sending' = FALSE
  /\ selectedThreadId' = send[s].thread
  /\ stickyThread' \in {stickyThread, send[s].thread}
  /\ missed' = Remembered(selectedThreadId', selectedThread')
  /\ \E active \in BOOLEAN : RefreshEvent(active)
  /\ UNCHANGED <<environment, threads, rendered, opening, creating, acts>>

(* A refusal may say something too, of a turn the environment has no       *)
(* answer to.                                                              *)
SendRefused(s) ==
  /\ send[s].state = "refused"
  /\ \E reply \in {"none", "bare"} :
       send' = [send EXCEPT ![s] = Answer(s, "explaining", reply)]
  /\ selectedThreadId' = send[s].thread
  /\ missed' = Remembered(selectedThreadId', selectedThread)
  /\ \E active \in BOOLEAN : RefreshEvent(active)
  /\ UNCHANGED <<environment, threads, selectedThread, stickyThread, sending, rendered, opening,
                 creating, acts>>

(* The bridge rejects the call, before or after it was served.             *)
SendLost(s) ==
  /\ send[s].state \in {"asked", "stored", "refused"}
  /\ send' = Settled(s)
  /\ sending' = FALSE
  /\ UNCHANGED <<environment, threads, selectedThreadId, selectedThread, stickyThread, rendered,
                 details, workspaces, opening, creating, missed, acts>>

(* The composer stays busy until a refusal is explained; without that, for *)
(* the mutation runs, it stays busy after it.                              *)
BusyAnyway(s) == sending
Busy(s) == sending /\ send[s].state \notin {"explaining", "excusing"}

(* reconcileConversationSendResult reads the list of threads first when    *)
(* the answer names another thread than the message was sent to.           *)
ThreadFound(s) ==
  /\ send[s].state \in {"confirming", "explaining"} /\ ~ send[s].found
  /\ send' = [send EXCEPT ![s].found = TRUE]
  /\ threads' = listed /\ selectedThreadId' = send[s].thread
  /\ stickyThread' = Or(stickyThread, send[s].thread)
  /\ missed' = Remembered(selectedThreadId', selectedThread)
  /\ UNCHANGED <<environment, selectedThread, sending, rendered, details, workspaces, opening,
                 creating, acts>>

(* The rest of reconcileConversationSendResult.  Up to four more questions *)
(* are asked while the transcript is too short; the last answer counts.  A *)
(* reply is looked for in the transcript, by the turn the answer names; an *)
(* answer that says nothing is content with any transcript.                *)
Complete(s) ==
  \/ send[s].reply = "none"
  \/ send[s].reply = "turn" /\ stored[send[s].thread] >= send[s].prior + 2

Reconciled(s) ==
  LET d == Incoming(send[s].thread)
      applies == Complete(s) \/ send[s].over # send[s].thread
  IN
  /\ send[s].state \in {"confirming", "explaining"} /\ send[s].found
  /\ send' = IF send[s].state = "confirming" THEN Settled(s)
             ELSE [send EXCEPT ![s] = [Unused("excusing") EXCEPT !.thread = send[s].thread]]
  /\ selectedThreadId' = IF Complete(s) THEN selectedThreadId ELSE d.thread
  /\ selectedThread' = IF applies THEN Applied(d) ELSE selectedThread
  /\ stickyThread' = IF applies THEN Unstuck(stickyThread, d) ELSE stickyThread
  /\ missed' = Remembered(selectedThreadId', selectedThread')
  /\ UNCHANGED <<environment, threads, sending, rendered, details, workspaces, opening, creating,
                 acts>>

(* What a refusal waits for is asked last, and when it waits for approval, *)
(* applyApprovalRequiredConversationState says so in its thread.           *)
Excused(s) ==
  /\ send[s].state = "excusing"
  /\ send' = Settled(s)
  /\ sending' = Busy(s)
  /\ \/ UNCHANGED <<selectedThreadId, selectedThread, stickyThread, missed>>
     \/ /\ selectedThreadId' = send[s].thread /\ stickyThread' = send[s].thread
        /\ selectedThread' \in {selectedThread} \cup
             {WithPrompt(t) : t \in {selectedThread.thread} \cap {send[s].thread}}
        /\ missed' = Remembered(selectedThreadId', selectedThread')
  /\ UNCHANGED <<environment, threads, rendered, details, workspaces, opening, creating, acts>>

(* Any question of these may fail.                                         *)
ReconcileFailed(s) ==
  /\ send[s].state \in {"confirming", "explaining", "excusing"}
  /\ send' = Settled(s)
  /\ sending' = Busy(s)
  /\ UNCHANGED <<environment, threads, selectedThreadId, selectedThread, stickyThread, rendered,
                 details, workspaces, opening, creating, missed, acts>>
-----------------------------------------------------------------------------
User == \/ \E t \in Thread : Focus(t) \/ Select(t) \/ SelectFromIncident(t) \/ CreateThread(t)
        \/ \E s \in Send : SendMessage(s)

DetailDone(t)   == DetailAnswered(t) \/ DetailFailed(t)
CreateDone(t)   == ThreadCreated(t) \/ ThreadNotCreated(t) \/ NewThreadListed(t)
TurnServed(s)   == StoreTurn(s) \/ RefuseTurn(s)
SendDone(s)     == SendAnswered(s) \/ SendRefused(s) \/ SendLost(s)
ReconcileDone(s) == ThreadFound(s) \/ Reconciled(s) \/ Excused(s) \/ ReconcileFailed(s)

Next ==
  \/ User \/ Render \/ RefreshedFromElsewhere \/ Opened
  \/ \E t \in Thread : DetailDone(t) \/ CreateDone(t)
  \/ \E t \in MaybeThread : WorkspaceDone(t)
  \/ \E s \in Send : TurnServed(s) \/ SendDone(s) \/ ReconcileDone(s)

Spec == Init /\ [][Next]_vars
-----------------------------------------------------------------------------
Quiet ==
  /\ rendered = Now /\ ~ opening
  /\ \A t \in Thread : details[t] = 0 /\ creating[t] \in {"no", "done"}
  /\ \A t \in MaybeThread : workspaces[t] = 0
  /\ \A s \in Send : send[s].state \in {"unsent", "settled"}

(* Whatever overlapped, once everything has been answered the selected     *)
(* thread is the one on screen, unless its last load failed or was dropped:*)
(* a late answer about another thread is dropped or followed by a reload.  *)
SettledViewShowsTheSelection ==
  Quiet /\ selectedThreadId # NoThread /\ missed[selectedThreadId] = "no"
    => selectedThread.thread = selectedThreadId

(* An answer older than what is shown never takes messages off the screen: *)
(* a transcript shrinks only when the reply to a message of that thread    *)
(* replaces what was already loaded of its turn.                           *)
Replies == \E s \in Send : send[s].state = "stored" /\ send'[s].state = "confirming"
                             /\ send[s].thread = selectedThread.thread
TranscriptNeverShrinks ==
  selectedThread'.thread = selectedThread.thread /\ Length(selectedThread') < Length(selectedThread)
    => Replies
LoadsKeepTheTranscript == [][TranscriptNeverShrinks]_vars

(* The composer does not stay busy: when every message is settled another  *)
(* can be sent, whichever call was rejected or superseded.                 *)
ComposerIsFree == Quiet => ~ sending

(* docs/conversations.md:89, "If the thread changes, treat that as a bug": *)
(* after startup a selection that is on screen changes only by what the    *)
(* user does, as long as messages are answered where they were sent.       *)
OnScreen == ~ opening /\ rendered.id = selectedThreadId /\ selectedThreadId # NoThread
UserChoice == User \/ \E t \in Thread : NewThreadListed(t)
AnsweredAtHome == \A s \in Send : send[s].found
SelectionIsTheUsers ==
  [][OnScreen /\ AnsweredAtHome /\ selectedThreadId' # selectedThreadId => UserChoice]_vars
=============================================================================
