---------------------------- MODULE GovernedWork ----------------------------
(***************************************************************************)
(* The Work panel of App.tsx: the table of governed work items, and below  *)
(* it the selected item with its plan and its workflow record, which are   *)
(* loaded one after the other; the dialogs whose commands steer, resume,   *)
(* quarantine, roll back or validate an item; and the refresh that the     *)
(* preload bridge has every command followed by.  Below the panel are the  *)
(* live adapter and its children.  Reads are answered in order by the read *)
(* child, from the environment as it loaded it from the state file; every  *)
(* one of them ends in a save of that environment over the file.  Commands *)
(* are carried out in order by the write child; when the adapter takes the *)
(* answer of one that succeeded, it kills the read child and rejects what  *)
(* that was asked.                                                         *)
(*                                                                         *)
(* What a work item says is its revision.  A command changes one item;     *)
(* messages in a conversation, whose turns change items as well, are       *)
(* commands without a dialog.  The workspace is the one of the panel.      *)
(***************************************************************************)
EXTENDS Naturals, FiniteSets, SequencesExt

CONSTANTS
  Item,            \* work items, and the placeholder
  Placeholder,     \* "work-item", the one that an answer without data is taken for
  NoItem,          \* none selected or shown
  First,           \* the first of the table
  Dialog,          \* the dialogs, each with a command of its own
  MaxFaults,       \* commands that fail, are rejected or are not saved, and losses of the read child
  MaxCommands,     \* commands and messages
  MaxInputs        \* these, and clicks in the table

ASSUME ItemAssumption == NoItem \notin Item /\ Placeholder \in Item /\ First \in Item \ {Placeholder}
ASSUME DialogAssumption == Dialog \cap {"none", "message"} = {}
ASSUME BoundAssumption == {MaxFaults, MaxCommands, MaxInputs} \subseteq Nat

VARIABLES
  rev,             \* the revisions of the items in the write child's environment
  file,            \* in the state file
  view,            \* and in the read child's environment
  up,              \* the children that have loaded the state file
  faults,          \* how often something failed
  reads,           \* what the read child is asked
  commands,        \* commands sent and not answered
  results,         \* what the write child answers to a command, once it is carried out
  replies,         \* answers on their way to the renderer
  selected,        \* selectedWorkItemId
  shown,           \* selectedWorkItem, selectedWorkItemPlan and selectedWorkflowRecord
  listed,          \* workItems
  listing,         \* workWorkspaceLoadRef has a load
  loads,           \* workItemDetailLoadRef: the part that is asked for, or "none"
  dialog,          \* the command's dialog that is open; it bears the title of the detail shown
  jobs,            \* commands' handlers
  inputs,          \* how often the user did something
  excuses          \* history: why the panel may not show what is selected, or an old revision

panel == <<selected, shown, listed, listing, loads, dialog, jobs, inputs>>
store == <<rev, file, view, up, faults>>
vars == <<store, reads, commands, results, replies, panel, excuses>>

Part   == {"detail", "plan", "workflow"}
Job    == [phase : {"idle", "sent", "listing", "loading", "over"}, kind : Dialog \cup {"message"},
             item : Item \cup {NoItem}]
Result == [status : {"none", "ok", "error"}, said : [Item -> Nat]]
Excuse == {"rejoined", "strayed", "overtaken", "lost", "unseen", "behind", "outrun"}

NotShown == [item |-> NoItem, rev |-> 0]
NotSent  == [phase |-> "idle", kind |-> "message", item |-> NoItem]
Over     == [NotSent EXCEPT !.phase = "over"]

\* Reads, and their answers: what is asked, the revisions it tells, whether it was answered with
\* data, and if not whether it was answered with an error rather than rejected.
Read(kind, i) == [kind |-> kind, item |-> i]
Answer(read, said, ok, failed) ==
  [kind |-> read.kind, item |-> read.item, said |-> said, ok |-> ok, failed |-> failed]

Told(kinds, items) == [kind : kinds, item : items, said : [Item -> Nat], ok : BOOLEAN, failed : BOOLEAN]

Asked    == [kind : Part, item : Item] \cup {Read("list", NoItem)}
Answered == Told(Part, Item) \cup Told({"list"}, {NoItem}) \cup Told({"command"}, 1..MaxCommands)
-----------------------------------------------------------------------------
\* What the renderer is still to hear of, in order: answers on their way, and answers to come.
Entries(answers) == [k \in DOMAIN answers |-> Read(answers[k].kind, answers[k].item)]
Line == Entries(replies) \o reads

(* Values have their types, and a load is entered as under way as long as  *)
(* a read or an answer of it is, of which there are never two.             *)
TypeOK ==
  /\ rev \in [Item -> Nat] /\ file \in [Item -> Nat] /\ view \in [Item -> Nat]
  /\ up \subseteq {"read", "write"} /\ faults \in 0..MaxFaults /\ results \in [1..MaxCommands -> Result]
  /\ reads \in Seq(Asked) /\ commands \in Seq(1..MaxCommands) /\ replies \in Seq(Answered)
  /\ selected \in Item \cup {NoItem}
  /\ shown \in [Part -> [item : Item \cup {NoItem}, rev : Nat]]
  /\ listed \in [Item -> Nat]
  /\ listing \in BOOLEAN /\ loads \in [Item -> Part \cup {"none"}]
  /\ dialog \in Dialog \cup {"none"}
  /\ jobs \in [1..MaxCommands -> Job]
  /\ inputs \in 0..MaxInputs /\ excuses \subseteq Excuse
  /\ \A p \in Part, i \in Item : loads[i] = p <=> Contains(Line, Read(p, i))
  /\ listing <=> Contains(Line, Read("list", NoItem))
  /\ IsInjective(Line)

(* The panel is opened: its table is asked for.  The children may have     *)
(* been asked something before.                                            *)
Init ==
  /\ rev = [i \in Item |-> 0] /\ file = rev /\ view = rev /\ up \in SUBSET {"read", "write"} /\ faults = 0
  /\ reads = <<Read("list", NoItem)>> /\ commands = <<>> /\ replies = <<>>
  /\ results = [j \in 1..MaxCommands |-> [status |-> "none", said |-> rev]]
  /\ selected = NoItem /\ dialog = "none"
  /\ shown = [p \in Part |-> NotShown] /\ listed = [i \in Item |-> 0]
  /\ listing = TRUE /\ loads = [i \in Item |-> "none"]
  /\ jobs = [j \in 1..MaxCommands |-> NotSent]
  /\ inputs = 0 /\ excuses = {}
-----------------------------------------------------------------------------
(* loadWorkWorkspace and loadWorkItemDetail: a load of the same that is    *)
(* under way is joined.                                                    *)

ListReads == IF listing THEN <<>> ELSE <<Read("list", NoItem)>>

\* Loads that are never joined, for the mutation runs.
AlwaysReload(items) == SetToSeqs({Read("detail", i) : i \in items})

\* What is asked for, in any order.
DetailReads(items) == SetToSeqs({Read("detail", i) : i \in {x \in items : loads[x] = "none"}})

Loading(items) == [i \in Item |-> IF i \in items /\ loads[i] = "none" THEN "detail" ELSE loads[i]]

\* A load that has its detail is joined by one who wants the detail of now.
Overtaken(items) == IF \E i \in items : loads[i] \in {"plan", "workflow"} THEN {"overtaken"} ELSE {}
-----------------------------------------------------------------------------
(* The user.                                                               *)

Waiting(j) == jobs[j].phase \in {"sent", "listing", "loading"}

\* An item selected without being loaded, for the mutation runs.
SelectAlone(i) == {}

\* The effect that follows the selection.
Effect(i) == {i}

Select(i) ==
  /\ dialog = "none" /\ selected \notin {NoItem, i} /\ i # Placeholder /\ inputs < MaxInputs
  /\ inputs' = inputs + 1
  /\ selected' = i
  /\ \E new \in DetailReads(Effect(i)) : reads' = reads \o new
  /\ loads' = Loading(Effect(i))
  /\ excuses' = excuses
       \cup (IF loads[i] # "none" THEN {"rejoined"} ELSE {})
       \cup (IF \E j \in DOMAIN jobs : Waiting(j) /\ jobs[j].kind # "message" THEN {"strayed"} ELSE {})
  /\ UNCHANGED <<store, commands, results, replies, shown, listed, listing, dialog, jobs>>

\* openWorkItemSteerDialog and its like.
OpenDialog(d) ==
  /\ dialog = "none" /\ shown["detail"].item # NoItem
  /\ dialog' = d
  /\ UNCHANGED <<store, reads, commands, results, replies, selected, shown, listed, listing, loads, jobs,
                 inputs, excuses>>

CloseDialog ==
  /\ dialog # "none" /\ dialog' = "none"
  /\ UNCHANGED <<store, reads, commands, results, replies, selected, shown, listed, listing, loads, jobs,
                 inputs, excuses>>

Send(j, kind, i) ==
  /\ jobs[j].phase = "idle" /\ \A k \in 1..(j - 1) : jobs[k].phase # "idle"
  /\ inputs < MaxInputs /\ inputs' = inputs + 1
  /\ jobs' = [jobs EXCEPT ![j] = [phase |-> "sent", kind |-> kind, item |-> i]]
  /\ commands' = Append(commands, j)
  /\ UNCHANGED <<store, reads, results, replies, selected, shown, listed, listing, loads, dialog, excuses>>

\* handleSteerWorkItem and its like.
Confirm(j) == dialog # "none" /\ selected # NoItem /\ Send(j, dialog, selected)

Message(j, i) == i # Placeholder /\ Send(j, "message", i)
-----------------------------------------------------------------------------
(* The children.                                                           *)

\* The read child loads the state file when it is asked for the first time.
LoadReadChild ==
  /\ reads # <<>> /\ "read" \notin up
  /\ view' = file /\ up' = up \cup {"read"}
  /\ UNCHANGED <<rev, file, faults, reads, commands, results, replies, panel, excuses>>

(* A read is served and saved, or is not (the save may fail), before the   *)
(* adapter takes its answer: an image that a command has made old is put   *)
(* back over the one which that command saved.                             *)
SaveReadChild ==
  /\ reads # <<>> /\ "read" \in up
  /\ file' = view
  /\ excuses' = excuses \cup IF view = rev THEN {} ELSE {"behind"}
  /\ UNCHANGED <<rev, view, up, faults, reads, commands, results, replies, panel>>

\* How the write child may do a command: well or not, with or without a change, saved or not.
Course == {c \in [ok : BOOLEAN, changed : BOOLEAN, saved : BOOLEAN] :
             /\ c.ok => c.changed
             /\ (c.ok /\ c.saved) \/ faults < MaxFaults}

(* execute-request: the next command that is not carried out is, on the    *)
(* environment of the write child, which loads the file if it is new.      *)
CarryOut ==
  \E k \in DOMAIN commands, c \in Course :
    LET j   == commands[k]
        env == IF "write" \in up THEN rev ELSE file
    IN /\ results[j].status = "none"
       /\ \A l \in 1..(k - 1) : results[commands[l]].status # "none"
       /\ rev' = IF c.changed THEN [env EXCEPT ![jobs[j].item] = @ + 1] ELSE env
       /\ file' = IF c.saved THEN rev' ELSE file
       /\ up' = up \cup {"write"}
       /\ faults' = IF c.ok /\ c.saved THEN faults ELSE faults + 1
       /\ results' = [results EXCEPT ![j] = [status |-> IF c.ok THEN "ok" ELSE "error", said |-> rev']]
       /\ excuses' = excuses
            \cup (IF file' = rev' THEN {} ELSE {"behind"})
            \cup (IF c.changed /\ ~ c.ok THEN {"unseen"} ELSE {})
            \cup (IF k > 1 THEN {"outrun"} ELSE {})
       /\ UNCHANGED <<view, reads, commands, replies, panel>>
-----------------------------------------------------------------------------
(* The adapter.                                                            *)

AnswerRead ==
  /\ reads # <<>> /\ "read" \in up
  /\ reads' = Tail(reads)
  /\ replies' = Append(replies, Answer(Head(reads), view, TRUE, FALSE))
  /\ UNCHANGED <<store, commands, results, panel, excuses>>

Rejected == [k \in DOMAIN reads |-> Answer(reads[k], view, FALSE, FALSE)]

\* The read child survives a command, for the mutation runs.
ChildKept == up

\* invalidateReadBridge: the next read is answered by a child that loads the state file anew.
Invalidated == up \ {"read"}

Command(j) == Read("command", j)

\* The answer of a command that succeeded is taken.
Perform ==
  /\ commands # <<>>
  /\ LET j == Head(commands)
     IN /\ results[j].status = "ok"
        /\ replies' = replies \o Rejected \o <<Answer(Command(j), results[j].said, TRUE, FALSE)>>
  /\ commands' = Tail(commands) /\ reads' = <<>>
  /\ up' = Invalidated
  /\ UNCHANGED <<rev, file, view, faults, results, panel, excuses>>

\* And of one that did not: it resolves, and the read child lives on.
Fail ==
  /\ commands # <<>>
  /\ LET j == Head(commands)
     IN /\ results[j].status = "error"
        /\ replies' = Append(replies, Answer(Command(j), view, FALSE, TRUE))
  /\ commands' = Tail(commands)
  /\ UNCHANGED <<store, reads, results, panel, excuses>>

(* A command is rejected, because the write child is lost or, once it is   *)
(* carried out, because of what its answer says.  The commands behind it   *)
(* that a lost child was sent may be rejected next.                        *)
Refuse ==
  /\ commands # <<>> /\ faults < MaxFaults /\ faults' = faults + 1
  /\ LET j == Head(commands)
     IN /\ \/ up' = up \ {"write"}
           \/ up' = up /\ results[j].status # "none"
        /\ excuses' = excuses \cup IF results[j].status = "ok" THEN {"unseen"} ELSE {}
        /\ replies' = Append(replies, Answer(Command(j), view, FALSE, FALSE))
  /\ commands' = Tail(commands)
  /\ UNCHANGED <<rev, file, view, reads, results, panel>>

LoseReadChild ==
  /\ reads # <<>> /\ faults < MaxFaults /\ faults' = faults + 1
  /\ replies' = replies \o Rejected
  /\ reads' = <<>> /\ up' = up \ {"read"}
  /\ excuses' = excuses \cup {"lost"}
  /\ UNCHANGED <<rev, file, view, commands, results, panel>>
-----------------------------------------------------------------------------
(* Answers reach the renderer.                                             *)

Reply == Head(replies)
Taken(kind) == replies # <<>> /\ Reply.kind = kind /\ replies' = Tail(replies)

\* A handler forgotten when the table it waits for cannot be read, for the mutation runs.
ResumedIfListed == {j \in DOMAIN jobs : jobs[j].phase = "listing" /\ Reply.ok}

\* Handlers that wait for the table, and go on to load the item they were about.
Resumed == {j \in DOMAIN jobs : jobs[j].phase = "listing"}

\* They go on in the order in which they came to wait.
InTurn(new) ==
  \A a, b \in DOMAIN new : a < b =>
    \E j \in Resumed : jobs[j].item = new[a].item /\ \A k \in Resumed : jobs[k].item = new[b].item => j < k

\* The table: an item is selected if none was, and its effect follows.
ListArrives ==
  /\ Taken("list")
  /\ listing' = FALSE
  /\ listed' = IF Reply.ok THEN Reply.said ELSE listed
  /\ selected' = IF Reply.ok /\ selected = NoItem THEN First ELSE selected
  /\ LET items == {jobs[j].item : j \in Resumed} \cup IF selected' = selected THEN {} ELSE Effect(First)
     IN /\ \E new \in DetailReads(items) : InTurn(new) /\ reads' = reads \o new
        /\ loads' = Loading(items)
        /\ excuses' = excuses \cup Overtaken(items)
  /\ jobs' = [j \in DOMAIN jobs |->
                IF j \in Resumed THEN [jobs[j] EXCEPT !.phase = "loading"] ELSE jobs[j]]
  /\ UNCHANGED <<store, commands, results, shown, dialog, inputs>>

\* What follows part p: the load goes on, or is over and with it whoever waits for it.
Following(p) == CASE p = "detail" -> "plan" [] p = "plan" -> "workflow" [] OTHER -> "none"

Finished(i) == {j \in DOMAIN jobs : jobs[j].phase = "loading" /\ jobs[j].item = i}

\* A part is shown.  A handler that is done closes its own dialog.
PartArrives(p) ==
  /\ Taken(p)
  /\ LET i    == Reply.item
         next == IF Reply.ok THEN Following(p) ELSE "none"
         done == IF next = "none" THEN Finished(i) ELSE {}
     IN /\ shown' = IF Reply.ok THEN [shown EXCEPT ![p] = [item |-> i, rev |-> Reply.said[i]]] ELSE shown
        /\ loads' = [loads EXCEPT ![i] = next]
        /\ reads' = reads \o IF next = "none" THEN <<>> ELSE <<Read(next, i)>>
        /\ jobs' = [j \in DOMAIN jobs |-> IF j \in done THEN Over ELSE jobs[j]]
        /\ dialog' = IF dialog \in {jobs[j].kind : j \in done} THEN "none" ELSE dialog
  /\ UNCHANGED <<store, commands, results, selected, listed, listing, inputs, excuses>>

\* A refresh of the table alone, for the mutation runs.
NoRefresh == {}

\* inferRefreshEventFromChannel and handleRefreshEvent: the selected item is loaded again.
Refreshed == {selected} \ {NoItem}

\* The detail that the handler shows: an answer without data is taken for the placeholder's.
Returned(j) == IF Reply.ok THEN [item |-> jobs[j].item, rev |-> Reply.said[jobs[j].item]]
                           ELSE [item |-> Placeholder, rev |-> 0]

\* invokeCommandWithRefresh, and the handler that goes on behind it, for success and failure alike.
CommandResolves(j) ==
  LET mine == jobs[j].kind # "message"
  IN /\ \E new \in DetailReads(Refreshed) : reads' = reads \o ListReads \o new
     /\ listing' = TRUE
     /\ loads' = Loading(Refreshed)
     /\ excuses' = excuses \cup Overtaken(Refreshed) \cup IF mine /\ ~ Reply.ok THEN {"strayed"} ELSE {}
     /\ shown' = IF mine THEN [shown EXCEPT !["detail"] = Returned(j)] ELSE shown
     /\ jobs' = [jobs EXCEPT ![j] =
                   IF mine THEN [@ EXCEPT !.phase = "listing", !.item = Returned(j).item] ELSE Over]

\* The promise is rejected: the handler says so.
CommandRejects(j) ==
  /\ jobs' = [jobs EXCEPT ![j] = Over]
  /\ UNCHANGED <<reads, listing, loads, excuses, shown>>

CommandEnds ==
  /\ Taken("command")
  /\ IF Reply.ok \/ Reply.failed THEN CommandResolves(Reply.item) ELSE CommandRejects(Reply.item)
  /\ UNCHANGED <<store, commands, results, selected, listed, dialog, inputs>>
-----------------------------------------------------------------------------
Deliver == ListArrives \/ CommandEnds \/ \E p \in Part : PartArrives(p)

Next ==
  \/ \E i \in Item : Select(i)
  \/ CloseDialog \/ \E d \in Dialog : OpenDialog(d)
  \/ \E j \in 1..MaxCommands : Confirm(j) \/ \E i \in Item : Message(j, i)
  \/ LoadReadChild \/ SaveReadChild \/ CarryOut
  \/ AnswerRead \/ Perform \/ Fail \/ Refuse \/ LoseReadChild
  \/ Deliver

Spec == Init /\ [][Next]_vars

FairSpec == Spec /\ WF_vars(LoadReadChild) /\ WF_vars(CarryOut) /\ WF_vars(AnswerRead)
                 /\ WF_vars(Perform \/ Fail) /\ WF_vars(Deliver)
-----------------------------------------------------------------------------
Quiet ==
  /\ reads = <<>> /\ commands = <<>> /\ replies = <<>>
  /\ \A j \in DOMAIN jobs : ~ Waiting(j)

(* When nothing is under way any more, the panel shows the detail, plan    *)
(* and workflow record of the item that is selected: loads of different    *)
(* items that were under way together have not left one's parts among      *)
(* another's.  Excepted are selections of an item whose earlier load was   *)
(* still under way (it is joined, and what another load shows meanwhile    *)
(* stays: "rejoined"), handlers that load an item which is not the one     *)
(* selected, because another was selected while they wait or because their *)
(* command failed and they load the placeholder ("strayed"), and reads     *)
(* that were lost.                                                         *)
PanelShowsTheSelection ==
  Quiet /\ selected # NoItem /\ excuses \cap {"rejoined", "strayed", "lost"} = {} =>
    \A p \in Part : shown[p].item = selected

(* When nothing is under way any more, what the panel shows of the item    *)
(* that is selected, its row of the table, its detail, its plan and its    *)
(* workflow record, is what the environment says of it now, though reads   *)
(* were answered before, or rejected by, the command that changed it.      *)
(* Excepted are refreshes that joined a load which had its detail already  *)
(* ("overtaken"), reads that were lost, changes by commands that failed or *)
(* were rejected, of which the adapter does not kill the read child        *)
(* ("unseen"), and a state file that was behind the environment, because a *)
(* read under way put an older image back or the write child did not save  *)
(* ("behind").                                                             *)
PanelIsFresh ==
  Quiet /\ selected # NoItem /\ excuses \cap {"overtaken", "lost", "unseen", "behind"} = {} =>
    /\ listed[selected] = rev[selected]
    /\ \A p \in Part : shown[p].item = selected => shown[p].rev = rev[selected]

(* As long as the state file is not behind the environment, a part that    *)
(* shows the same item never goes back to an older revision: no answer     *)
(* read before a command is shown after the command's own result, because  *)
(* the command has the read child killed, also if commands failed or were  *)
(* rejected and reads were lost.  Excepted are commands that the write     *)
(* child carried out before the adapter took the answer of the one before  *)
(* ("outrun": a read may tell of them first), and the placeholder.         *)
ShownNeverGoesBack ==
  [][excuses' \cap {"behind", "outrun"} = {} =>
       /\ \A p \in Part : shown'[p].item = shown[p].item /\ shown[p].item # Placeholder =>
            shown'[p].rev >= shown[p].rev
       /\ \A i \in Item : listed'[i] >= listed[i]]_vars

(* A handler whose command was sent ends, though it joins loads of others  *)
(* and reads are rejected under it.                                        *)
HandlersEnd == \A j \in 1..MaxCommands : (jobs[j].phase = "sent") ~> (jobs[j].phase = "over")
=============================================================================
