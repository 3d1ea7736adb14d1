---------------------------- MODULE ShellSession ----------------------------
(***************************************************************************)
(* A session of the shell: src/renderer/src/App.tsx from the startup       *)
(* chooser to the exit dialog, with the window of src/main/index.ts        *)
(* and the service behind it.  One text stands for everything that is      *)
(* persisted with a delay (conversationDraft, the editor buffers, the      *)
(* workspace drafts): it is on the screen, in the adapter's copy of the    *)
(* preferences, in the environment and in every saved image, and the       *)
(* question is which of the four agree.                                    *)
(*                                                                         *)
(* The handlers of the chooser and of the exit dialog are asynchronous and *)
(* may overlap: their buttons stay live while another handler is waiting.  *)
(* The service is taken as one process that serves writes in order; what   *)
(* its two children make of it is the subject of BridgeStore.              *)
(***************************************************************************)
EXTENDS Naturals, SequencesExt

CONSTANTS
  Draft,           \* texts
  Default,         \* the text of a shell that has no preferences
  Same,            \* a write of preferences that leaves the text alone
  Name,            \* names of images
  NoName,          \* no current image
  Absent,          \* an image that does not exist
  Saved,           \* the images saved before the launch
  Faults,          \* "lost": a child dies.  "error": the service answers with an error
  MaxJobs,         \* handlers started
  MaxEdits,        \* edits
  MaxReloads       \* uses of View > Reload

ASSUME DraftAssumption == Default \in Draft /\ Same \notin Draft /\ Absent \notin Draft
ASSUME NameAssumption == NoName \notin Name /\ Saved \subseteq Name
ASSUME FaultAssumption == Faults \subseteq {"lost", "error"}
ASSUME BoundAssumption == MaxJobs \in Nat /\ MaxEdits \in Nat /\ MaxReloads \in Nat

VARIABLES
  window,          \* mainWindow: open or closed
  view,            \* what the renderer shows
  exitDialog,      \* isEnvironmentExitDialogOpen
  jobs,            \* handlers, in the order they were started
  draft,           \* the text on the screen
  timer,           \* desktopPreferencesPersistTimeoutRef is armed
  hydrated,        \* desktopPreferencesHydratedRef
  known,           \* environmentImageRegistry.currentImageName
  copy,            \* the text in the adapter's preferences
  chain,           \* writes of preferences that wait for each other, the one on its way first
  wire,            \* requests on the write route, in the order they were sent
  env,             \* the text in the environment
  images,          \* the text in each image
  current,         \* the image the environment belongs to
  astray,          \* history: a write of preferences was rejected, or outlived its renderer
  edits, reloads   \* how many there were

renderer == <<view, exitDialog, draft, timer, hydrated, known>>
adapter  == <<copy, chain, astray>>
service  == <<env, images, current>>
counters == <<edits, reloads>>
vars == <<window, renderer, jobs, adapter, wire, service, counters>>

Startup == {"open", "create"}
Exit    == {"discard", "saveCurrent", "saveAsNew"}
Saving  == {"saveCurrent", "saveAsNew"}

Ended == {"done", "failed", "dropped"}

Job == [kind  : Startup \cup Exit,
        phase : {"load", "flush", "save", "revert", "read", "bootstrap", "registry", "quit"}
                  \cup Ended,
        name  : Name \cup {NoName},
        seen  : SUBSET Draft,        \* what was on the screen since a save was started
        clean : BOOLEAN,             \* the service answered every request with "ok"
        alone : BOOLEAN]             \* no other handler ran while this one did

\* The owner of a request is the handler that waits for it, 0 if none does.
Write   == [draft : Draft \cup {Same}, owner : 0..MaxJobs]
Request == [kind : {"set", "save", "revert", "load"}, draft : Draft, name : Name \cup {NoName},
            overwrite : BOOLEAN, owner : 0..MaxJobs, answer : {"none", "ok", "error"}]

TypeOK ==
  /\ window \in {"open", "closed"}
  /\ view \in {"loading", "stuck", "chooser", "create", "shell"}
  /\ exitDialog \in BOOLEAN
  /\ jobs \in Seq(Job) /\ Len(jobs) <= MaxJobs
  /\ draft \in Draft /\ timer \in BOOLEAN /\ hydrated \in BOOLEAN
  /\ known \in Name \cup {NoName}
  /\ copy \in Draft /\ chain \in Seq(Write) /\ astray \in BOOLEAN
  /\ wire \in Seq(Request)
  /\ env \in Draft /\ images \in [Name -> Draft \cup {Absent}] /\ current \in Name \cup {NoName}
  /\ edits \in 0..MaxEdits /\ reloads \in 0..MaxReloads

(* What a renderer starts with, at launch and after a reload.              *)
Mounted ==
  /\ view = "loading" /\ exitDialog = FALSE
  /\ draft = Default /\ timer = FALSE /\ hydrated = FALSE /\ known = NoName

Init ==
  /\ window = "open"
  /\ Mounted
  /\ jobs = <<>>
  /\ copy = Default /\ chain = <<>> /\ wire = <<>> /\ astray = FALSE
  /\ env \in Draft
  /\ images \in [Name -> Draft \cup {Absent}]
  /\ \A n \in Name : images[n] = Absent <=> n \notin Saved
  /\ current \in Saved \cup {NoName}
  /\ edits = 0 /\ reloads = 0
-----------------------------------------------------------------------------
(* Handlers.                                                               *)

Active(i) == i \in DOMAIN jobs /\ jobs[i].phase \notin Ended
In(i, phase) == i \in DOMAIN jobs /\ jobs[i].phase = phase

To(js, S, phase) ==
  [i \in DOMAIN js |-> IF i \in S THEN [js[i] EXCEPT !.phase = phase] ELSE js[i]]

\* A text comes onto the screen.
See(js, d) ==
  [i \in DOMAIN js |-> IF js[i].kind \notin Saving \/ js[i].phase \in Ended THEN js[i]
                       ELSE [js[i] EXCEPT !.seen = @ \cup {d}]]

Busy == \E i \in DOMAIN jobs : Active(i)

Started(kind, phase, name) ==
  Append([i \in DOMAIN jobs |-> IF Active(i) THEN [jobs[i] EXCEPT !.alone = FALSE] ELSE jobs[i]],
         [kind |-> kind, phase |-> phase, name |-> name, clean |-> TRUE,
          seen |-> IF kind \in Saving THEN {draft} ELSE {}, alone |-> ~ Busy])

CanStart == window = "open" /\ Len(jobs) < MaxJobs
Me == Len(jobs) + 1
-----------------------------------------------------------------------------
(* The adapter: setDesktopPreferences and the write route.                 *)

Entry(kind, d, n, overwrite, owner) ==
  [kind |-> kind, draft |-> d, name |-> n, overwrite |-> overwrite, owner |-> owner, answer |-> "none"]

SaveOf(js, i) == Entry("save", Default, js[i].name, js[i].kind = "saveCurrent", i)

\* The handlers go on to save, in any order: there is never more than one of them.
SavesOf(js, ready) == LET q == SetToSeq(ready) IN [k \in DOMAIN q |-> SaveOf(js, q[k])]

\* A flag that is never raised, for the mutation runs.
LoadingUnnoticed(w) == FALSE

\* bindingTransitionInFlight: a load is on its way.
Loading(w) == \E k \in DOMAIN w : w[k].kind = "load"

\* A write sent without what it is merged into, for the mutation runs.
TextAlone(text, ch) == ch[Len(ch)].draft

\* The text of the last write that has one.
LastText(text, ch) ==
  LET texts == {k \in DOMAIN ch : ch[k].draft # Same}
  IN IF texts = {} THEN text ELSE ch[CHOOSE k \in texts : \A l \in texts : l <= k].draft

Owners(ch) == {ch[k].owner : k \in DOMAIN ch} \ {0}

(* The write that is now first in the chain is sent, with the whole of the *)
(* adapter's copy; while a load is on its way, the chain ends in the       *)
(* adapter.  The handlers whose write is done go on to save.               *)
Proceed(ch, w, text, answered, js) ==
  LET local == Loading(w)
      ready == answered \cup IF local THEN Owners(ch) ELSE {}
      sent  == IF local \/ ch = <<>> THEN <<>>
               ELSE <<Entry("set", LastText(text, <<Head(ch)>>), NoName, FALSE, Head(ch).owner)>>
  IN /\ chain' = IF local THEN <<>> ELSE ch
     /\ copy' = IF local THEN LastText(text, ch) ELSE text
     /\ wire' = w \o sent \o SavesOf(js, ready)
     /\ jobs' = To(js, ready, "save")

\* A write joins the chain, and is sent if it is alone.
Persist(d, owner, js) ==
  LET w == [draft |-> d, owner |-> owner]
  IN IF chain = <<>>
     THEN Proceed(<<w>>, wire, copy, {}, js)
     ELSE chain' = Append(chain, w) /\ jobs' = js /\ UNCHANGED <<copy, wire>>

\* Handlers left waiting, for the mutation runs.
LostSilently(w) == {}

(* The requests on the wire are rejected: the handlers that wait for them  *)
(* report an error, and the write behind the one that was lost is sent.    *)
Lost(w) == {w[k].owner : k \in DOMAIN w} \ {0}

Reject(w, js) ==
  /\ Proceed(IF chain = <<>> THEN chain ELSE Tail(chain), <<>>, copy, {}, To(js, Lost(w), "failed"))
  /\ astray' = (astray \/ \E k \in DOMAIN w : w[k].kind = "set")
-----------------------------------------------------------------------------
(* Startup.                                                                *)

\* The effect that runs at mount: the chooser, unless the registry cannot be read.
ShowChooser ==
  /\ window = "open" /\ view = "loading"
  /\ \/ view' = "chooser" /\ known' = current
     \/ "lost" \in Faults /\ view' = "stuck" /\ UNCHANGED known
  /\ UNCHANGED <<window, exitDialog, draft, timer, hydrated, jobs, adapter, wire, service, counters>>

Pending(kind) == \E i \in DOMAIN jobs : Active(i) /\ jobs[i].kind = kind

\* handleOpenEnvironmentImage, whose buttons are disabled while an image is being opened.
OpenImage(n) ==
  /\ CanStart /\ view = "chooser" /\ ~ Pending("open") /\ images[n] # Absent
  /\ jobs' = Started("open", "load", n)
  /\ wire' = Append(wire, Entry("load", Default, n, FALSE, Me))
  /\ UNCHANGED <<window, view, exitDialog, draft, timer, hydrated, known, adapter, service, counters>>

OpenCreateDialog ==
  /\ window = "open" /\ view = "chooser" /\ ~ Pending("open")
  /\ view' = "create"
  /\ UNCHANGED <<window, exitDialog, draft, timer, hydrated, known, jobs, adapter,
                 wire, service, counters>>

\* Not disabled while the image is being created.
BackToImages ==
  /\ window = "open" /\ view = "create"
  /\ view' = "chooser"
  /\ UNCHANGED <<window, exitDialog, draft, timer, hydrated, known, jobs, adapter,
                 wire, service, counters>>

\* handleSaveAsNewStartupEnvironmentImage.
CreateImage(n) ==
  /\ CanStart /\ view = "create" /\ ~ Pending("create")
  /\ jobs' = Started("create", "save", n)
  /\ wire' = Append(wire, Entry("save", Default, n, FALSE, Me))
  /\ UNCHANGED <<window, view, exitDialog, draft, timer, hydrated, known, adapter, service, counters>>

(* loadInitialState: its first await, its second, and what its catch       *)
(* makes of a failure of either.                                           *)
ReadPreferences(i) ==
  /\ window = "open" /\ In(i, "read")
  /\ draft' = env /\ copy' = env /\ timer' = FALSE
  /\ jobs' = To(See(jobs, env), {i}, "bootstrap")
  /\ UNCHANGED <<window, view, exitDialog, hydrated, known, chain, astray, wire,
                 service, counters>>

\* persistResolvedShellLayout writes the layout, and no text.
Bootstrap(i) ==
  /\ window = "open" /\ In(i, "bootstrap")
  /\ hydrated' = TRUE /\ view' = "shell" /\ known' = current
  /\ Persist(Same, 0, To(jobs, {i}, "done"))
  /\ UNCHANGED <<window, exitDialog, draft, timer, astray, service, counters>>

\* The preferences or the bootstrap are lost, and swallowed; or the registry, which is not.
ReadFails(i) ==
  /\ window = "open" /\ (In(i, "read") \/ In(i, "bootstrap"))
  /\ "lost" \in Faults
  /\ \/ view' = "shell" /\ known' = current /\ jobs' = To(jobs, {i}, "done")
     \/ UNCHANGED <<view, known>> /\ jobs' = To(jobs, {i}, "failed")
  /\ UNCHANGED <<window, exitDialog, draft, timer, hydrated, adapter, wire, service, counters>>
-----------------------------------------------------------------------------
(* The shell.                                                              *)

\* An effect that clears its timer and does not set it again, for the mutation runs.
NeverArmed == FALSE

Armed == hydrated

\* The effect behind an edit: the timer is cleared, and set if the preferences are hydrated.
Edit(d) ==
  /\ window = "open" /\ view = "shell" /\ ~ exitDialog
  /\ edits < MaxEdits /\ d # draft
  /\ draft' = d /\ timer' = Armed
  /\ jobs' = See(jobs, d)
  /\ edits' = edits + 1
  /\ UNCHANGED <<window, view, exitDialog, hydrated, known, adapter, wire, service,
                 reloads>>

TimerFires ==
  /\ window = "open" /\ timer
  /\ timer' = FALSE
  /\ Persist(draft, 0, jobs)
  /\ UNCHANGED <<window, view, exitDialog, draft, hydrated, known, astray, service,
                 counters>>

\* The close handler of the window, and openEnvironmentExitDialog.
RequestQuit ==
  /\ window = "open" /\ ~ exitDialog
  /\ exitDialog' = TRUE
  /\ UNCHANGED <<window, view, draft, timer, hydrated, known, jobs, adapter, wire,
                 service, counters>>

Asked == exitDialog /\ view = "shell"

\* Closing the dialog does not call off the handler that was started from it.
Cancel ==
  /\ window = "open" /\ Asked
  /\ exitDialog' = FALSE
  /\ UNCHANGED <<window, view, draft, timer, hydrated, known, jobs, adapter, wire,
                 service, counters>>

Discard ==
  /\ CanStart /\ Asked
  /\ jobs' = Started("discard", "revert", NoName)
  /\ wire' = Append(wire, Entry("revert", Default, NoName, FALSE, Me))
  /\ timer' = FALSE
  /\ UNCHANGED <<window, view, exitDialog, draft, hydrated, known, adapter, service,
                 counters>>

\* A save that is not preceded by the text on the screen, for the mutation runs.
SaveUnflushed(kind, n) ==
  /\ jobs' = Started(kind, "save", n)
  /\ wire' = Append(wire, SaveOf(jobs', Me))
  /\ UNCHANGED <<chain, copy>>

\* flushRichDesktopPreferences, which the save waits for.
FlushThenSave(kind, n) == Persist(draft, Me, Started(kind, "flush", n))

SaveAndQuit(kind, n) ==
  /\ CanStart /\ Asked
  /\ kind = "saveCurrent" => n = known
  /\ FlushThenSave(kind, n)
  /\ timer' = FALSE
  /\ UNCHANGED <<window, view, exitDialog, draft, hydrated, known, astray, service,
                 counters>>

\* refreshEnvironmentImageRegistry, after a save.
Registry(i) ==
  /\ window = "open" /\ In(i, "registry")
  /\ \/ known' = current /\ jobs' = To(jobs, {i}, "quit")
     \/ "lost" \in Faults /\ jobs' = To(jobs, {i}, "failed") /\ UNCHANGED known
  /\ UNCHANGED <<window, view, exitDialog, draft, timer, hydrated, adapter, wire, service, counters>>

\* quitApp: allowMainWindowClose is set, and the window closes.
Quit(i) ==
  /\ window = "open" /\ In(i, "quit")
  /\ window' = "closed"
  /\ jobs' = To(jobs, {i}, "done")
  /\ UNCHANGED <<renderer, adapter, wire, service, counters>>

(* View > Reload: what was waiting is forgotten, the requests are not.     *)
(* (The listeners that would flush the preferences are never installed:    *)
(* their effect runs at mount, before the preferences are hydrated, and    *)
(* does not run again.)                                                    *)
Disown(seq) == [k \in DOMAIN seq |-> [seq[k] EXCEPT !.owner = 0]]

Reload ==
  /\ window = "open" /\ reloads < MaxReloads
  /\ reloads' = reloads + 1
  /\ view' = "loading" /\ exitDialog' = FALSE
  /\ draft' = Default /\ timer' = FALSE /\ hydrated' = FALSE /\ known' = NoName
  /\ jobs' = To(jobs, {i \in DOMAIN jobs : Active(i)}, "dropped")
  /\ chain' = Disown(chain) /\ wire' = Disown(wire)
  /\ astray' = (astray \/ chain # <<>>)
  /\ UNCHANGED <<window, copy, service, edits>>
-----------------------------------------------------------------------------
(* The service.                                                            *)

\* What a request may do to the environment and to the images.
Refused(e) ==
  \/ e.kind = "save" /\ images[e.name] # Absent /\ ~ e.overwrite
  \/ e.kind = "revert" /\ current = NoName

Perform(e) ==
  CASE e.kind = "set"    -> env' = e.draft /\ UNCHANGED <<images, current>>
    [] e.kind = "save"   -> /\ images' = [images EXCEPT ![e.name] = env] /\ current' = e.name
                            /\ UNCHANGED env
    [] e.kind = "revert" -> env' = images[current] /\ UNCHANGED <<images, current>>
    [] e.kind = "load"   -> env' = images[e.name] /\ current' = e.name /\ UNCHANGED images

Serve ==
  \E k \in DOMAIN wire :
    /\ wire[k].answer = "none" /\ \A l \in 1..(k - 1) : wire[l].answer # "none"
    /\ \/ /\ ~ Refused(wire[k]) /\ Perform(wire[k])
          /\ wire' = [wire EXCEPT ![k].answer = "ok"]
       \/ /\ Refused(wire[k]) \/ "error" \in Faults
          /\ wire' = [wire EXCEPT ![k].answer = "error"]
          /\ UNCHANGED service
    /\ UNCHANGED <<window, renderer, jobs, adapter, counters>>

\* Replacing the read child rejects what was being read.
Reading == {i \in DOMAIN jobs : jobs[i].phase \in {"read", "bootstrap", "registry"}}

\* The handlers that wait for reads when the read child is replaced: those whose loss
\* loadInitialState swallows, and those that report it.
Interrupted(js, swallowed) ==
  To(To(js, swallowed, "done"), Reading \ swallowed, "failed")

(* A response arrives.  Its status is passed on and looked at by nobody:   *)
(* the handler goes on, and "clean" remembers the status.                  *)
Onward(kind) ==
  CASE kind = "open" -> "read" [] kind = "create" -> "read"
    [] kind = "discard" -> "quit" [] OTHER -> "registry"

Answered(e) ==
  [i \in DOMAIN jobs |->
     IF i # e.owner THEN jobs[i]
     ELSE [jobs[i] EXCEPT !.clean = @ /\ e.answer = "ok",
                          !.phase = IF e.kind = "set" THEN @ ELSE Onward(jobs[i].kind)]]

\* loadInitialState is entered.
Reloads(e) == e.owner # 0 /\ jobs[e.owner].kind \in Startup

DeliverWrite(e) ==
  /\ e.kind = "set"
  /\ Proceed(Tail(chain), Tail(wire), e.draft, {e.owner} \ {0}, Answered(e))
  /\ UNCHANGED <<view, hydrated, known, astray>>

DeliverSave(e) ==
  /\ e.kind = "save"
  /\ \E swallowed \in SUBSET {i \in Reading : jobs[i].phase # "registry"} :
       /\ jobs' = IF e.answer = "ok" THEN Interrupted(Answered(e), swallowed) ELSE Answered(e)
       /\ e.answer # "ok" => swallowed = {}
       /\ view' = IF swallowed = {} THEN view ELSE "shell"
       /\ known' = IF swallowed = {} THEN known ELSE current
  /\ hydrated' = (hydrated /\ ~ Reloads(e))
  /\ wire' = Tail(wire)
  /\ UNCHANGED adapter

\* Both children are replaced after a load or a revert.
DeliverTransition(e) ==
  /\ e.kind \in {"load", "revert"}
  /\ \E swallowed \in SUBSET {i \in Reading : jobs[i].phase # "registry"} :
       /\ Reject(Tail(wire), Interrupted(Answered(e), swallowed))
       /\ view' = IF swallowed = {} THEN view ELSE "shell"
       /\ known' = IF swallowed = {} THEN known ELSE current
  /\ hydrated' = (hydrated /\ ~ Reloads(e))

Deliver ==
  /\ window = "open" /\ wire # <<>> /\ Head(wire).answer # "none"
  /\ LET e == Head(wire) IN DeliverWrite(e) \/ DeliverSave(e) \/ DeliverTransition(e)
  /\ UNCHANGED <<window, exitDialog, draft, timer, service, counters>>

\* The write child dies, before or after it has carried out a request.
LoseChild ==
  /\ window = "open" /\ "lost" \in Faults /\ wire # <<>>
  /\ Reject(wire, jobs)
  /\ UNCHANGED <<window, view, exitDialog, draft, timer, hydrated, known, service, counters>>
-----------------------------------------------------------------------------
Next ==
  \/ ShowChooser \/ OpenCreateDialog \/ BackToImages
  \/ \E n \in Name : OpenImage(n) \/ CreateImage(n)
  \/ \E i \in 1..MaxJobs : ReadPreferences(i) \/ Bootstrap(i) \/ ReadFails(i) \/ Registry(i) \/ Quit(i)
  \/ \E d \in Draft : Edit(d)
  \/ TimerFires \/ RequestQuit \/ Cancel \/ Discard
  \/ \E kind \in Saving, n \in Name : SaveAndQuit(kind, n)
  \/ Reload \/ Serve \/ Deliver \/ LoseChild

Spec == Init /\ [][Next]_vars

(* The event loop of the renderer runs what is due, and the service        *)
(* answers; nobody need press a button.                                    *)
Fairness ==
  /\ WF_vars(Serve) /\ WF_vars(Deliver) /\ WF_vars(TimerFires)
  /\ \A i \in 1..MaxJobs : WF_vars(ReadPreferences(i) \/ Bootstrap(i) \/ Registry(i) \/ Quit(i))

FairSpec == Spec /\ Fairness
-----------------------------------------------------------------------------
(* Properties.                                                             *)

\* The save of handler i has been answered.
Kept(i) == jobs[i].kind \in Saving /\ jobs[i].phase \in {"registry", "quit", "done"}

(* An image that was saved on the way out holds a text that was on the     *)
(* screen when the save was chosen, or later, if the service answered with *)
(* "ok": never an older one that a delayed write left in the environment   *)
(* (flushRichDesktopPreferences before saveEnvironmentImage).              *)
SavedAsShown ==
  \A i \in DOMAIN jobs : Kept(i) /\ jobs[i].clean /\ jobs[i].alone =>
    images[jobs[i].name] \in jobs[i].seen

(* What is on the screen after an image was opened is what the image       *)
(* holds, although writes of the renderer before the reload may still be   *)
(* on their way (bindingTransitionInFlight, and the order of the route).   *)
OpenedAsSaved ==
  \A i \in DOMAIN jobs : jobs[i].kind = "open" /\ In(i, "bootstrap") /\ jobs[i].clean /\ jobs[i].alone =>
    draft = images[jobs[i].name]

(* A text that was typed is on its way to the environment until it has     *)
(* been given to the adapter, unless a write was rejected or sent before a *)
(* reload, the session is being discarded, or two images were opened at    *)
(* once (the effect that sets the timer, the chain of                      *)
(* setDesktopPreferences).                                                 *)
TypedTextIsOnItsWay ==
  window = "open" /\ view = "shell" /\ hydrated =>
    \/ timer \/ copy = draft \/ \E k \in DOMAIN chain : chain[k].draft = draft
    \/ astray
    \/ \E i \in DOMAIN jobs : \/ jobs[i].kind = "discard"
                              \/ jobs[i].kind \in Startup /\ ~ jobs[i].alone

(* Every handler ends: it closes the window, opens the shell, or reports   *)
(* an error.                                                               *)
HandlersEnd == \A i \in 1..MaxJobs : Active(i) ~> ~ Active(i) \/ window = "closed"
=============================================================================
