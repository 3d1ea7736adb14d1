# TLA+ models of sbcl-agent-desktop

The desktop is an Electron shell over an SBCL environment. The state a user
cares about lives in an image of that environment; the desktop reads it and
changes it through a *host adapter* in the Electron main process. This project
models how that works when several calls are in flight, when SBCL processes
die, and when the environment itself is replaced, and proves the parts of it
that hold for any number of calls and processes.

## 1. Inventory

| Component | State | Operations | Talks to |
|---|---|---|---|
| Live adapter: bridge (`src/main/live-host-adapter.ts` 182-197, 4163-4185, 4220-4457, 4475-4563, 6631-6812) | per route: child process, pending map, request counter, warm-up flag; current binding; transition flag | `invokeService`, `invokeStreamingService`, `ensurePersistentBridgeForRoute`, `invalidateBridge`, `adoptResponseBinding`, `setEnvironmentBinding`, `loadEnvironmentImage`, `revertEnvironmentToImage` | two SBCL children over pipes |
| Lisp service bridge (`scripts/live-service-bridge.lisp`) | environment in memory, state file | load at first request, dispatch, save after every request but a direct evaluation, response line | adapter; its sibling, through the state file |
| Adapter: preferences and focus (4106-4161, 6364-6415) | preferences, write queue, focus override | `getDesktopPreferences`, `setDesktopPreferences`, `focusWorkspace` | bridge |
| Event broker (`src/main/ipc/event-broker.ts`) | subscriptions | `subscribe`, `unsubscribe`, `emit` | preload bridge |
| Preload bridge (`src/preload/index.ts`) | handlers and queues of subscriptions | `subscribeEnvironmentEvents`, `unsubscribe`, `invokeCommandWithRefresh` | broker, renderer |
| Main window and quit (`src/main/index.ts`, `ipc/channels/desktop.ts`) | window, permission to close | close, closed, activate, quit handler, menu | renderer |
| Renderer: session (`App.tsx` 3942-3994, 5476-5747) | startup chooser, hydrated flag, debounce timer, exit dialog | open or create an image, hydrate, persist, flush, save, discard, quit | preload, adapter |
| Renderer: conversation threads (`App.tsx` 2018-2113, 4424-4440, 4587-4598, 5790-5797, 6963-6997, 7125-7283, 7376-7680, 7831-8247) | selected thread, transcript shown, sticky thread, composer, refs of the last render | select, create, send, reconcile, `loadThreadDetail`, `loadConversationWorkspace`, refresh events | preload, environment |
| Renderer: event effects (`App.tsx` 2758-2813, 2862-2922, 4843-4901) | one subscription and one refresh timer each | subscribe, handle, schedule, clean up | preload |
| Renderer: governed work (`App.tsx` 4999-5009, 6673-6834, 9261-9320) | table, selected item and its three parts, dialogs, loads under way | select, steer, resume, quarantine, roll back, validate | preload, adapter |
| Shell layout (`shell-layout.ts`, `App.tsx` 2133-2233) | rails, docked and floating panels, twice: reducer and ref | reducer actions, hydrate, persist | renderer session |
| Desktop windowing (`desktop-windowing.ts`) | window geometry | placement, stacking | none |
| Mock adapter (`mock-host-adapter.ts`, `shared/mock-environments.ts`) | threads, turns, approvals, work items, incidents in memory | every command of the contract | event broker |
| IPC channels | none | forwarding | adapter, broker |
| `src/main/live/*.ts` | as the adapter | as the adapter | not instantiated by anything |
| Workspaces, editor, calculator, inspector | view state | queries and commands | preload |

What is hard here is listed, line by line, in `PROJECT.json` under `hazards`.
The kinds that recur:

* **Two copies of one environment.** The read child and the write child load
  the same file and each keeps an image in memory. Coherence rests on killing
  the read child after each acknowledged write, while every request, a read
  included, ends in a save of the whole image, and the one that does not, a
  direct evaluation, is acknowledged without any.
* **Late events of replaced processes.** Handlers outlive the process they were
  installed for; lines, `error` and `close` of an old child arrive after its
  successor has calls pending.
* **Rebinding under way.** Loads, reverts and explicit rebinding replace the
  environment while calls for the old one are in flight.
* **Settling without a timeout.** A call waits until something settles it.
* **Sequential-looking preferences** that are cached in three places (renderer,
  adapter, image).
* **Handlers that wait while their buttons stay live.** The chooser, the exit
  dialog and the work dialogs await several calls; other handlers start
  meanwhile and kill the children the first ones wait for.
* **Actions before hydration.** The shell can be used before the preferences
  are read, and what is done then meets what is read.
* **Answers about what is no longer selected.** A view asks for a thread, the
  user moves on, a message is answered and a list refreshed meanwhile, and each
  continuation compares with refs and closures of some earlier render.

What makes each component correct:

* bridge: every call is settled exactly once with its own response; no child is
  leaked; a rebinding leaves no call of the old binding behind; the flag that
  diverts preferences is not stuck;
* bridge and Lisp side together: what was acknowledged is read back and is
  durable, and the binding names the environment that the state file holds;
* preferences: the last acknowledged setting is what is read next, and survives
  a load that fails;
* conversation view: once all is answered the selected thread is shown, no
  answer takes messages off the screen, the composer is released;
* events: a subscriber hears the events emitted since it was entered, once and
  in order, and one that was left neither acts nor stays subscribed;
* session: what is saved on the way out is what was on the screen, what is
  opened is what was saved, and every handler ends;
* layout: every panel is in one place, and where it was after a relaunch;
* governed work: once all is answered the panel shows the selected item as the
  environment has it, and never went back to an older state of it.

## 2. What is modelled so far

| Module | Models |
|---|---|
| `ServiceCalls` | the abstract promise to a caller: issued once, settled exactly once |
| `LiveBridge` | the adapter's bridge and binding, with the children's answers left open |
| `MC_LiveBridge` | model values and request sets for TLC |
| `BridgeStore` | `LiveBridge` with the Lisp children's memory and the state file |
| `MC_BridgeStore` | model values for TLC |
| `DesktopPreferences` | the adapter's copy of the preferences, its write queue, reads, focus, and the children's images |
| `MC_DesktopPreferences` | symmetry for TLC |
| `ConversationThreads` | the renderer's selected thread, transcript and composer, with all loads and sends in flight |
| `MC_ConversationThreads` | symmetry for TLC |
| `ShellSession` | a session from the startup chooser to the exit dialog: text on the screen, in the adapter, in the environment, in images |
| `ShellLayout` | the reducer of the shell's panels, its ref, hydration, persistence, a relaunch |
| `GovernedWork` | the Work panel: table, selected item, dialogs' commands, refresh, the read child below |
| `EventSubscriptions` | broker, preload bridge and the effects that subscribe, with the messages between them |
| `MC_ShellSession`, `MC_ShellLayout`, `MC_GovernedWork`, `MC_EventSubscriptions` | model values for TLC |
| `LiveBridge_proofs` | theorems about the bridge: who owns what; what callers are promised |
| `BridgeStore_proofs`, `DesktopPreferences_proofs`, `ConversationThreads_proofs`, `ShellSession_proofs`, `ShellLayout_proofs`, `GovernedWork_proofs`, `EventSubscriptions_proofs` | theorems about the module each is named for |

### LiveBridge

The main process is one JavaScript thread, so a step of the model is one
callback, run to its last statement: a line handler, a write callback, an
`error` or `close` event, an IPC call up to where it hands over to the event
loop. Between two steps anything else may happen.

| Variable | Code |
|---|---|
| `currentBinding`, `transitionInFlight` | `currentBinding.environmentId`, `bindingTransitionInFlight` |
| `process`, `requestId`, `warmupRequested`, `pending` | the fields of `PersistentBridgeState`, by route |
| `status`, `killed` | the operating system's view of a child; `ChildProcess.killed` |
| `stdin`, `stdout`, `broken` | requests in the pipe, lines not read yet, writes whose error callback is due |
| `call` | the promise each caller of `invokeService` holds |

Decisions worth knowing when reading it:

* *Operations* are five kinds, one for each way the adapter treats them:
  `query` goes to the read route; `command`, `preferences-set`, `load-image`
  and `revert-image` go to the write route; `preferences-set` does not
  invalidate the read child; the last two ignore drift of the binding, and only
  `load-image` raises the flag.
* *A child's identity is reused* once its `close` was delivered, so a bounded
  set of children allows any number of respawns.
* *The one await* of `invokeService`, between ensuring a process and writing to
  it, is a microtask: of the events that matter only the `nextTick` that
  reports a failed spawn can run in it. `InvokeAfterFailedSpawn` is that case.
  The exception is a call issued from the continuation of another call, which
  one method does (`configureProviderProfile` with `activate`): if a load's
  response is in the same chunk of output, the rebinding falls in the await and
  the second call is written to a killed child. Calls of the model are issued
  by callers only, so this case is *not* covered (section 5).
* *A spawn that throws* rejects the call at once (`InvokeSpawnThrows`); one that
  fails later reports an `error` event.
* *After its response* a load or revert has a continuation that runs later:
  the call is `resuming` until `FinishTransition`, which adopts the summary's
  binding and invalidates both children.
* *Malformed output* may come at any time from a live child: warnings of SBCL
  share standard output with the frames.
* `scheduleEnvironmentBootstrapWarmup` is never called and left out, as is the
  unused socket transport.

### BridgeStore

`BridgeStore` EXTENDS `LiveBridge` and conjoins to each of its steps what the
Lisp side and the caller do: `Load` (first request), `Serve` (dispatch, keep,
save, respond), `ServeAndDie` (a crash between the save and the response),
`Deliver`, `Finish`. An environment is its identifier and the set of commands
it has taken in, which is all the properties tell apart. `acked` and `due` are
history variables: the commands whose `ok` was delivered, and what a call made
now may count on. A revert that fails leaves the environment there was, so what
a later call may count on is `LeftBy` the transition that was answered. A
response names the environment that the operation left, or the one it was asked
of if it signalled (`AnsweredEnv`), and that moves the adapter's binding.

* *Requests that fail* may have changed the environment before they signalled:
  a command's evaluation, and also a load or a revert, which sets up the desktop
  of the environment it has already made current (`Results`). The caller of such
  a half-way transition is told that it failed while the child keeps, and saves,
  the other environment. Nothing is promised from then on (`TransitionInDoubt`).
* *Direct evaluations.* A message that is a form is evaluated by the runtime,
  acknowledged, and *not saved* (`skip-persist-p`). Its effect is in the write
  child's memory alone: the read child that replaces the killed one loads a file
  without it, so even callers that take turns do not read it back, and it is
  lost if the write child dies. It counts, for reads and for durability, from
  the next command on that is both saved and acknowledged with `ok`
  (`doubtful`, `Deliver`). A save alone would not do: `preferences-set`, and a
  command that fails, save the write child's environment with the evaluation in
  it but leave the read child running, and its next save, of the environment it
  loaded before, takes the evaluation out of the file again.

Two constants choose the circumstances: `OneAtATime` has callers wait until no
child is busy, and `Circumstances` are the sets of what else may happen in a
behaviour: the load (`"load-image"`) or the revert (`"revert-image"`) of an
image, direct evaluations (`"direct"`), a window that binds the adapter to
another environment (`"rebind"`), or a `SAVE-ENVIRONMENT` that signals or times
out (`"saves"`), which the code logs and ignores. When saves fail, what was
acknowledged can be lost, but only in one way, which `LossNeedsADeadWriter`
states: the write child that took a command in remembers it as long as it
lives, whatever read children save meanwhile, and brings it back with its next
save that succeeds.

A save is atomic in the model: how the runtime writes the file is not in this
repository. The one-shot mode and the quarantine of a corrupt file are left out.

### DesktopPreferences

| Variable | Code |
|---|---|
| `preferences`, `focusedWorkspaceOverride`, `bindingTransitionInFlight` | the adapter's fields of these names |
| `writeQueue` | the promise chain `desktopPreferencesWriteQueue`: writes not settled yet |
| `call` | each caller's promise, with what it set, what was sent, what was answered |
| `pipe`, `memory`, `file` | requests not served yet, the preferences in each child's image, those in the state file |
| `settled`, `due` | history: what was last acknowledged of each preference, and what a read made now may count on |

* *The bridge is taken in outline.* What `LiveBridge` shows of it in detail is
  used here: a route serves its requests in order, a response reaches its call,
  and the loss of a child (`LoseChild`) or malformed output (`Malformed`)
  rejects every call of the route (`RejectRoutes`), the first write of the
  queue, if it is one of them, makes way for the next (`QueueAfterReject`). A child that is killed here stops at once;
  the late save of a killed child is what `BridgeStore` looks into.
* *A preferences record* is a function from fields to values. One field,
  `lastWorkspace`, is treated differently by the code; the others, `Setting`,
  are alike. An image need not have preferences yet (`Unset`), and a merge then
  keeps what the adapter has. A response without preferences (`Nothing`) is an
  error that `setDesktopPreferences` does not tell from an acknowledgement: it
  does not look at the status.
* *Starting a queued write* is a microtask of the step that settled the one
  before: `WriteStarts` keeps everything else from coming in between.
* *Every other request* of the application is `ServeOther` (load, keep, save)
  and `LoseChild("read")` (the response to a write that does invalidate).
* A load or revert brings preferences of its own, any value.

### ConversationThreads

| Variable | Code |
|---|---|
| `selectedThreadId`, `selectedThread`, `threads`, `sending` | the states of `App` of these names (`isSendingConversation`) |
| `stickyThread` | `stickyConversationThreadIdRef` |
| `rendered` | what the last render saw: `selectedThreadIdRef`, closures, dependencies of effects |
| `details`, `workspaces`, `opening` | calls in flight of `loadThreadDetail` and `loadConversationWorkspace`, the latter by the thread they ask for |
| `creating`, `send` | `handleCreateConversationSession` and `handleSendConversationMessage`, by where they await |
| `stored`, `listed` | the environment's transcripts and its list of threads |
| `missed` | history: whether the last answer about a thread is known not to be on screen |
| `acts` | bound on the user and on the rest of the desktop |

* *A render is a step of its own.* A continuation sets state, and other
  continuations may run before React renders; they then compare with the refs
  of the render before. The effect on `[selectedThreadId,
  selectedThread?.threadId]` belongs to the render. A click is rendered
  synchronously, so its render belongs to it.
* *A transcript* is its length: what came from the environment (`kept`) and
  what the renderer put there ahead of it (`added`). That is what
  `incomingThreadDetailIsStale` compares. `Blank` stands for no transcript.
* *Answers come in any order* and are computed when they arrive. That a read
  child may answer with an older image is `BridgeStore`'s subject.
* *Questions again.* `loadThreadDetail` asks up to four times more when a
  transcript is shorter than expected; only the last answer is applied, so one
  answer stands for all.
* *`missed`* is `yes` after an answer that was not about the active thread and
  was dropped, after a rejected one, and when a continuation took back a
  selection before any render saw it: the effect compares with the last render
  and does not load.
* *Answers to a message* name a thread, the one it was sent to or another one the
  environment has (`AnsweredIn`), and come with no reply, with a reply of a turn
  they do not name (`bare`), or of one they do (`turn`). If another thread is
  named, the list of threads is read first (`ThreadFound`). Then the transcript
  is asked for, up to five times, until it has what the answer speaks of
  (`Complete`); a last answer that has not is applied only if another thread was
  shown when the message was sent (`Reconciled`).
* *Refusals* (the answer's status is an error) may have a reply as well. They
  ask what they wait for last, and one that waits for approval moves the
  selection to its thread once more (`Excused`). An answer that leaves an
  approval pending makes its thread sticky (`SendAnswered`).
* *Left out*: turns, attachments and renamed threads, streamed text, replies
  that confirm an approval, and answers whose status is `awaiting_approval`.
* *Circumstances that do not occur here*: the environment has a thread at least
  and keeps those it has, so the branches that seed an empty environment or
  turn to an alternative thread are not reached. `ProjectThread` is the thread
  remembered for the project, a constant.

### ShellSession

| Variable | Code |
|---|---|
| `window`, `view`, `exitDialog` | `mainWindow`; what the renderer shows; `isEnvironmentExitDialogOpen` |
| `jobs` | the asynchronous handlers of the chooser and of the exit dialog, by where they await |
| `draft`, `timer`, `hydrated` | the text on the screen, the 250 ms debounce, `desktopPreferencesHydratedRef` |
| `copy`, `chain`, `wire` | the adapter's preferences, its chain of writes, the write route |
| `env`, `images`, `current` | the text in the environment and in every saved image |
| `astray` | history: a write was rejected or outlived its renderer |

* *One text* stands for all that is persisted with a delay.
* *The service* is one process here that serves writes in order; reads are
  answered in one step from the environment, and what the two children make of
  it is `BridgeStore`'s subject. Saved images are external, as the script uses them.
* *What the model shows of the code, beside the properties.* A failed
  `loadInitialState` is swallowed and the shell opens unhydrated. A registry
  read that fails at startup leaves a view without buttons whose close is
  vetoed with no exit dialog to show. The exit flush on `beforeunload` is
  installed before hydration, returns early and is never run again. `Back to
  Images` stays live while an image is created. A failed Discard leaves the
  timer cleared. A queued write can be served behind a revert. `Cancel` does
  not stop a save that is under way. No caller looks at the status of a load or
  a save, so an answer with an error closes the shell with nothing saved:
  `SavedAsShown` excepts it (`clean`).

### ShellLayout

`layout` is the ref with which handlers compute what they persist, `shown` the
state of React's reducer, `pending` the actions that came before the
preferences were read, `stored` what the environment holds. Widths are model
values; viewport arithmetic is left out. After `Relaunch` the second launch
loads and is only looked at.

* *Startup handlers.* The chooser opens an image or creates one. Each of the two
  buttons is disabled while its handler works, and both are gone once the shell
  is shown, so two handlers at most are busy, and one after that (`Choose`). A
  third one that overlaps would break `LayoutSurvivesARelaunch`: it could read an
  older layout while a newer one is shown. What is stored when a handler reads
  stands for what the image it opened brought along; handlers that open
  different images are `ShellSession`'s subject.
* *`ImageAssumption`* restricts the stored layouts to those that this shell
  writes when no action crosses a read: no rail is empty, no panel is in two.
* *`Kept`* is `dedupePanelIds` and the two `filter` calls: the panels that are not
  to go, each where it comes first. It and the replay of `Hydrated` are recursive
  functions, so that they can be proved about.
* Actions before hydration are persisted at once, computed from the default
  layout, and applied again to what is read: a toggle flips back and a panel
  moved twice may be doubled. The properties except these (`crossed`).
* The activation of a panel is not persisted, though
  `tests/ui/electron-live.spec.ts:734` looks for an active tab after a
  relaunch; `LayoutSurvivesARelaunch` leaves the active panel out (`Settled`).
* The native drag of a panel never starts, as the list's own mouse handler
  prevents it; panels move through that handler (`MovePanel`).

### GovernedWork

What an item says is its revision, which a command raises. Three environments
say something: the write child's (`rev`), the state file's (`file`) and the read
child's (`view`); a child loads the file when it is first asked something
(`up`). `reads`, `commands` and `replies` are the messages, `results` what the
write child answers to commands it has carried out, `shown` the three parts of
the panel with the item and revision each is of, `loads` the load of each item
that is under way, by the part it waits for, and `jobs` the handlers of
commands. `Line` is what the renderer is still to hear of, the answers on their
way and behind them the reads not answered yet; a load is entered in `loads` or
`listing` as long as the line has its read or its answer, and never twice
(`TypeOK`).

* *Reads save.* A child works ahead of the adapter that takes its answers.
  `SaveReadChild` is the read child serving a request, which ends in a save of
  *its* environment; `AnswerRead` is the adapter taking the answer, which may be
  of a request whose save failed. So a read that is served while a command is
  carried out may put the older image back over the one the command saved; the
  read child is killed when the command's answer is taken, but its successor
  loads the older image, and the refresh behind the command shows the item as
  it was *before* it. This is the race of `BridgeStore_reads`, seen from the
  panel. The properties about revisions except it (`behind`) and hold of every
  other order.
* *Commands* are carried out (`CarryOut`) with or without success, with or
  without a change, saved or not (`Course`). The adapter kills the read child
  only for those that succeeded (`Perform`). A command *answered* with an error
  (`Fail`) resolves: the preload bridge refreshes as after success, and the
  handler, which does not look at the status, shows the data of the answer,
  which there are none of; the adapter has made the item `work-item` of them,
  the `Placeholder`. The handler then loads that item's parts and closes its
  dialog as if all had gone well. Only a *rejected* command (`Refuse`) leaves
  the dialog open.
* *Dialogs.* A handler that is done closes its own kind of dialog, whichever
  item it was opened for. A dialog bears the title of the item shown and its
  command goes to the item selected; the two differ while the selected item is
  loading or after its load was rejected. This is listed as a hazard without a
  property, as no document says which is meant.

`excuses` records why the panel need not be right:

* `rejoined`: an item selected, left and selected again joins its own load, and
  what another item's load showed meanwhile stays;
* `strayed`: a handler loads, and shows, another item than the one selected,
  because another was selected while it waits or because its command failed and
  it loads the placeholder;
* `overtaken`: a refresh joins a load that has its detail already, so the
  detail stays as it was read before the command;
* `lost`: a read was rejected, and nothing asks again;
* `unseen`: a command changed something but was answered with an error, or was
  rejected by its answer, so the read child lives on with its older view;
* `behind`: the state file was put behind the write child's environment, by a
  read's save or for want of the write child's own;
* `outrun`: a command was carried out before the adapter took the answer of the
  one before, so that a read may tell of it before that answer is shown.

Left out are reads answered with an error status for real items, and navigation
that clears a selection. The commands that were sent to a write child that is
lost are rejected one at a time. The approval and incident panels repeat the
pattern; `loadIncidentDetail` does not even join loads.

### EventSubscriptions

`subscriptions` is the broker's map, `requests`, `answers` and `sent` the
messages between the page and the main process, `handlers` and `held` the maps
`eventHandlers` and `pendingEvents`, `run` the runs of effects (each with what
it asked for), `timer` the debounced refreshes. `due`, `heard` and `emitted` are
history. Answers and events are separate queues and may cross: the preload
bridge has a map for that case. The events of one subscription are taken in the
order in which they were sent; those of different subscriptions in any order.

* A cleanup before the answer (`abandoned`) unsubscribes nothing, and neither
  does a page that is loaded again (`gone`): the broker keeps sending, and the
  queue of an identifier without a handler grows for good.
* The environment a subscription names is not compared with an event's.
* `eng-docs/implementation-slice-event-subscription-and-attention.md:124-125`
  promises a replay from a cursor: the filter is there, the replay is not, and
  no effect asks for it.
* The live adapter forwards no stream events; with it `Emit` does not occur.
* One refresh timer serves the selected thread and the list: an event about the
  list within 180 ms replaces the refresh of the thread's detail.

## 3. Runs

| Run | Bounds | Shows |
|---|---|---|
| `LiveBridge_routes` | 2 read children, 1 write child, 3 calls, query / command / preferences-set | types, `NoLostCall`, `ResponsesReachTheirCall`, `NoLeakedChild` |
| `LiveBridge_liveness` | 1 + 1 children, 2 calls of all kinds, 2 environments, fairness | `LiveBridge` implements `ServiceCalls` (`CallsAreSettledOnce`); `NoStuckTransition`, `RebindingIsABarrier` |
| `BridgeStore_one_at_a_time` | 1 + 1 children, 3 calls, 3 environments; images are loaded and forms evaluated, or forms evaluated and a window rebinds the adapter, or saves fail and the environment is reverted | types, `ReadsReflectAcknowledgedWrites`, `AcknowledgedWritesAreDurable`, `BindingNamesTheFile`, `LossNeedsADeadWriter` |
| `BridgeStore_reads` | 2 + 1 children, 3 calls, callers overlap | **violation**: see below |
| `DesktopPreferences_overlaps` | 3 calls of all kinds, 1 setting and the workspace, 2 values | types, `FocusIsShown`, `NoWriteBehindALoad`, `OnlyTheWriterForgets` |
| `DesktopPreferences_liveness` | 3 calls (set, load), the workspace only, fairness | `EveryWriteSettles` |
| `ConversationThreads_overlaps` | 2 threads, 2 acts, one of which may send a message, transcripts of 0 or 1 messages at first | types, `SettledViewShowsTheSelection`, `ComposerIsFree`, `LoadsKeepTheTranscript` |
| `ConversationThreads_stable` | as above | **violation** of `SelectionIsTheUsers` |
| `ShellSession_overlaps` | 2 texts, 2 images of which 1 was saved, 2 handlers, 2 edits, 1 reload, children die, fairness | types, `SavedAsShown`, `OpenedAsSaved`, `TypedTextIsOnItsWay`, `HandlersEnd` |
| `ShellLayout_relaunch` | 3 panels, 1 width, 2 stored layouts, 2 startup handlers, 3 acts, images that cannot be opened, failing reads and writes | types, `EveryPanelHasOnePlace`, `LayoutSurvivesARelaunch` |
| `GovernedWork_overlaps` | 2 items and the placeholder, 1 dialog, 2 inputs (commands, or selections after the first), 1 fault: a command that fails, is rejected or not saved, or a lost read child; fairness | types, `PanelShowsTheSelection`, `PanelIsFresh`, `ShownNeverGoesBack`, `HandlersEnd` |
| `EventSubscriptions_reruns` | 2 effects, 3 runs of them, 2 events, 2 sorts, 1 reload, fairness | types, `EverySubscriberHearsItsEvents`, `RefreshesAreForWhatIsShown`, `LeftRunsAreUnsubscribed`, `EventsAreHeard` |

*Why these bounds are enough.* Three calls are what an overlap needs: one in
flight, one that disturbs it, one that observes. Two children of a route are a
current one and a replaced one whose events are still to come; since
identities are reused, one is enough where only the current one matters. The
counters are bounded by the number of calls, as each call takes one identifier.
Calls are not reissued, which is sound as identifiers are never reused.
`Permutations` of calls and children, of the environments besides the default
one, of threads and of messages are symmetries where no liveness is checked.
For preferences, three calls are two writes and a read, or two writes and a
load; one field besides the workspace shows what one write does to the field of
another; two values are the older and the newer. The liveness run leaves the
field out, since settling does not depend on what is written.
The transitions of `LiveBridge_liveness` need a load and a call that is in
flight with it, two calls; that a third changes nothing is what the theorems
about the same properties show.
For conversations, two threads are the selected one and the one an answer is
about, be it a load's or a message's; two acts are a selection and what crosses
it: another one, a refresh, a creation or a message. Transcripts of one message
are those that an answer could shorten, those of none keep a thread sticky.
Several messages, and more of everything, are covered by the theorems, which
hold all four properties for any number.
For the session, two handlers are one and another that crosses it; two edits
are the text that is on its way and a newer one. For the layout, three actions
are a panel that leaves a rail, one that follows it, and one before the
preferences are read; three panels over two rails are what empties one rail and
doubles another; two startup handlers are all that can overlap, and what one more
after a failed one could do is covered by the theorems. For
governed work, one selection besides the first makes two loads overlap, a
selection and a command are a handler that loads what is no longer selected, and
two commands are one whose refresh the other rejects; one fault is one thing
that goes wrong among them. The theorems hold for any number of each. For events, three runs
are one that is left, its successor, and another effect's; two events are what
can come in a wrong order.
`CHECK_DEADLOCK` is off in the runs of the renderer: when all is answered and
the acts are spent nothing more happens, as the user is not obliged to act.

*The violation of `BridgeStore_reads`.* A query in flight during a command ends in a save of the read
child's older image. If that save comes after the command's, the file has lost
the command, and the next read child (the old one is killed when the command's
response arrives) loads the file and shows the older state. The write child
still has the command in memory and its next save repairs the file. The UI
test quoted in the finding relies on this never happening.

*What `BridgeStore` and `GovernedWork` show besides.* A direct evaluation is
acknowledged but neither read back nor durable until a later command is; a load
or a revert that is reported as failed may have replaced the environment. The
race above reaches the Work panel: the refresh behind an acknowledged command
may put the item's older revision on the screen. A command that was *answered*
with an error is treated like one that succeeded: its dialog closes, and the
panel shows a placeholder's parts while another item is selected. No document of
the repository says otherwise of any of these, so none is a finding.

*What `DesktopPreferences` shows besides.* Setting preferences is the one write
that does not invalidate the read child. (1) A read child that loaded its
environment before the set answers reads with its older image, and
`getDesktopPreferences` merges that into the adapter's copy, so a setting that
was acknowledged is neither read back nor kept for the next write;
`lastWorkspace` alone is protected, by the override (`FocusIsShown`). The test
of the round trip passes since its image holds no preferences yet. (2) Any later
query of that child saves its older image over the state file, where the next
launch finds it. (3) Preferences set while a load is in flight stay in memory
and nothing sends them when it is over. The first two take `SAVE-ENVIRONMENT` at
its word: the bridge script calls it after every request, and the runtime that
implements it is another repository.

*The violation of `ConversationThreads_stable`.* The continuation of a message
selects the message's thread, whatever the user selected while it was answered.
The property is about messages that were answered in the thread they were sent
to (`AnsweredAtHome`): moving to the thread an answer names is what the
continuation is for.
Another loss is part of what `SettledViewShowsTheSelection` excepts: a thread
that is focused, created or kept by a list refresh becomes sticky and is let go
only when it has messages. While an empty thread is sticky, a selection that
sets the identifier alone does not move it; the load of the newly selected
thread is answered, is not about the active thread, and is dropped. Nothing asks
again, since the effect depends on the selection and the shown thread, and
neither changed.

*Fairness.* Node delivers every event it has (`WriteError`, `SpawnError`,
`Close`, `Line`), runs every continuation (`FinishTransition`), and a process
that was killed exits. One assumption is about the service and not the
platform: a live child finishes each request it reads (`WF(Execute)`). The
adapter has no timeout of its own, so without this nothing settles a call.
Neither a crash, nor malformed output, nor a call is ever required to happen.
`DesktopPreferences` assumes the same of `StartWrite`, `WriteDone`,
`FinishTransition` and, for the service, `Serve`.
`ShellSession` assumes that the service serves and its answers are delivered,
that the debounce fires, and that continuations run, and `GovernedWork` that the
read child loads the file and answers, that the write child carries out what it
was sent, and that answers are taken and delivered; that a read is saved, or a
user clicks, is never assumed. `EventSubscriptions` assumes that either process takes the messages it
is sent.
`CHECK_DEADLOCK` is left on in the others: a malformed line or a rebinding is always possible.

Each property of a passing run has a *mutant*: a plausible bug in a mapped
definition (an operator "for the mutation runs" placed before it) under which
TLC reports that property violated.

## 4. Proofs

### LiveBridge

For every set of calls, of children, of environments and of requests, under
the ASSUMEs of `LiveBridge` only (disjoint children, well-formed requests):

| Theorem | Statement |
|---|---|
| `TypeCorrect` | `Spec => []TypeOK` |
| `NoChildLeaks` | `Spec => []NoLeakedChild` |
| `IdentifiersAreUnique` | `Spec => []Identified` |
| `ResponsesAreNotMixedUp` | `Spec => []ResponsesReachTheirCall` |
| `NoCallIsLost` | `Spec => []NoLostCall` |
| `RebindingIsAlwaysABarrier` | `Spec => RebindingIsABarrier` |
| `TransitionFlagIsLowered` | `Spec => []NoStuckTransition` |
| `CallsHaveOneEntry` | `Spec => []SingleEntry` |
| `CallsAreSettledAtMostOnce` | `Spec => Promise!SafeSpec` |

The argument goes in layers.

1. `TypeOK`, then *ownership* (`Owned`): a running process is the current one of
   its route or was killed, a current one is never free, and a child serves its
   own route. It is needed by all that follows: a handler acts on a route only
   if its child is the current one.
2. *Identification* (`Identified`): no identifier on its way is above the counter
   of its route, and equal identifiers on a route, be it in the pending map, a
   pipe or a failed write, stand for one call. This strengthens
   `ResponsesReachTheirCall`, which speaks of lines and entries only and is not
   inductive without the pipes and the counters.
3. *Registration*: each unanswered call has an entry on the route of its
   operation, which needs that an entry belongs to a call that was issued there.
4. Each pending entry still has an event coming (`AllWillSettle`), the flag is
   backed by a load that has not ended (`FlagBacked`), and from registration and
   the emptied maps, the barrier.
5. `SingleEntry`: a call has at most one entry in all maps and failed writes
   together and is unanswered while it is in a map. A step then ends only calls
   whose entries it removes (`EndingPreserves`), so a settled call is not touched
   again: the adapter implements `SafeSpec` of `ServiceCalls`. What the drift
   check of `adoptResponseBinding` is worth is proved with the children's
   memories, as `TurnsKeepTheBinding`.

### BridgeStore

For any sets of calls, children, environments and requests and any
circumstances, under the ASSUMEs of `LiveBridge` and `BridgeStore`:

| Theorem | Statement |
|---|---|
| `StoreImplementsBridge` | `StoreSpec => Spec /\ []StoreTypeOK` |
| `StoreTypeCorrect` | `StoreSpec => []StoreTypeOK` |
| `LossNeedsADeath` | `StoreSpec => LossNeedsADeadWriter` |
| `TurnsMakeReadsCurrent` | `StoreSpec => [](OneAtATime => ReadsReflectAcknowledgedWrites)` |
| `TurnsMakeWritesDurable` | `StoreSpec => [](OneAtATime => AcknowledgedWritesAreDurable)` |
| `TurnsKeepTheBinding` | `StoreSpec => [](OneAtATime => BindingNamesTheFile)` |

* *Refinement.* Every step on the state file is a step of `LiveBridge` or leaves
  its variables alone, so all theorems about the bridge hold of the children
  with their memories. The one step that needs an argument is `Serve`: a child
  that has requests has an oldest one, as identifiers are well-founded.
* *What callers take turns for.* The last three theorems are about callers
  that take turns, hence `OneAtATime` in their statements; of callers that overlap
  the first of them is false (`BridgeStore_reads` is the counterexample). What
  makes them true is in two parts. `Apart` and `Serial`
  are about order: a call is a request or a response under way, not both, and
  when callers take turns there is one open call and one request at most, for a
  child still in use. `Coherent` is about content, as long as saves succeed and
  no transition has failed half-way (`Trusted`): between transitions the file
  and every memory in use have all that was acknowledged and is not a direct
  evaluation still in doubt (`Standing`), a request counts on no more than that
  (`Asked`), a response says what is so (`Saying`), what was shown was right
  (`Done`), and the binding is that of the file unless a transition is with its
  child or a window has rebound the adapter (`Bound`). `Saying` is why the read
  child must be killed by the *response* to a write and not later: from then on
  its memory is not in use, and until then the command is not acknowledged. It
  is also why an evaluation counts only from the next acknowledged command on:
  that response alone says both that the file has the evaluation and that no
  read child without it lives on.
* *Saves that fail.* `LossNeedsADeath` needs none of this: only its own steps
  touch a child's memory, and its own requests let the environment grow.

### DesktopPreferences

For any sets of callers, settings and values, under the ASSUMEs of the module:

| Theorem | Statement |
|---|---|
| `TypeCorrect` | `Spec => []TypeOK` |
| `FocusedWorkspaceIsShown` | `Spec => []FocusIsShown` |
| `WritesStayBeforeLoads` | `Spec => []NoWriteBehindALoad` |
| `WritersKeepWhatIsSettled` | `Spec => OnlyTheWriterForgets` |

* `TypeOK` needs the chain of writes (`QueueInv`): it has the unsettled writes,
  each once, and only its first may have been sent, with whole preferences.
* `FocusIsShown` rests on `Unsettled`: while a write of a preference is not
  settled no value of it counts as acknowledged. So the override may change
  whenever a focus starts, and what is promised to reads in flight is what they
  are made to show (`FocusKept`).
* `NoWriteBehindALoad` follows from `FlagBacked`, that the flag is up as long as
  any load is in flight, although the end of one load lowers it: that end
  rejects the others.
* `OnlyTheWriterForgets` needs that the pipe holds nothing newer than what the
  adapter waits for (`ServedInOrder`), that a write carries what it sets
  (`SentMerged`), and that until a read is merged the adapter's copy and every
  write on its way have the settled values (`CopyAgrees`).

### ConversationThreads

For any sets of threads and messages, any initial transcripts and any number of
acts, under `ThreadAssumption` and `BoundAssumption`:

| Theorem | Statement |
|---|---|
| `TypeCorrect` | `Spec => []TypeOK` |
| `ComposerIsReleased` | `Spec => []ComposerIsFree` |
| `TranscriptsAreKept` | `Spec => LoadsKeepTheTranscript` |
| `SelectionIsShownInTheEnd` | `Spec => []SettledViewShowsTheSelection` |

* `TypeOK` carries that a message in progress is about a thread (`Addressed`)
  and that the lengths stay natural numbers, so a reply never takes away more
  than is there, in whichever thread it comes and whether it names its turn.
* `ComposerIsFree` speaks of quiet states only; `Busied`, that a busy composer
  has a message that will release it, is inductive.
* `LoadsKeepTheTranscript` needs `BlankIsEmpty`, that no transcript means no
  messages, since only then does replacing a blank one lose nothing.
* `SettledViewShowsTheSelection` follows from `LoadIsComing`: while the selected
  thread is not shown and its answer is not known to be lost, its load is in
  flight or the next render will ask for it. Each continuation that moves the
  selection must leave the view different from the last render or be recorded
  as unnoticed (`RememberedIsComing`), and each render that leaves the two apart
  asks (`RenderingLoads`).

### ShellSession

For any texts and images and any numbers of handlers, edits and reloads, under
the ASSUMEs of the module:

| Theorem | Statement |
|---|---|
| `TypeCorrect` | `Spec => []TypeOK` |
| `TypedTextKept` | `Spec => []TypedTextIsOnItsWay` |
| `OpenedFaithfully` | `Spec => []OpenedAsSaved` |
| `SavedFaithfully` | `Spec => []SavedAsShown` |

Six invariants, each inductive with those before it that it names:

1. `TypeInv`: types; a request that has an owner is the one its handler waits for
   (`Owned`, `Chained`); exactly the first write of the chain is on the wire
   (`OneSet`); nothing is read of an image that is not there (`Present`). A
   handler goes on only by an answer to what it asked.
2. `HandlersInv`: of two handlers that run none is alone, those of the exit
   dialog run in the shell, and a handler that saves has seen the text on the
   screen. This is what lets the others reason about one handler at a time.
3. `TextInv`, for `TypedTextIsOnItsWay`: once the timer has fired the *last* text
   of the chain, or the copy if there is none, is the text on the screen
   (`Newest`). The property alone is not inductive: it does not say which write
   has the text, so the write that has it could be overtaken.
4. `OrderInv`: requests are answered in the order of the wire, those of a page
   that was loaded again come before the new page's own, so none of them is left
   once the new page has had an answer.
5. `OpenInv`, for `OpenedAsSaved`: the load of a handler that is alone is the last
   request on the wire, so that what was ahead of it is in the environment before
   and nothing behind; from its answer until the text is shown the wire is empty.
6. `SaveInv`, for `SavedAsShown`: while such a handler waits for its flush, the
   writes from its own on are of texts it has seen; when its save is asked for, the
   environment, the copy and all that may still be sent are; once it is answered,
   no save is on the wire.

### ShellLayout

For any panels, widths and stored layouts, any number of startup handlers and
acts, under the ASSUMEs of the module:

| Theorem | Statement |
|---|---|
| `TypeCorrect` | `Spec => []TypeOK` |
| `PanelsHaveOnePlace` | `Spec => []EveryPanelHasOnePlace` |
| `LayoutSurvives` | `Spec => []LayoutSurvivesARelaunch` |

* *Loops.* What `Kept` and `Hydrated` compute is proved by the least
  counterexample: the table that the recursive function stands for exists
  (`KeptHasTable`, `RedoneHasTable`), and of the places where it is not as it
  should be there would be a first one (`Least`, from `WFMin`), which the place
  before rules out. `KeptFacts` is the result: the right panels, each once, and a
  sequence from which nothing has to go is left as it is.
* `TypeInv` adds that what is to be done again is an action a handler makes
  (`Doable`). `Well`, that no rail is empty and its active panel is one of its own,
  is kept by `Reduce` whatever the layout it is applied to (`ReduceWell`), which
  the replay of actions needs.
* `LaunchInv`: how many startup handlers are busy, that nothing was written
  before the shell is shown, and that without a crossing action ref, state and
  what a handler read are the same layout.
* `PlaceInv`, for `EveryPanelHasOnePlace`: the property of what is shown is not
  inductive, since a read brings back what was written at any earlier time. It is
  strengthened to all that may still be read (`Files`: the file and the writes on
  their way), of which each is `Sound`; a sound one read back has one place for
  each panel (`SoundRead`), and so has what any handler makes of it (`ReducePlace`).
* `SurviveInv`, for `LayoutSurvivesARelaunch`: a layout in order is read back as
  it was written (`RoundTrip`); the last write is what is shown (`WritesShown`);
  as long as a handler still reads, all that it can read is what is shown
  (`ReadsShown`), which rests on the two handlers of the chooser; and after the
  relaunch all that can be read is the layout from before it (`ReadsBefore`).

Looking for `SurviveInv` corrected the model: it had let any number of startup
handlers start at any time, and TLC found the property false of three.

### GovernedWork

For any sets of items and dialogs and any numbers of inputs, commands and
faults, under the ASSUMEs of the module:

| Theorem | Statement |
|---|---|
| `TypeCorrect` | `Spec => []TypeOK` |
| `PanelGoesForward` | `Spec => ShownNeverGoesBack` |
| `WhatIsShownIsFresh` | `Spec => []PanelIsFresh` |
| `WhatIsSelectedIsShown` | `Spec => []PanelShowsTheSelection` |

* `TypeOK` says that what is entered as under way is what the line holds, none
  of it twice. Each step moves the line in one of a few ways (its first goes,
  others join behind, an answer to a command is put in between), and it needs
  `Handled`: a command is on its way, or its answer is, only for a handler that
  waits for it, and what was not sent is not carried out.
* `ShownNeverGoesBack` follows from `Ordered`, as long as the file was never
  behind and no command ran ahead. `Filed` is about the children: the file is
  the write child's environment, what the read child says next (`Sight`, its
  view, or the file it will load) is no newer, and the one command that waits
  for its answer to be taken says what is so. `Rising` is about the panel: what
  is shown is no newer than any answer on its way, the answers come in the order
  of what they say, and none is newer than `Sight`. The read child's death is
  what lets `Sight` catch up with a command's result before anything older is
  read. Lost reads, failed and rejected commands need no excuse: they show
  nothing older.
* `PanelIsFresh` speaks of quiet states. Inductive is that an answer that does
  not tell the environment as it is now has a command's answer behind it, on its
  way (`Behind`) or still owed by the adapter (`Owed`), which makes the panel ask
  anew (`Current`, as long as nothing excuses it: `Followed`), and that a part
  that is out of date is behind a load that has not come that far (`Coming`, by
  the `Rank` of a load).
* `PanelShowsTheSelection` needs a comparison of loads: the selected item's is
  behind every other that is under way, in the line or in rank, so it is the last
  to show its item (`Lasting`, `Ahead`); that a dialog's handler that waits is
  about the item selected (`Mine`); that a read is rejected only for a command
  whose answer follows (`Rejections`); and what there is before an item is
  selected (`Opening`).

### EventSubscriptions

For any sets of effects and sorts and any numbers of runs, events and reloads,
under the ASSUMEs of the module:

| Theorem | Statement |
|---|---|
| `TypeCorrect` | `Spec => []TypeOK` |
| `SubscribersHearTheirEvents` | `Spec => []EverySubscriberHearsItsEvents` |
| `RefreshesForWhatIsShown` | `Spec => []RefreshesAreForWhatIsShown` |
| `LeftAreUnsubscribed` | `Spec => []LeftRunsAreUnsubscribed` |

* Requests are served in the order of the runs, so the identifier a run is given
  is its own number (`RequestsInOrder`, `IdentifiersAreNumbers`). That settles
  where an identifier is at any time: not served, on its way back, known to the
  page, given up.
* `HearInv` then says of each active run that what it heard, what the preload
  bridge holds for it and what is on its way make up what is due to it, in this
  order, and that nothing is held once the answer has come.
* `LeftInv`: a subscription of a run that was left has its `unsubscribe` on the way.

### What is only model-checked

* *Liveness*, which is out of TLAPS's reach: the full `ServiceCalls`
  specification, `EveryWriteSettles`, both `HandlersEnd` and `EventsAreHeard`.
* *The two violations*, which are counterexamples.

## 5. Plan

Done: all modules of section 2, and theorems that state every safety property of
every modelled component. Next, in this order:

1. `WorkRecords`: the mock adapter's approvals, turns, work items and incidents
   as one sequential module. Read so far: an item is closable after a failed
   validation, and while its workflow is not; the need for a rollback review or
   a reconciliation is never cleared; a steered item's plan stays resumable; a
   second message that awaits approval overwrites the one slot for its task.
2. `DesktopWindows` as operators with a reference definition.
3. The unwired `live/bridge.ts` as a variant of `LiveBridge`, to show what the
   identity checks of the handlers are for; calls issued by continuations.

## 6. Not modelled, and why

Rendering, styles, documentation text and test reporting have no protocol. IPC
channels forward and keep no state. Payload normalisation is pure
and large; only its folds of statuses could be wrong in a way that matters. The
editor and the calculator are sequential state over text. The `sbcl-agent`
runtime itself is another repository: `BridgeStore` models its environment by
identifier and effect, as the bridge script uses it.
