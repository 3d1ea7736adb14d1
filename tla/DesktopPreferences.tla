------------------------- MODULE DesktopPreferences -------------------------
(***************************************************************************)
(* Desktop preferences in the live adapter: getDesktopPreferences,         *)
(* setDesktopPreferences, focusWorkspace and their meeting with            *)
(* loadEnvironmentImage (src/main/live-host-adapter.ts).  The adapter      *)
(* keeps a copy of the preferences; the environment keeps them in its      *)
(* image, of which the read child and the write child each hold a copy.    *)
(* Writes wait for each other in a chain of promises, reads do not, and    *)
(* the write of preferences is the one write after which the read child is *)
(* not replaced.                                                           *)
(*                                                                         *)
(* The bridge is taken from module LiveBridge in its outline: requests of  *)
(* a route are served in order, and the loss of a child, or a line that is *)
(* not JSON, rejects all calls of the route.                               *)
(***************************************************************************)
EXTENDS Naturals, Sequences

CONSTANTS
  Caller,          \* calls a behaviour may make
  Setting,         \* the preferences other than lastWorkspace
  Value,           \* values of a preference
  Unset,           \* a preference that a patch or an environment does not have
  NoImage,         \* the memory of a child that has not loaded its environment
  Default,         \* the adapter's initial value of every preference
  Operations       \* what callers do

Op == {"get", "set", "focus", "load", "revert"}
Transition == {"load", "revert"}
Field == Setting \cup {"lastWorkspace"}
Route == {"read", "write"}

ASSUME ValueAssumption == Default \in Value /\ Unset \notin Value
ASSUME OperationAssumption == Operations \subseteq Op
ASSUME SettingAssumption == "lastWorkspace" \notin Setting

VARIABLES
  preferences,               \* the adapter's copy
  focusedWorkspaceOverride,  \* the workspace reads must show, or Unset
  bindingTransitionInFlight,
  writeQueue,                \* writes not settled yet, the running one first
  call,                      \* the calls
  pipe,                      \* requests a child has not served yet, by route
  memory,                    \* preferences in the memory of each child
  file,                      \* preferences in the state file
  settled,                   \* history: the value last acknowledged of each field
  due                        \* history: settled when a read was made

adapter == <<preferences, focusedWorkspaceOverride, bindingTransitionInFlight, writeQueue>>
images  == <<memory, file>>
vars    == <<adapter, call, pipe, images, settled, due>>

Preferences == [Field -> Value]
Partial     == [Field -> Value \cup {Unset}]
Nothing     == [f \in Field |-> Unset]
Only(f, v)  == [Nothing EXCEPT ![f] = v]

(* A merge that keeps nothing of the old value, for the mutation runs.     *)
PatchAlone(current, patch) == patch

(* mergeDesktopPreferences.                                                *)
Merge(current, patch) ==
  [f \in Field |-> IF patch[f] = Unset THEN current[f] ELSE patch[f]]

CallRecord ==
  [op : Op, state : {"idle", "queued", "sent", "answered", "done", "rejected"},
   patch : Partial,          \* what the caller sets
   next  : Partial,          \* what is sent, whole preferences
   data  : Partial]          \* what is answered, then what a read shows

TypeOK ==
  /\ preferences \in Preferences
  /\ focusedWorkspaceOverride \in Value \cup {Unset}
  /\ bindingTransitionInFlight \in BOOLEAN
  /\ writeQueue \in Seq(Caller)
  /\ call \in [Caller -> CallRecord]
  /\ pipe \in [Route -> Seq(Caller)]
  /\ memory \in [Route -> Partial \cup {NoImage}]
  /\ file \in Partial
  /\ settled \in Partial
  /\ due \in [Caller -> Partial]

Init ==
  /\ preferences = [f \in Field |-> Default]
  /\ focusedWorkspaceOverride = Unset
  /\ bindingTransitionInFlight = FALSE
  /\ writeQueue = <<>>
  /\ call = [c \in Caller |-> [op |-> "get", state |-> "idle", patch |-> Nothing,
                               next |-> Nothing, data |-> Nothing]]
  /\ pipe = [r \in Route |-> <<>>]
  /\ memory = [r \in Route |-> NoImage]
  /\ file \in {Nothing, [f \in Field |-> Default]}
  /\ settled = Nothing
  /\ due = [c \in Caller |-> Nothing]

RouteOf(op) == IF op = "get" THEN "read" ELSE "write"
InFlight(c) == call[c].state \in {"sent", "answered"}
IsWrite(c)  == call[c].op \in {"set", "focus"}

(* A queued write starts in a microtask of the step that settles the one   *)
(* before it: nothing comes in between.                                    *)
WriteStarts == writeQueue # <<>> /\ call[Head(writeQueue)].state = "queued"

Send(c) == pipe' = [pipe EXCEPT ![RouteOf(call'[c].op)] = Append(@, c)]
-----------------------------------------------------------------------------
(* Reading.                                                                *)
Get(c) ==
  /\ ~ WriteStarts /\ "get" \in Operations /\ call[c].state = "idle"
  /\ call' = [call EXCEPT ![c].op = "get", ![c].state = "sent"]
  /\ Send(c)
  /\ due' = [due EXCEPT ![c] = settled]
  /\ UNCHANGED <<adapter, images, settled>>

(* A read that forgets the focused workspace, for the mutation runs.       *)
ReadUnfocused(data) == Merge(preferences, data)

(* getDesktopPreferences after its await.                                  *)
Read(data) ==
  [Merge(preferences, data) EXCEPT !["lastWorkspace"] =
     IF focusedWorkspaceOverride = Unset THEN @ ELSE focusedWorkspaceOverride]

GetDone(c) ==
  /\ ~ WriteStarts /\ call[c].op = "get" /\ call[c].state = "answered"
  /\ preferences' = Read(call[c].data)
  /\ call' = [call EXCEPT ![c].state = "done", ![c].data = preferences']
  /\ UNCHANGED <<focusedWorkspaceOverride, bindingTransitionInFlight, writeQueue, pipe,
                 images, settled, due>>
-----------------------------------------------------------------------------
(* Writing.                                                                *)

(* A later write of a field makes earlier promises about it void.          *)
Unsettle(f) ==
  /\ settled' = [settled EXCEPT ![f] = Unset]
  /\ due' = [c \in Caller |-> [due[c] EXCEPT ![f] = Unset]]

Enqueue(c, op, f, v) ==
  /\ ~ WriteStarts /\ op \in Operations /\ call[c].state = "idle"
  /\ call' = [call EXCEPT ![c].op = op, ![c].state = "queued", ![c].patch = Only(f, v)]
  /\ writeQueue' = Append(writeQueue, c)
  /\ Unsettle(f)
  /\ UNCHANGED <<bindingTransitionInFlight, pipe, images>>

Set(c) ==
  \E f \in Field, v \in Value :
    /\ Enqueue(c, "set", f, v)
    /\ UNCHANGED <<preferences, focusedWorkspaceOverride>>

Focus(c) ==
  \E v \in Value :
    /\ Enqueue(c, "focus", "lastWorkspace", v)
    /\ focusedWorkspaceOverride' = v
    /\ preferences' = [preferences EXCEPT !["lastWorkspace"] = v]

Focused(patch) ==
  IF patch["lastWorkspace"] = Unset THEN focusedWorkspaceOverride ELSE patch["lastWorkspace"]

(* A write of what the caller gave alone, for the mutation runs.           *)
SentPatchOnly(patch) == Merge([f \in Field |-> Default], patch)

(* The service is sent whole preferences, as the adapter knows them when   *)
(* the write starts.                                                       *)
Sent(patch) == Merge(preferences, patch)

(* While a load is in flight a write stays in the adapter.                 *)
StartWrite ==
  LET c == Head(writeQueue)
  IN /\ WriteStarts
     /\ IF bindingTransitionInFlight
        THEN /\ preferences' = Merge(preferences, call[c].patch)
             /\ focusedWorkspaceOverride' = Focused(call[c].patch)
             /\ writeQueue' = Tail(writeQueue)
             /\ call' = [call EXCEPT ![c].state = "done"]
             /\ UNCHANGED pipe
        ELSE /\ call' = [call EXCEPT ![c].state = "sent", ![c].next = Sent(call[c].patch)]
             /\ Send(c)
             /\ UNCHANGED <<preferences, focusedWorkspaceOverride, writeQueue>>
     /\ UNCHANGED <<bindingTransitionInFlight, images, settled, due>>

(* What the acknowledgement of c settles: its field, unless a later write  *)
(* of it is under way, the service refused, or the image is changing.      *)
Acknowledged(c) ==
  [f \in Field |->
     IF /\ call[c].patch[f] # Unset
        /\ \A d \in Caller \ {c} : call[d].state \in {"queued", "sent", "answered"} =>
             call[d].op \notin Transition /\ call[d].patch[f] = Unset
        /\ call[c].data # Nothing
     THEN call[c].patch[f] ELSE settled[f]]

(* setDesktopPreferences after its await.  The status is not looked at.    *)
WriteDone ==
  LET c == Head(writeQueue)
  IN /\ writeQueue # <<>> /\ call[c].state = "answered"
     /\ preferences' = Merge(call[c].next, call[c].data)
     /\ focusedWorkspaceOverride' = Focused(call[c].patch)
     /\ writeQueue' = Tail(writeQueue)
     /\ call' = [call EXCEPT ![c].state = "done"]
     /\ settled' = Acknowledged(c)
     /\ UNCHANGED <<bindingTransitionInFlight, pipe, images, due>>
-----------------------------------------------------------------------------
(* Losing calls and children.                                              *)

(* A chain that stops at a write that fails, for the mutation runs.        *)
QueueBlocked(R) == writeQueue

(* The catch in front of each write lets the next one start.  Of the       *)
(* writes that wait for each other only the first can be in flight.        *)
QueueAfterReject(R) ==
  IF writeQueue # <<>> /\ InFlight(Head(writeQueue)) /\ RouteOf(call[Head(writeQueue)].op) \in R
  THEN Tail(writeQueue) ELSE writeQueue

RejectRoutes(R) ==
  /\ call' = [c \in Caller |-> IF InFlight(c) /\ RouteOf(call[c].op) \in R
                               THEN [call[c] EXCEPT !.state = "rejected"] ELSE call[c]]
  /\ writeQueue' = QueueAfterReject(R)

DropChildren(R) ==
  /\ pipe' = [r \in Route |-> IF r \in R THEN <<>> ELSE pipe[r]]
  /\ memory' = [r \in Route |-> IF r \in R THEN NoImage ELSE memory[r]]

LoadInFlight == \E c \in Caller : InFlight(c) /\ call[c].op = "load"

(* The current child of a route dies, or is killed by the response of some *)
(* other write.                                                            *)
LoseChild(r) ==
  /\ ~ WriteStarts
  /\ memory[r] # NoImage \/ pipe[r] # <<>>
  /\ RejectRoutes({r})
  /\ DropChildren({r})
  /\ bindingTransitionInFlight' = (bindingTransitionInFlight /\ ~ (r = "write" /\ LoadInFlight))
  /\ UNCHANGED <<preferences, focusedWorkspaceOverride, file, settled, due>>

(* A line that is not JSON: the child goes on serving what it was sent.    *)
Malformed(r) ==
  /\ ~ WriteStarts
  /\ \E c \in Caller : InFlight(c) /\ RouteOf(call[c].op) = r
  /\ RejectRoutes({r})
  /\ bindingTransitionInFlight' = (bindingTransitionInFlight /\ ~ (r = "write" /\ LoadInFlight))
  /\ UNCHANGED <<preferences, focusedWorkspaceOverride, pipe, images, settled, due>>
-----------------------------------------------------------------------------
(* The children.                                                           *)

Image(r) == IF memory[r] = NoImage THEN file ELSE memory[r]

(* A load or revert replaces the image, and its preferences with it.       *)
Served(c, r) ==
  CASE call[c].op = "get"  -> {<<Image(r), Image(r)>>}
    [] call[c].op \in Transition ->
         {<<Image(r), Nothing>>} \cup
           {<<[f \in Field |-> v], [f \in Field |-> v]>> : v \in Value}
    [] OTHER               -> {<<call[c].next, call[c].next>>, <<Image(r), Nothing>>}

(* The child keeps and saves its image whatever the request was.           *)
Serve(r) ==
  LET c == Head(pipe[r])
  IN /\ ~ WriteStarts /\ pipe[r] # <<>>
     /\ \E s \in Served(c, r) :
          /\ memory' = [memory EXCEPT ![r] = s[1]]
          /\ file' = s[1]
          /\ call' = IF call[c].state = "sent"
                     THEN [call EXCEPT ![c].state = "answered", ![c].data = s[2]] ELSE call
     /\ pipe' = [pipe EXCEPT ![r] = Tail(@)]
     /\ settled' = IF call[c].op \in Transition THEN Nothing ELSE settled
     /\ due' = IF call[c].op \in Transition THEN [d \in Caller |-> Nothing] ELSE due
     /\ UNCHANGED adapter

(* A request of some other part of the application.                        *)
ServeOther(r) ==
  /\ ~ WriteStarts /\ pipe[r] = <<>>
  /\ memory' = [memory EXCEPT ![r] = Image(r)]
  /\ file' = Image(r)
  /\ UNCHANGED <<adapter, call, pipe, settled, due>>
-----------------------------------------------------------------------------
(* Loading an image and reverting to it.                                   *)

(* A load that does not raise the flag, for the mutation runs.             *)
FlagNotRaised == bindingTransitionInFlight

FlagRaised == TRUE

(* Only loadEnvironmentImage raises it.                                    *)
StartTransition(c) ==
  \E op \in Operations \cap Transition :
  /\ ~ WriteStarts /\ call[c].state = "idle"
  /\ call' = [call EXCEPT ![c].op = op, ![c].state = "sent"]
  /\ Send(c)
  /\ bindingTransitionInFlight' = IF op = "load" THEN FlagRaised ELSE bindingTransitionInFlight
  /\ UNCHANGED <<preferences, focusedWorkspaceOverride, writeQueue, images, settled, due>>

(* After the await: both children are replaced, and the adapter keeps its  *)
(* copy.                                                                   *)
FinishTransition(c) ==
  /\ ~ WriteStarts /\ call[c].op \in Transition /\ call[c].state = "answered"
  /\ call' = [d \in Caller |-> IF d = c THEN [call[d] EXCEPT !.state = "done"]
                               ELSE IF InFlight(d) THEN [call[d] EXCEPT !.state = "rejected"]
                               ELSE call[d]]
  /\ writeQueue' = QueueAfterReject(Route)
  /\ DropChildren(Route)
  /\ bindingTransitionInFlight' =
       (bindingTransitionInFlight /\ call[c].op # "load" /\ ~ LoadInFlight)
  /\ UNCHANGED <<preferences, focusedWorkspaceOverride, file, settled, due>>

Next ==
  \/ \E c \in Caller : \/ Get(c) \/ GetDone(c) \/ Set(c) \/ Focus(c)
                       \/ StartTransition(c) \/ FinishTransition(c)
  \/ StartWrite \/ WriteDone
  \/ \E r \in Route : LoseChild(r) \/ Malformed(r) \/ Serve(r) \/ ServeOther(r)

Spec == Init /\ [][Next]_vars

(* Node runs the microtask and delivers what has arrived, and a child      *)
(* serves what it was sent.                                                *)
Fairness ==
  /\ WF_vars(StartWrite) /\ WF_vars(WriteDone)
  /\ \A c \in Caller : WF_vars(FinishTransition(c))
  /\ \A r \in Route : WF_vars(Serve(r))

FairSpec == Spec /\ Fairness
-----------------------------------------------------------------------------
(* Properties.                                                             *)

(* A read made after a workspace was focused, and the focus acknowledged,  *)
(* shows that workspace, although the read child answers from an older     *)
(* image (the use of focusedWorkspaceOverride in getDesktopPreferences).   *)
(* Of every other preference such a read may show an older value.          *)
FocusIsShown ==
  \A c \in Caller :
    call[c].op = "get" /\ call[c].state = "done" =>
      due[c]["lastWorkspace"] \in {Unset, call[c].data["lastWorkspace"]}

(* A load that is waited for has no write of preferences behind it in the  *)
(* pipe: such a write carries the preferences of the environment that is   *)
(* being replaced (bindingTransitionInFlight in setDesktopPreferences).    *)
NoWriteBehindALoad ==
  \A i, j \in DOMAIN pipe["write"] :
    LET c == pipe["write"][i]  d == pipe["write"][j]
    IN i < j /\ call[c].op = "load" /\ call[c].state = "sent" => ~ IsWrite(d)

(* Writes of different preferences do not undo each other: until a read is *)
(* merged into the adapter's copy, an acknowledged value leaves the image  *)
(* of the write child only when that child is lost, or a later write of it *)
(* is made (the chain of setDesktopPreferences, and merging when a write   *)
(* starts).                                                                *)
Remembered(f) == memory["write"] # NoImage /\ memory["write"][f] = settled[f]
HasRead == \E c \in Caller : call[c].op = "get" /\ call[c].state = "done"

OnlyTheWriterForgets ==
  [][\A f \in Field :
       settled[f] # Unset /\ Remembered(f) /\ ~ Remembered(f)' /\ ~ HasRead =>
         settled'[f] = Unset \/ memory'["write"] = NoImage]_vars

(* Every write is settled, whatever became of the ones before it.          *)
EveryWriteSettles ==
  \A c \in Caller : call[c].state = "queued" ~> call[c].state \in {"done", "rejected"}
=============================================================================
