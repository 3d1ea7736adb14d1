---------------------------- MODULE ShellLayout ----------------------------
(***************************************************************************)
(* The panels of the shell: shellLayoutReducer of                          *)
(* src/renderer/src/shell-layout.ts with the handlers of App.tsx that      *)
(* dispatch to it, the hydration of the layout from the environment's      *)
(* preferences and its way back into them.                                 *)
(*                                                                         *)
(* App keeps the layout twice: in the state of React's reducer and in a    *)
(* ref, with which handlers compute what they persist, and which every     *)
(* render sets to the state.  Actions that come before the preferences are *)
(* read are applied at once, persisted, and applied again to what is read. *)
(* Columns' widths in pixels are left out but for the width that is kept.  *)
(***************************************************************************)
EXTENDS Naturals, FiniteSets, SequencesExt

CONSTANTS
  Panel,           \* SHELL_DOCK_PANEL_DEFINITIONS
  LeftDefault,     \* panels of the left rail if nothing else is known, in their order
  RightDefault,    \* and of the right rail
  NoPanel,         \* no active panel
  Width,           \* widths a rail is dragged to
  DefaultWidth,    \* the width of a rail that never had one, for this viewport
  NoWidth,         \* such a rail's width
  Images,          \* layouts an environment may have stored at launch
  NoLayout,        \* no relaunch yet
  Faults,          \* "read": the preferences cannot be read.  "write": they cannot be written
  MaxLoads,        \* startup handlers of a launch, those that failed among them
  MaxActs          \* what the user does

ASSUME PanelAssumption ==
  /\ NoPanel \notin Panel
  /\ LeftDefault \in Seq(Panel) /\ RightDefault \in Seq(Panel)
  /\ LeftDefault # <<>> /\ RightDefault # <<>>
ASSUME WidthAssumption == NoWidth \notin Width /\ DefaultWidth \in Width
ASSUME FaultAssumption == Faults \subseteq {"read", "write"}
ASSUME BoundAssumption == MaxLoads \in Nat /\ MaxActs \in Nat

RailId == {"left", "right"}
Rail   == [expanded : BOOLEAN, width : Width \cup {NoWidth},
           docked : Seq(Panel), active : Panel \cup {NoPanel}]
Layout == [rail : [RailId -> Rail], canvas : BOOLEAN, undocked : SUBSET Panel]
Patch  == [rail : [RailId -> Rail], canvas : BOOLEAN]

\* What this shell has stored: no rail is empty, and no panel is in two.
ASSUME ImageAssumption ==
  \A p \in Images :
    /\ p \in Patch
    /\ \A r \in RailId : p.rail[r].docked # <<>>
    /\ ToSet(p.rail["left"].docked) \cap ToSet(p.rail["right"].docked) = {}

VARIABLES
  layout,          \* shellLayoutRef
  shown,           \* shellLayout, the reducer's state
  pending,         \* shellPendingHydrationActionsRef
  hydrated,        \* desktopPreferencesHydratedRef
  visible,         \* the startup handlers have made way for the shell
  dragging,        \* the rail whose splitter is held
  loads,           \* calls of loadInitialState
  writes,          \* preferences on their way to the environment
  stored,          \* the layout in the environment's preferences
  before,          \* history: what was shown before the relaunch; the second launch is only looked at
  crossed,         \* history: an action came while the preferences were not read or read again
  lost,            \* history: a write was rejected
  acts             \* how much was done

renderer == <<layout, shown, pending, hydrated, visible, dragging, loads>>
vars == <<renderer, writes, stored, before, crossed, lost, acts>>

Docked(l, r) == ToSet(l.rail[r].docked)
-----------------------------------------------------------------------------
(* The reducer.                                                            *)

DefaultDocked(r) == IF r = "left" THEN LeftDefault ELSE RightDefault

(* dedupePanelIds, and the filters with which a panel leaves a rail: the   *)
(* panels that are not in "gone", each where it comes first.               *)
Kept(panels, gone) ==
  LET kept[k \in 0..Len(panels)] ==
        IF k = 0 THEN <<>>
        ELSE IF panels[k] \in gone \cup ToSet(kept[k - 1]) THEN kept[k - 1]
        ELSE Append(kept[k - 1], panels[k])
  IN kept[Len(panels)]

Deduped(panels) == Kept(panels, {})

\* An active panel left to a rail that lost it, for the mutation runs.
ActiveKept(rail, r) == [rail EXCEPT !.docked = IF @ = <<>> THEN DefaultDocked(r) ELSE Deduped(@)]

\* normalizeRailState: no rail is empty, and its active panel is one of its own.
Normalized(rail, r) ==
  LET panels == IF rail.docked = <<>> THEN DefaultDocked(r) ELSE Deduped(rail.docked)
  IN [rail EXCEPT !.docked = panels,
                  !.active = IF @ \in ToSet(panels) THEN @ ELSE panels[1]]

WithRail(l, r, rail) == [l EXCEPT !.rail[r] = Normalized(rail, r)]

\* createDefaultShellLayoutState: a panel of neither rail is nowhere.
DefaultRail(r) ==
  [expanded |-> TRUE, width |-> NoWidth, docked |-> DefaultDocked(r), active |-> DefaultDocked(r)[1]]
DefaultLayout == [rail |-> [r \in RailId |-> DefaultRail(r)], canvas |-> TRUE, undocked |-> {}]

\* shellLayoutToDesktopPreferencesPatch.
ToPreferences(l) == [rail |-> l.rail, canvas |-> l.canvas]

\* deriveUndockedPanelIdsFromRails: a panel of neither rail floats.
DeriveUndocked(rails) == Panel \ UNION {ToSet(rails[r].docked) : r \in RailId}

\* createShellLayoutStateFromPreferences.
FromPreferences(p) ==
  LET rails == [r \in RailId |-> Normalized(p.rail[r], r)]
  IN [rail |-> rails, canvas |-> p.canvas, undocked |-> DeriveUndocked(rails)]

\* A rail taken out of and put back with what it holds, panel p aside.
Without(rail, p) ==
  LET rest == Kept(rail.docked, {p})
  IN [rail EXCEPT !.docked = rest,
                  !.active = IF @ # p THEN @ ELSE IF rest = <<>> THEN NoPanel ELSE rest[1]]

ToggleRail(l, r) ==
  [l EXCEPT !.rail[r].expanded = ~ @,
            !.rail[r].width = IF r = "left" /\ ~ l.rail[r].expanded /\ @ = NoWidth
                              THEN DefaultWidth ELSE @]

\* A rail gives up its last panel, for the mutation runs.
UndockAny(l, r, p) == p \in Docked(l, r)

Undockable(l, r, p) == p \in Docked(l, r) /\ Len(l.rail[r].docked) > 1

RailsOf(l, p) == {r \in RailId : p \in Docked(l, r)}

Undock(l, p) ==
  LET r == IF p \in Docked(l, "left") THEN "left" ELSE "right"
  IN IF ~ Undockable(l, r, p) THEN l
     ELSE [WithRail(l, r, Without(l.rail[r], p)) EXCEPT !.undocked = @ \cup {p}]

\* dock_panel, its first half: the rail that had the panel gives it up.
Lift(l, p) ==
  IF RailsOf(l, p) = {} THEN l
  ELSE LET r == IF p \in Docked(l, "left") THEN "left" ELSE "right"
       IN WithRail(l, r, Without(l.rail[r], p))

\* And its second.
Dock(l, p, r) ==
  LET lifted == Lift(l, p)
      rest   == Without(lifted.rail[r], p)
      rail   == [rest EXCEPT !.docked = Append(@, p), !.active = p]
  IN [WithRail(lifted, r, rail) EXCEPT !.undocked = @ \ {p}]

Reorder(l, r, panels) ==
  LET rail == l.rail[r]
  IN WithRail(l, r, [rail EXCEPT !.docked = panels,
                                 !.active = IF @ \in ToSet(panels) THEN @ ELSE panels[1]])

\* What the handlers dispatch.
Action(type, r, p, panels, w) == [type |-> type, rail |-> r, panel |-> p, panels |-> panels, width |-> w]
Simple(type) == Action(type, "right", NoPanel, <<>>, NoWidth)

Actions == [type : {"toggle", "toggle_canvas", "expand_right_rail", "activate", "reorder", "undock",
                    "dock", "set_width"},
            rail : RailId, panel : Panel \cup {NoPanel}, panels : Seq(Panel), width : Width \cup {NoWidth}]

Reduce(l, a) ==
  CASE a.type = "toggle"            -> ToggleRail(l, a.rail)
    [] a.type = "toggle_canvas"     -> [l EXCEPT !.canvas = ~ @]
    [] a.type = "expand_right_rail" -> [l EXCEPT !.rail["right"].expanded = TRUE]
    [] a.type = "activate"          -> WithRail(l, a.rail, [l.rail[a.rail] EXCEPT !.active = a.panel])
    [] a.type = "reorder"           -> Reorder(l, a.rail, a.panels)
    [] a.type = "undock"            -> Undock(l, a.panel)
    [] a.type = "dock"              -> Dock(l, a.panel, a.rail)
    [] a.type = "set_width"         -> [l EXCEPT !.rail[a.rail].width = a.width]
-----------------------------------------------------------------------------
Load == [phase : {"idle", "chosen", "reading", "bootstrapping", "over"}, next : Layout]

(* Values have their types, no rail is empty and its active panel is one   *)
(* of its own.                                                             *)
TypeOK ==
  /\ layout \in Layout /\ shown \in Layout
  /\ \A r \in RailId : layout.rail[r].active \in Docked(layout, r) /\ shown.rail[r].active \in Docked(shown, r)
  /\ pending \in Seq(Actions)
  /\ hydrated \in BOOLEAN /\ visible \in BOOLEAN
  /\ dragging \in RailId \cup {"none"}
  /\ loads \in [1..MaxLoads -> Load]
  /\ writes \in Seq(Patch) /\ stored \in Patch
  /\ before \in Layout \cup {NoLayout}
  /\ crossed \in BOOLEAN /\ lost \in BOOLEAN /\ acts \in 0..MaxActs

NotLoaded == [phase |-> "idle", next |-> DefaultLayout]

Mounted ==
  /\ layout = DefaultLayout /\ shown = DefaultLayout
  /\ pending = <<>> /\ hydrated = FALSE /\ visible = FALSE /\ dragging = "none"
  /\ loads = [i \in 1..MaxLoads |-> NotLoaded]

Init ==
  /\ Mounted
  /\ writes = <<>> /\ stored \in Images
  /\ before = NoLayout /\ crossed = FALSE /\ lost = FALSE /\ acts = 0
-----------------------------------------------------------------------------
(* What the user does.                                                     *)

UnderWay(i) == loads[i].phase \in {"reading", "bootstrapping"}

Crossing == crossed' = (crossed \/ ~ hydrated \/ \E i \in 1..MaxLoads : UnderWay(i))

\* applyShellLayoutAction.
Apply(a) ==
  /\ layout' = Reduce(layout, a) /\ shown' = Reduce(shown, a)
  /\ pending' = IF hydrated THEN pending ELSE Append(pending, a)
  /\ Crossing

\* A change that is not written, for the mutation runs.
PersistNothing(l) == UNCHANGED writes

\* persistResolvedShellLayout, on its way to the environment.
Persist(l) == writes' = Append(writes, ToPreferences(l))

Act ==
  /\ visible /\ before = NoLayout /\ acts < MaxActs /\ acts' = acts + 1
  /\ UNCHANGED <<hydrated, visible, loads, stored, before, lost>>

ApplyAndPersist(a) == Act /\ Apply(a) /\ Persist(layout') /\ UNCHANGED dragging

Toggle(r) == dragging = "none" /\ ApplyAndPersist(Action("toggle", r, NoPanel, <<>>, NoWidth))
ToggleCanvas == dragging = "none" /\ ApplyAndPersist(Simple("toggle_canvas"))
ExpandRight ==
  dragging = "none" /\ ~ shown.rail["right"].expanded /\ ApplyAndPersist(Simple("expand_right_rail"))

\* Panels are listed in rails that are expanded.
Listed(r, p) == dragging = "none" /\ shown.rail[r].expanded /\ p \in Docked(shown, r)

UndockPanel(p) ==
  /\ \E r \in RailId : Listed(r, p)
  /\ ApplyAndPersist(Action("undock", "left", p, <<>>, NoWidth))

DockPanel(p, r) ==
  /\ dragging = "none" /\ p \in shown.undocked
  /\ ApplyAndPersist(Action("dock", r, p, <<>>, NoWidth))

\* reorderShellRailPanel: two neighbours change places.
Swapped(panels, i) ==
  [k \in DOMAIN panels |-> IF k = i THEN panels[i + 1] ELSE IF k = i + 1 THEN panels[i] ELSE panels[k]]

MovePanel(r, i) ==
  /\ i \in DOMAIN layout.rail[r].docked /\ i + 1 \in DOMAIN layout.rail[r].docked
  /\ Listed(r, layout.rail[r].docked[i])
  /\ ApplyAndPersist(Action("reorder", r, NoPanel, Swapped(layout.rail[r].docked, i), NoWidth))

\* A click in the list of a rail, or a panel of the other rail dropped onto it.
Activate(r, p) ==
  /\ Listed(r, p) \/ (Listed(CHOOSE s \in RailId : s # r, p) /\ shown.rail[r].expanded)
  /\ Act /\ Apply(Action("activate", r, p, <<>>, NoWidth))
  /\ UNCHANGED <<dragging, writes>>

(* A splitter is held, moved and released; the width is persisted when it  *)
(* is released.                                                            *)
Hold(r) ==
  /\ dragging = "none" /\ shown.rail[r].expanded /\ shown.canvas
  /\ Act /\ dragging' = r
  /\ UNCHANGED <<layout, shown, pending, writes, crossed>>

Drag(w) ==
  /\ dragging # "none" /\ Act
  /\ Apply(Action("set_width", dragging, NoPanel, <<>>, w))
  /\ UNCHANGED <<dragging, writes>>

Release ==
  /\ dragging # "none" /\ dragging' = "none"
  /\ Persist(layout) /\ Crossing
  /\ UNCHANGED <<layout, shown, pending, hydrated, visible, loads, stored, before, lost, acts>>

\* Every render of App.
Render ==
  /\ layout # shown /\ layout' = shown
  /\ UNCHANGED <<shown, pending, hydrated, visible, dragging, loads, writes, stored, before, crossed,
                 lost, acts>>
-----------------------------------------------------------------------------
(* The startup handlers and loadInitialState.                              *)

\* The startup handler waits for its image, or is in loadInitialState.
Busy(i) == loads[i].phase = "chosen" \/ UnderWay(i)

(* An image is opened or created.  The button of each of the two is        *)
(* disabled while it works, and the buttons are gone with the chooser.     *)
Choose(i) ==
  /\ ~ visible
  /\ loads[i].phase = "idle" /\ \A j \in 1..(i - 1) : loads[j].phase # "idle"
  /\ \A j, k \in 1..MaxLoads : Busy(j) /\ Busy(k) => j = k
  /\ loads' = [loads EXCEPT ![i].phase = "chosen"]
  /\ UNCHANGED <<layout, shown, pending, hydrated, visible, dragging, writes, stored, before, crossed,
                 lost, acts>>

\* The image could not be opened or created, which is reported.
Refuse(i) ==
  /\ "read" \in Faults /\ loads[i].phase = "chosen"
  /\ loads' = [loads EXCEPT ![i].phase = "over"]
  /\ UNCHANGED <<layout, shown, pending, hydrated, visible, dragging, writes, stored, before, crossed,
                 lost, acts>>

StartLoad(i) ==
  /\ loads[i].phase = "chosen"
  /\ loads' = [loads EXCEPT ![i].phase = "reading"]
  /\ hydrated' = FALSE
  /\ UNCHANGED <<layout, shown, pending, visible, dragging, writes, stored, before, crossed, lost, acts>>

\* What was done before is done again to what was read.
Hydrated(p) ==
  LET redone[k \in 0..Len(pending)] ==
        IF k = 0 THEN FromPreferences(p) ELSE Reduce(redone[k - 1], pending[k])
  IN redone[Len(pending)]

Read(i) ==
  /\ loads[i].phase = "reading"
  /\ LET next == Hydrated(stored)
     IN /\ loads' = [loads EXCEPT ![i] = [phase |-> "bootstrapping", next |-> next]]
        /\ layout' = next /\ shown' = next
  /\ UNCHANGED <<pending, hydrated, visible, dragging, writes, stored, before, crossed, lost, acts>>

Finish(i) ==
  /\ loads[i].phase = "bootstrapping"
  /\ loads' = [loads EXCEPT ![i] = [NotLoaded EXCEPT !.phase = "over"]]
  /\ layout' = loads[i].next
  /\ hydrated' = TRUE /\ pending' = <<>> /\ visible' = TRUE
  /\ Persist(loads[i].next)
  /\ UNCHANGED <<shown, dragging, stored, before, crossed, lost, acts>>

\* What loadInitialState could not read, it swallows.
Fail(i) ==
  /\ "read" \in Faults /\ UnderWay(i)
  /\ loads' = [loads EXCEPT ![i] = [NotLoaded EXCEPT !.phase = "over"]]
  /\ visible' = TRUE
  /\ UNCHANGED <<layout, shown, pending, hydrated, dragging, writes, stored, before, crossed, lost, acts>>

Store ==
  /\ writes # <<>> /\ writes' = Tail(writes) /\ stored' = Head(writes)
  /\ UNCHANGED <<renderer, before, crossed, lost, acts>>

LoseWrite ==
  /\ "write" \in Faults /\ writes # <<>> /\ writes' = Tail(writes) /\ lost' = TRUE
  /\ UNCHANGED <<renderer, stored, before, crossed, acts>>

Quiet ==
  /\ writes = <<>> /\ dragging = "none" /\ layout = shown
  /\ \A i \in 1..MaxLoads : ~ UnderWay(i)

\* The shell, with its layout read, is closed with its image saved and launched again.
Relaunch ==
  /\ hydrated /\ Quiet /\ before = NoLayout
  /\ before' = shown
  /\ layout' = DefaultLayout /\ shown' = DefaultLayout
  /\ pending' = <<>> /\ hydrated' = FALSE /\ visible' = FALSE /\ dragging' = "none"
  /\ loads' = [i \in 1..MaxLoads |-> NotLoaded]
  /\ UNCHANGED <<writes, stored, crossed, lost, acts>>
-----------------------------------------------------------------------------
Next ==
  \/ \E r \in RailId : Toggle(r) \/ Hold(r)
  \/ ToggleCanvas \/ ExpandRight
  \/ \E p \in Panel : UndockPanel(p) \/ \E r \in RailId : DockPanel(p, r) \/ Activate(r, p)
  \/ \E r \in RailId, i \in DOMAIN layout.rail["left"].docked \cup DOMAIN layout.rail["right"].docked :
       MovePanel(r, i)
  \/ \E w \in Width : Drag(w)
  \/ Release \/ Render
  \/ \E i \in 1..MaxLoads : Choose(i) \/ Refuse(i) \/ StartLoad(i) \/ Read(i) \/ Finish(i) \/ Fail(i)
  \/ Store \/ LoseWrite \/ Relaunch

Spec == Init /\ [][Next]_vars
-----------------------------------------------------------------------------
(* Properties.                                                             *)

(* Every panel is in the left rail, in the right rail or floating, and in  *)
(* one of them only: none is out of reach, and none is there twice         *)
(* (normalizeRailState refilling a rail, undock_panel, dock_panel,         *)
(* deriveUndockedPanelIdsFromRails).  An action that came while the        *)
(* preferences were being read is excepted: it is applied again to a       *)
(* layout it was not made for.                                             *)
EveryPanelHasOnePlace ==
  hydrated /\ ~ crossed =>
    /\ Docked(shown, "left") \cap Docked(shown, "right") = {}
    /\ shown.undocked = Panel \ (Docked(shown, "left") \cup Docked(shown, "right"))
    /\ \A r \in RailId : Len(shown.rail[r].docked) = Cardinality(Docked(shown, r))

(* What is on the screen apart from which panel of a rail is in front.     *)
Settled(l) ==
  [rails |-> [r \in RailId |-> [l.rail[r] EXCEPT !.active = NoPanel]],
   canvas |-> l.canvas, undocked |-> l.undocked]

(* After a relaunch the panels are where they were, in their order, and    *)
(* the rails as wide and as open as they were (what the tests "preserves   *)
(* reordered shell rail tabs", "preserves undocked shell panels" and       *)
(* "preserves shell collapse and resize behavior" ask for), unless a write *)
(* was rejected or an action came while the preferences were being read.   *)
LayoutSurvivesARelaunch ==
  before # NoLayout /\ hydrated /\ ~ crossed /\ ~ lost =>
    Settled(shown) = Settled(before)
=============================================================================
