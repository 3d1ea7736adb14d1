-------------------------- MODULE ShellLayout_proofs --------------------------
(***************************************************************************)
(* Theorems about ShellLayout, for any panels, widths and stored layouts   *)
(* and any numbers of startup handlers and acts: types, the place of each  *)
(* panel, and the layout after a relaunch.                                 *)
(***************************************************************************)
EXTENDS ShellLayout, SequenceTheorems, FiniteSetTheorems, WellFoundedInduction, TLAPS

USE PanelAssumption, WidthAssumption, FaultAssumption, BoundAssumption
-----------------------------------------------------------------------------
(* What a loop over a sequence computes.                                   *)

\* A set of numbers has a least one: this is how the lemmas below go along a loop.
LEMMA Least ==
  ASSUME NEW T, T \subseteq Nat, T # {}
  PROVE  \E m \in T : \A n \in T : m <= n
<1>. DEFINE less == OpToRel(<, Nat)
<1>1. \A a, b \in Nat : a < b => <<a, b>> \in less
  BY DEF OpToRel
<1>2. IsWellFoundedOn(less, Nat)
  BY NatLessThanWellFounded
<1>. HIDE DEF less
<1>3. PICK m \in T : \A n \in T : ~ (<<n, m>> \in less)
  BY <1>2, WFMin
<1>4. ASSUME NEW n \in T PROVE m <= n
  <2>1. m \in Nat /\ n \in Nat
    OBVIOUS
  <2>2. ~ (n < m)
    BY <1>1, <1>3, <2>1
  <2>. QED BY <2>1, <2>2
<1>. QED BY <1>4

LEMMA SequenceFacts ==
  ASSUME NEW S, NEW q \in Seq(S)
  PROVE  /\ Len(q) \in Nat /\ DOMAIN q = 1..Len(q)
         /\ \A k \in DOMAIN q : q[k] \in S
         /\ ToSet(q) \subseteq S
         /\ q = <<>> <=> DOMAIN q = {}
         /\ q = <<>> <=> ToSet(q) = {}
         /\ q # <<>> => 1 \in DOMAIN q /\ q[1] \in ToSet(q)
BY EmptySeq, LenProperties, ElementOfSeq DEF ToSet

NoRepeat(q) == \A j, k \in DOMAIN q : q[j] = q[k] => j = k

LEMMA AppendFacts ==
  ASSUME NEW S, NEW q \in Seq(S), NEW e \in S
  PROVE  LET n == Len(q) + 1
         IN /\ Append(q, e) \in Seq(S) /\ Append(q, e) # <<>>
            /\ Len(Append(q, e)) = n /\ DOMAIN Append(q, e) = 1..n
            /\ Append(q, e)[n] = e
            /\ \A k \in 1..Len(q) : Append(q, e)[k] = q[k]
            /\ ToSet(Append(q, e)) = ToSet(q) \cup {e}
            /\ NoRepeat(q) /\ e \notin ToSet(q) => NoRepeat(Append(q, e))
<1>. DEFINE n == Len(q) + 1
            line == Append(q, e)
<1>1. /\ line \in Seq(S) /\ line # <<>> /\ Len(line) = n /\ DOMAIN line = 1..n
      /\ line[n] = e /\ \A k \in 1..Len(q) : line[k] = q[k]
  BY AppendProperties, LenProperties
<1>2. Len(q) \in Nat /\ DOMAIN q = 1..Len(q)
  BY LenProperties
<1>. HIDE DEF line
<1>3. \A k \in 1..n : k = n \/ k \in 1..Len(q)
  BY <1>2
<1>4. ToSet(line) = ToSet(q) \cup {e}
  <2>1. \A x \in ToSet(line) : x \in ToSet(q) \cup {e}
    BY <1>1, <1>2, <1>3 DEF ToSet
  <2>2. \A x \in ToSet(q) \cup {e} : x \in ToSet(line)
    <3>1. n \in 1..n /\ \A k \in 1..Len(q) : k \in 1..n
      BY <1>2
    <3>. QED BY <1>1, <1>2, <3>1 DEF ToSet
  <2>. QED BY <2>1, <2>2
<1>5. ASSUME NoRepeat(q), e \notin ToSet(q) PROVE NoRepeat(line)
  <2>1. \A k \in 1..Len(q) : q[k] # e
    BY <1>2, <1>5 DEF ToSet
  <2>. QED BY <1>1, <1>2, <1>3, <1>5, <2>1 DEF NoRepeat
<1>. QED BY <1>1, <1>4, <1>5 DEF line

(* Kept: the table that its loop fills in.                                 *)
KeptTable(panels, gone, n, kept) ==
  kept = [k \in 0..n |->
            IF k = 0 THEN <<>>
            ELSE IF panels[k] \in gone \cup ToSet(kept[k - 1]) THEN kept[k - 1]
            ELSE Append(kept[k - 1], panels[k])]

LEMMA KeptHasTable ==
  ASSUME NEW panels, NEW gone, NEW n \in Nat
  PROVE  \E kept : KeptTable(panels, gone, n, kept)
<1>. DEFINE bad == {m \in Nat : ~ \E kept : KeptTable(panels, gone, m, kept)}
<1>. SUFFICES ASSUME bad # {} PROVE FALSE
  OBVIOUS
<1>1. PICK m \in bad : \A k \in bad : m <= k
  BY Least
<1>2. CASE m = 0
  <2>1. KeptTable(panels, gone, 0, [k \in 0..0 |-> <<>>])
    BY DEF KeptTable
  <2>. QED BY <1>1, <1>2, <2>1
<1>3. CASE m # 0
  <2>1. m - 1 \in Nat /\ m - 1 \notin bad
    BY <1>1, <1>3
  <2>2. PICK g : KeptTable(panels, gone, m - 1, g)
    BY <2>1
  <2>. DEFINE last == IF panels[m] \in gone \cup ToSet(g[m - 1]) THEN g[m - 1] ELSE Append(g[m - 1], panels[m])
              h == [k \in 0..m |-> IF k = m THEN last ELSE g[k]]
  <2>3. ASSUME NEW k \in 0..m
        PROVE  h[k] = IF k = 0 THEN <<>>
                      ELSE IF panels[k] \in gone \cup ToSet(h[k - 1]) THEN h[k - 1]
                      ELSE Append(h[k - 1], panels[k])
    <3>1. k # 0 => k - 1 \in 0..m /\ h[k - 1] = g[k - 1]
      BY <1>1, <1>3
    <3>2. CASE k = m
      BY <1>3, <3>1, <3>2
    <3>3. CASE k # m
      <4>1. k \in 0..(m - 1) /\ h[k] = g[k]
        BY <1>1, <3>3
      <4>2. g[k] = IF k = 0 THEN <<>>
                   ELSE IF panels[k] \in gone \cup ToSet(g[k - 1]) THEN g[k - 1]
                   ELSE Append(g[k - 1], panels[k])
        BY <2>2, <4>1 DEF KeptTable
      <4>. HIDE DEF h
      <4>. QED BY <3>1, <4>1, <4>2
    <3>. QED BY <3>2, <3>3
  <2>4. KeptTable(panels, gone, m, h)
    BY <2>3 DEF KeptTable
  <2>. QED BY <1>1, <2>4
<1>. QED BY <1>2, <1>3

Among(panels, n) == {panels[j] : j \in 1..n}

LEMMA KeptTables ==
  ASSUME NEW S, NEW panels \in Seq(S), NEW gone, NEW kept,
         KeptTable(panels, gone, Len(panels), kept), NEW n \in 0..Len(panels)
  PROVE  /\ kept[n] \in Seq(S)
         /\ NoRepeat(kept[n])
         /\ ToSet(kept[n]) = Among(panels, n) \ gone
         /\ NoRepeat(panels) /\ ToSet(panels) \cap gone = {} =>
              Len(kept[n]) = n /\ \A j \in 1..n : kept[n][j] = panels[j]
<1>. DEFINE Fine(k) ==
       /\ kept[k] \in Seq(S)
       /\ NoRepeat(kept[k])
       /\ ToSet(kept[k]) = Among(panels, k) \ gone
       /\ NoRepeat(panels) /\ ToSet(panels) \cap gone = {} =>
            Len(kept[k]) = k /\ \A j \in 1..k : kept[k][j] = panels[j]
            bad == {k \in 0..Len(panels) : ~ Fine(k)}
<1>1. Len(panels) \in Nat /\ DOMAIN panels = 1..Len(panels) /\ \A k \in 1..Len(panels) : panels[k] \in S
  BY SequenceFacts
<1>. SUFFICES ASSUME bad # {} PROVE FALSE
  OBVIOUS
<1>2. bad \subseteq Nat
  BY <1>1
<1>. HIDE DEF Fine
<1>3. PICK m \in bad : \A k \in bad : m <= k
  <2>. HIDE DEF bad
  <2>. QED BY <1>2, Least
<1>4. CASE m = 0
  <2>1. kept[0] = <<>>
    BY <1>1 DEF KeptTable
  <2>2. <<>> \in Seq(S) /\ Len(<<>>) = 0 /\ NoRepeat(<<>>) /\ ToSet(<<>>) = {}
    BY EmptySeq DEF NoRepeat, ToSet
  <2>3. Among(panels, 0) = {}
    BY DEF Among
  <2>4. Fine(0)
    BY <2>1, <2>2, <2>3 DEF Fine
  <2>. QED BY <1>3, <1>4, <2>4
<1>5. CASE m # 0
  <2>. DEFINE q == kept[m - 1]
              e == panels[m]
  <2>1. m \in 1..Len(panels) /\ m - 1 \in 0..Len(panels) /\ m - 1 \notin bad
    BY <1>1, <1>3, <1>5
  <2>2. Fine(m - 1)
    BY <2>1
  <2>3. kept[m] = IF e \in gone \cup ToSet(q) THEN q ELSE Append(q, e)
    BY <2>1, <1>5 DEF KeptTable
  <2>4. Among(panels, m) = Among(panels, m - 1) \cup {e}
    <3>1. 1..m = (1..(m - 1)) \cup {m}
      BY <2>1
    <3>. QED BY <3>1 DEF Among
  <2>5. q \in Seq(S) /\ NoRepeat(q) /\ ToSet(q) = Among(panels, m - 1) \ gone /\ e \in S
    BY <1>1, <2>1, <2>2 DEF Fine
  <2>6. ASSUME NoRepeat(panels), ToSet(panels) \cap gone = {}
        PROVE  /\ Len(q) = m - 1 /\ \A j \in 1..(m - 1) : q[j] = panels[j]
               /\ e \notin gone \cup ToSet(q)
    <3>1. Len(q) = m - 1 /\ \A j \in 1..(m - 1) : q[j] = panels[j]
      BY <2>2, <2>6 DEF Fine
    <3>2. e \notin gone
      BY <1>1, <2>1, <2>6 DEF ToSet
    <3>3. e \notin ToSet(q)
      <4>. SUFFICES ASSUME e \in ToSet(q) PROVE FALSE
        OBVIOUS
      <4>1. PICK j \in 1..(m - 1) : panels[j] = e
        BY <2>5 DEF Among
      <4>2. j \in DOMAIN panels /\ m \in DOMAIN panels /\ j # m
        BY <1>1, <2>1
      <4>. QED BY <2>6, <4>1, <4>2 DEF NoRepeat
    <3>. QED BY <3>1, <3>2, <3>3
  <2>. HIDE DEF q, e
  <2>7. CASE e \in gone \cup ToSet(q)
    <3>1. kept[m] = q
      BY <2>3, <2>7
    <3>2. ToSet(q) = Among(panels, m) \ gone
      BY <2>4, <2>5, <2>7
    <3>. QED BY <1>3, <2>5, <2>6, <2>7, <3>1, <3>2 DEF Fine
  <2>8. CASE e \notin gone \cup ToSet(q)
    <3>1. kept[m] = Append(q, e)
      BY <2>3, <2>8
    <3>2. /\ Append(q, e) \in Seq(S) /\ NoRepeat(Append(q, e)) /\ ToSet(Append(q, e)) = ToSet(q) \cup {e}
          /\ Len(Append(q, e)) = Len(q) + 1 /\ Append(q, e)[Len(q) + 1] = e
          /\ \A k \in 1..Len(q) : Append(q, e)[k] = q[k]
      BY <2>5, <2>8, AppendFacts
    <3>3. ToSet(kept[m]) = Among(panels, m) \ gone
      BY <2>4, <2>5, <2>8, <3>1, <3>2
    <3>4. ASSUME NoRepeat(panels), ToSet(panels) \cap gone = {}
          PROVE  Len(kept[m]) = m /\ \A j \in 1..m : kept[m][j] = panels[j]
      <4>1. Len(q) = m - 1 /\ \A j \in 1..(m - 1) : q[j] = panels[j]
        BY <2>6, <3>4
      <4>. QED BY <2>1, <3>1, <3>2, <4>1 DEF e
    <3>. QED BY <1>3, <3>1, <3>2, <3>3, <3>4 DEF Fine
  <2>. QED BY <2>7, <2>8
<1>. QED BY <1>4, <1>5

(* Kept keeps each panel that is not gone once, and leaves a sequence as   *)
(* it is from which nothing has to go.                                     *)
LEMMA KeptFacts ==
  ASSUME NEW S, NEW panels \in Seq(S), NEW gone
  PROVE  /\ Kept(panels, gone) \in Seq(S)
         /\ NoRepeat(Kept(panels, gone))
         /\ ToSet(Kept(panels, gone)) = ToSet(panels) \ gone
         /\ NoRepeat(panels) /\ ToSet(panels) \cap gone = {} => Kept(panels, gone) = panels
<1>. DEFINE kept == CHOOSE g : KeptTable(panels, gone, Len(panels), g)
            line == kept[Len(panels)]
<1>1. Len(panels) \in Nat /\ DOMAIN panels = 1..Len(panels)
  BY SequenceFacts
<1>2. KeptTable(panels, gone, Len(panels), kept)
  BY <1>1, KeptHasTable
<1>3. Kept(panels, gone) = line
  BY DEF Kept, KeptTable
<1>. HIDE DEF kept
<1>4. /\ line \in Seq(S) /\ NoRepeat(line)
      /\ ToSet(line) = Among(panels, Len(panels)) \ gone
      /\ NoRepeat(panels) /\ ToSet(panels) \cap gone = {} =>
           Len(line) = Len(panels) /\ \A j \in 1..Len(panels) : line[j] = panels[j]
  <2>1. Len(panels) \in 0..Len(panels)
    BY <1>1
  <2>2. \A n \in 0..Len(panels) :
          /\ kept[n] \in Seq(S)
          /\ NoRepeat(kept[n])
          /\ ToSet(kept[n]) = Among(panels, n) \ gone
          /\ NoRepeat(panels) /\ ToSet(panels) \cap gone = {} =>
               Len(kept[n]) = n /\ \A j \in 1..n : kept[n][j] = panels[j]
    BY <1>2, KeptTables
  <2>. QED BY <2>1, <2>2
<1>5. Among(panels, Len(panels)) = ToSet(panels)
  BY <1>1 DEF ToSet, Among
<1>6. NoRepeat(panels) /\ ToSet(panels) \cap gone = {} => line = panels
  BY <1>4, SeqEqual
<1>. QED BY <1>3, <1>4, <1>5, <1>6
-----------------------------------------------------------------------------
(* Rails.                                                                  *)

\* A rail before it is normalised: its active panel is of any kind.
Loose(A) == [expanded : BOOLEAN, width : Width \cup {NoWidth}, docked : Seq(Panel), active : A]

LEMMA DefaultFacts ==
  ASSUME NEW r \in RailId
  PROVE  DefaultDocked(r) \in Seq(Panel) /\ DefaultDocked(r) # <<>> /\ DefaultDocked(r)[1] \in ToSet(DefaultDocked(r))
<1>1. DefaultDocked(r) \in Seq(Panel) /\ DefaultDocked(r) # <<>>
  BY DEF PanelAssumption, DefaultDocked, RailId
<1>. HIDE DEF DefaultDocked
<1>. QED BY <1>1, SequenceFacts

LEMMA NormalizedFacts ==
  ASSUME NEW r \in RailId, NEW A, NEW rail \in Loose(A)
  PROVE  LET n == Normalized(rail, r)
         IN /\ n \in Rail /\ n.expanded = rail.expanded /\ n.width = rail.width
            /\ n.docked # <<>> /\ n.active \in ToSet(n.docked)
            /\ rail.docked # <<>> =>
                 /\ NoRepeat(n.docked) /\ ToSet(n.docked) = ToSet(rail.docked)
                 /\ rail.active \in ToSet(rail.docked) => n.active = rail.active
                 /\ NoRepeat(rail.docked) => n.docked = rail.docked
<1>. DEFINE panels == IF rail.docked = <<>> THEN DefaultDocked(r) ELSE Deduped(rail.docked)
            active == IF rail.active \in ToSet(panels) THEN rail.active ELSE panels[1]
            n == Normalized(rail, r)
<1>1. rail.docked \in Seq(Panel) /\ rail.expanded \in BOOLEAN /\ rail.width \in Width \cup {NoWidth}
  BY DEF Loose
<1>2. /\ Deduped(rail.docked) \in Seq(Panel) /\ NoRepeat(Deduped(rail.docked))
      /\ ToSet(Deduped(rail.docked)) = ToSet(rail.docked)
      /\ NoRepeat(rail.docked) => Deduped(rail.docked) = rail.docked
  <2>1. ToSet(rail.docked) \cap {} = {} /\ ToSet(rail.docked) \ {} = ToSet(rail.docked)
    OBVIOUS
  <2>2. /\ Kept(rail.docked, {}) \in Seq(Panel) /\ NoRepeat(Kept(rail.docked, {}))
        /\ ToSet(Kept(rail.docked, {})) = ToSet(rail.docked) \ {}
        /\ NoRepeat(rail.docked) /\ ToSet(rail.docked) \cap {} = {} => Kept(rail.docked, {}) = rail.docked
    <3>. DEFINE gone == {}
    <3>. HIDE DEF gone
    <3>1. /\ Kept(rail.docked, gone) \in Seq(Panel) /\ NoRepeat(Kept(rail.docked, gone))
          /\ ToSet(Kept(rail.docked, gone)) = ToSet(rail.docked) \ gone
          /\ NoRepeat(rail.docked) /\ ToSet(rail.docked) \cap gone = {} => Kept(rail.docked, gone) = rail.docked
      BY <1>1, KeptFacts
    <3>. QED BY <3>1 DEF gone
  <2>. QED BY <2>1, <2>2 DEF Deduped
<1>3. rail.docked # <<>> => Deduped(rail.docked) # <<>>
  BY <1>1, <1>2, SequenceFacts
<1>4. panels \in Seq(Panel) /\ panels # <<>>
  BY <1>2, <1>3, DefaultFacts
<1>5. panels[1] \in ToSet(panels) /\ ToSet(panels) \subseteq Panel
  <2>. HIDE DEF panels
  <2>. QED BY <1>4, SequenceFacts
<1>6. n = [expanded |-> rail.expanded, width |-> rail.width, docked |-> panels, active |-> active]
  <2>1. n = [rail EXCEPT !.docked = panels, !.active = active]
    BY DEF Normalized
  <2>. HIDE DEF panels, active, n
  <2>. QED BY <2>1 DEF Loose
<1>7. active \in ToSet(panels)
  BY <1>5
<1>8. n \in Rail
  <2>. HIDE DEF panels, active, n
  <2>. QED BY <1>1, <1>4, <1>5, <1>6, <1>7 DEF Rail
<1>9. rail.docked # <<>> => panels = Deduped(rail.docked)
  OBVIOUS
<1>10. rail.docked # <<>> /\ rail.active \in ToSet(rail.docked) => active = rail.active
  BY <1>2
<1>. HIDE DEF panels, active, n
<1>11. n.expanded = rail.expanded /\ n.width = rail.width /\ n.docked = panels /\ n.active = active
  BY <1>6
<1>. QED BY <1>2, <1>4, <1>7, <1>8, <1>9, <1>10, <1>11 DEF n

LEMMA RailIsLoose ==
  ASSUME NEW rail \in Rail
  PROVE  rail \in Loose(Panel \cup {NoPanel})
BY DEF Rail, Loose

LEMMA WithoutFacts ==
  ASSUME NEW rail \in Rail, NEW p
  PROVE  LET w == Without(rail, p)
         IN /\ w \in Rail /\ w.expanded = rail.expanded /\ w.width = rail.width
            /\ NoRepeat(w.docked) /\ ToSet(w.docked) = ToSet(rail.docked) \ {p}
            /\ NoRepeat(rail.docked) /\ p \notin ToSet(rail.docked) => w.docked = rail.docked
            /\ rail.active # p => w.active = rail.active
<1>. DEFINE rest == Kept(rail.docked, {p})
            active == IF rail.active # p THEN rail.active ELSE IF rest = <<>> THEN NoPanel ELSE rest[1]
            w == Without(rail, p)
<1>1. /\ rail.docked \in Seq(Panel) /\ rail.expanded \in BOOLEAN /\ rail.width \in Width \cup {NoWidth}
      /\ rail.active \in Panel \cup {NoPanel}
  BY DEF Rail
<1>2. /\ rest \in Seq(Panel) /\ NoRepeat(rest) /\ ToSet(rest) = ToSet(rail.docked) \ {p}
      /\ NoRepeat(rail.docked) /\ ToSet(rail.docked) \cap {p} = {} => rest = rail.docked
  BY <1>1, KeptFacts
<1>3. w = [expanded |-> rail.expanded, width |-> rail.width, docked |-> rest, active |-> active]
  <2>1. w = [rail EXCEPT !.docked = rest, !.active = active]
    BY DEF Without
  <2>. HIDE DEF rest, active, w
  <2>. QED BY <2>1 DEF Rail
<1>. HIDE DEF rest
<1>4. rest # <<>> => rest[1] \in Panel
  BY <1>2, SequenceFacts
<1>5. active \in Panel \cup {NoPanel}
  BY <1>1, <1>4
<1>. HIDE DEF active, w
<1>6. w \in Rail
  BY <1>1, <1>2, <1>3, <1>5 DEF Rail
<1>7. w.expanded = rail.expanded /\ w.width = rail.width /\ w.docked = rest /\ w.active = active
  BY <1>3
<1>. QED BY <1>2, <1>6, <1>7 DEF w, active

(* Layouts.                                                                *)
Well(l) == l \in Layout /\ \A r \in RailId : l.rail[r].active \in Docked(l, r)

LEMMA LayoutParts ==
  ASSUME NEW l \in Layout
  PROVE  /\ l.rail \in [RailId -> Rail] /\ l.canvas \in BOOLEAN /\ l.undocked \subseteq Panel
         /\ \A r \in RailId :
              /\ l.rail[r] \in Rail /\ l.rail[r].docked \in Seq(Panel) /\ Docked(l, r) \subseteq Panel
              /\ l.rail[r].expanded \in BOOLEAN /\ l.rail[r].width \in Width \cup {NoWidth}
         /\ l = [rail |-> l.rail, canvas |-> l.canvas, undocked |-> l.undocked]
<1>1. /\ l.rail \in [RailId -> Rail] /\ l.canvas \in BOOLEAN /\ l.undocked \subseteq Panel
      /\ l = [rail |-> l.rail, canvas |-> l.canvas, undocked |-> l.undocked]
  BY DEF Layout
<1>2. ASSUME NEW r \in RailId
      PROVE  /\ l.rail[r] \in Rail /\ l.rail[r].docked \in Seq(Panel)
             /\ l.rail[r].expanded \in BOOLEAN /\ l.rail[r].width \in Width \cup {NoWidth}
  BY <1>1 DEF Rail
<1>. QED BY <1>1, <1>2, SequenceFacts DEF Docked

\* A rail of l is replaced by another, and nothing else changes.
Replaced(l, r, rail, m) ==
  /\ m \in Layout /\ m.canvas = l.canvas /\ m.undocked = l.undocked
  /\ m.rail[r] = rail /\ \A s \in RailId \ {r} : m.rail[s] = l.rail[s]

LEMMA ReplacedFacts ==
  ASSUME NEW l \in Layout, NEW r \in RailId, NEW rail \in Rail
  PROVE  Replaced(l, r, rail, [l EXCEPT !.rail[r] = rail])
<1>1. [l EXCEPT !.rail[r] = rail] =
        [rail |-> [l.rail EXCEPT ![r] = rail], canvas |-> l.canvas, undocked |-> l.undocked]
  <2>1. l = [rail |-> l.rail, canvas |-> l.canvas, undocked |-> l.undocked]
    BY LayoutParts
  <2>. DEFINE rails == l.rail
              canvas == l.canvas
              undocked == l.undocked
              m == [rail |-> rails, canvas |-> canvas, undocked |-> undocked]
  <2>2. [l EXCEPT !.rail[r] = rail] = [m EXCEPT !.rail[r] = rail]
    BY <2>1
  <2>. HIDE DEF rails, canvas, undocked
  <2>3. [m EXCEPT !.rail[r] = rail] =
          [rail |-> [rails EXCEPT ![r] = rail], canvas |-> canvas, undocked |-> undocked]
    OBVIOUS
  <2>. QED BY <2>2, <2>3 DEF rails, canvas, undocked
<1>2. [l.rail EXCEPT ![r] = rail] \in [RailId -> Rail]
  BY LayoutParts
<1>. QED BY <1>1, <1>2, LayoutParts DEF Replaced, Layout

LEMMA WithRailFacts ==
  ASSUME NEW l \in Layout, NEW r \in RailId, NEW A, NEW rail \in Loose(A)
  PROVE  Replaced(l, r, Normalized(rail, r), WithRail(l, r, rail))
BY NormalizedFacts, ReplacedFacts DEF WithRail

\* What is drawn changes, and no panel moves.
Resized(l, m) ==
  /\ m \in Layout /\ m.undocked = l.undocked
  /\ \A r \in RailId : m.rail[r].docked = l.rail[r].docked /\ m.rail[r].active = l.rail[r].active

LEMMA RailResized ==
  ASSUME NEW l \in Layout, NEW r \in RailId, NEW e \in BOOLEAN, NEW w \in Width \cup {NoWidth}, NEW m,
         m = [l EXCEPT !.rail[r] = [@ EXCEPT !.expanded = e, !.width = w]]
  PROVE  Resized(l, m)
<1>. DEFINE old == l.rail[r]
            rail == [old EXCEPT !.expanded = e, !.width = w]
<1>1. old \in Rail
  BY LayoutParts
<1>2. m = [l EXCEPT !.rail[r] = rail]
  <2>1. l.rail \in [RailId -> Rail] /\ l \in Layout
    BY LayoutParts
  <2>. QED BY <2>1 DEF Layout
<1>. HIDE DEF old
<1>3. rail \in Rail /\ rail.docked = old.docked /\ rail.active = old.active
  BY <1>1 DEF Rail
<1>. HIDE DEF rail
<1>4. Replaced(l, r, rail, m)
  BY <1>2, <1>3, ReplacedFacts
<1>. QED BY <1>3, <1>4 DEF Replaced, Resized, old

LEMMA ToggleResizes ==
  ASSUME NEW l \in Layout, NEW r \in RailId
  PROVE  Resized(l, ToggleRail(l, r))
<1>. DEFINE e == ~ l.rail[r].expanded
            w == IF r = "left" /\ ~ l.rail[r].expanded /\ l.rail[r].width = NoWidth
                 THEN DefaultWidth ELSE l.rail[r].width
<1>1. l.rail \in [RailId -> Rail] /\ l.rail[r] \in Rail /\ l.rail[r].width \in Width \cup {NoWidth}
  BY LayoutParts
<1>2. e \in BOOLEAN /\ w \in Width \cup {NoWidth}
  BY <1>1 DEF WidthAssumption
<1>3. ToggleRail(l, r) = [l EXCEPT !.rail[r] = [@ EXCEPT !.expanded = e, !.width = w]]
  <2>1. ToggleRail(l, r) = [l EXCEPT !.rail[r].expanded = e, !.rail[r].width = w]
    BY <1>1 DEF ToggleRail, Layout, Rail
  <2>. HIDE DEF e, w
  <2>. QED BY <1>1, <2>1 DEF Layout
<1>. HIDE DEF e, w
<1>. QED BY <1>2, <1>3, RailResized

LEMMA CanvasResizes ==
  ASSUME NEW l \in Layout
  PROVE  Resized(l, [l EXCEPT !.canvas = ~ @])
<1>. DEFINE m == [rail |-> l.rail, canvas |-> ~ l.canvas, undocked |-> l.undocked]
<1>1. [l EXCEPT !.canvas = ~ @] = m
  BY LayoutParts
<1>2. m \in Layout
  BY LayoutParts DEF Layout
<1>. QED BY <1>1, <1>2 DEF Resized

LEMMA ExpandResizes ==
  ASSUME NEW l \in Layout, NEW r \in RailId
  PROVE  Resized(l, [l EXCEPT !.rail[r].expanded = TRUE])
<1>. DEFINE w == l.rail[r].width
<1>1. l.rail \in [RailId -> Rail] /\ l.rail[r] \in Rail /\ w \in Width \cup {NoWidth}
  BY LayoutParts
<1>2. [l EXCEPT !.rail[r].expanded = TRUE] = [l EXCEPT !.rail[r] = [@ EXCEPT !.expanded = TRUE, !.width = w]]
  BY <1>1 DEF Layout, Rail
<1>. HIDE DEF w
<1>. QED BY <1>1, <1>2, RailResized

LEMMA WidthResizes ==
  ASSUME NEW l \in Layout, NEW r \in RailId, NEW w \in Width \cup {NoWidth}
  PROVE  Resized(l, [l EXCEPT !.rail[r].width = w])
<1>. DEFINE e == l.rail[r].expanded
<1>1. l.rail \in [RailId -> Rail] /\ l.rail[r] \in Rail /\ e \in BOOLEAN
  BY LayoutParts
<1>2. [l EXCEPT !.rail[r].width = w] = [l EXCEPT !.rail[r] = [@ EXCEPT !.expanded = e, !.width = w]]
  BY <1>1 DEF Layout, Rail
<1>. HIDE DEF e
<1>. QED BY <1>1, <1>2, RailResized

Apart(rails) == ToSet(rails["left"].docked) \cap ToSet(rails["right"].docked) = {}

\* Each panel is in one rail, once, or floats.
OnePlace(l) ==
  /\ Apart(l.rail) /\ \A r \in RailId : NoRepeat(l.rail[r].docked)
  /\ l.undocked = DeriveUndocked(l.rail)

LEMMA Floating ==
  ASSUME NEW rails
  PROVE  DeriveUndocked(rails) = Panel \ (ToSet(rails["left"].docked) \cup ToSet(rails["right"].docked))
BY DEF DeriveUndocked, RailId

LEMMA ResizedKeeps ==
  ASSUME NEW l, NEW m, Well(l), Resized(l, m)
  PROVE  Well(m) /\ (OnePlace(l) => OnePlace(m))
<1>1. Well(m)
  BY DEF Well, Resized, Docked
<1>2. ASSUME OnePlace(l) PROVE OnePlace(m)
  <2>1. m.rail["left"].docked = l.rail["left"].docked /\ m.rail["right"].docked = l.rail["right"].docked
    BY DEF Resized, RailId
  <2>2. Apart(m.rail) /\ DeriveUndocked(m.rail) = DeriveUndocked(l.rail)
    BY <1>2, <2>1, Floating DEF OnePlace, Apart
  <2>. QED BY <1>2, <2>2 DEF OnePlace, Resized
<1>. QED BY <1>1, <1>2

LEMMA WithRailWell ==
  ASSUME NEW l, Well(l), NEW r \in RailId, NEW A, NEW rail \in Loose(A)
  PROVE  Well(WithRail(l, r, rail))
<1>1. Replaced(l, r, Normalized(rail, r), WithRail(l, r, rail))
  BY WithRailFacts DEF Well
<1>2. Normalized(rail, r).active \in ToSet(Normalized(rail, r).docked)
  BY NormalizedFacts
<1>. QED BY <1>1, <1>2 DEF Replaced, Well, Docked

LEMMA FloatingPanels ==
  ASSUME NEW l, Well(l), NEW S, S \subseteq Panel, NEW f, f = [l EXCEPT !.undocked = S]
  PROVE  Well(f) /\ f.rail = l.rail /\ f.canvas = l.canvas /\ f.undocked = S
<1>. DEFINE m == [rail |-> l.rail, canvas |-> l.canvas, undocked |-> S]
<1>1. f = m
  BY LayoutParts DEF Well
<1>2. m \in Layout
  BY LayoutParts DEF Layout, Well
<1>3. m.rail = l.rail /\ m.canvas = l.canvas /\ m.undocked = S
  OBVIOUS
<1>. HIDE DEF m
<1>. QED BY <1>1, <1>2, <1>3 DEF Well, Docked

(* Reduce keeps layouts well formed, whatever action it applies to them.   *)
LEMMA UndockWell ==
  ASSUME NEW l, Well(l), NEW p \in Panel \cup {NoPanel}
  PROVE  Well(Undock(l, p))
<1>. DEFINE r == IF p \in Docked(l, "left") THEN "left" ELSE "right"
            m == WithRail(l, r, Without(l.rail[r], p))
<1>1. r \in RailId /\ l.rail[r] \in Rail
  BY LayoutParts DEF RailId, Well
<1>. HIDE DEF r
<1>2. Without(l.rail[r], p) \in Loose(Panel \cup {NoPanel})
  BY <1>1, WithoutFacts, RailIsLoose
<1>3. Well(m)
  BY <1>1, <1>2, WithRailWell
<1>. HIDE DEF m
<1>4. CASE ~ Undockable(l, r, p)
  BY <1>4 DEF Undock, r
<1>5. CASE Undockable(l, r, p)
  <2>1. p \in Panel
    BY <1>1, <1>5, LayoutParts DEF Undockable, Well
  <2>2. m.undocked \cup {p} \subseteq Panel
    BY <1>3, <2>1, LayoutParts DEF Well
  <2>3. Undock(l, p) = [m EXCEPT !.undocked = m.undocked \cup {p}]
    BY <1>5 DEF Undock, m, r
  <2>. DEFINE S == m.undocked \cup {p}
  <2>. HIDE DEF S
  <2>4. S \subseteq Panel /\ Undock(l, p) = [m EXCEPT !.undocked = S]
    BY <2>2, <2>3 DEF S
  <2>. QED BY <1>3, <2>4, FloatingPanels
<1>. QED BY <1>4, <1>5

LEMMA LiftWell ==
  ASSUME NEW l, Well(l), NEW p \in Panel
  PROVE  Well(Lift(l, p))
<1>. DEFINE r == IF p \in Docked(l, "left") THEN "left" ELSE "right"
<1>1. r \in RailId /\ l.rail[r] \in Rail
  BY LayoutParts DEF RailId, Well
<1>. HIDE DEF r
<1>2. Without(l.rail[r], p) \in Loose(Panel \cup {NoPanel})
  BY <1>1, WithoutFacts, RailIsLoose
<1>3. Well(WithRail(l, r, Without(l.rail[r], p)))
  BY <1>1, <1>2, WithRailWell
<1>. QED BY <1>3 DEF Lift, r

LEMMA DockWell ==
  ASSUME NEW l, Well(l), NEW p \in Panel, NEW r \in RailId
  PROVE  Well(Dock(l, p, r))
<1>. DEFINE lifted == Lift(l, p)
            rest == Without(lifted.rail[r], p)
            docked == Append(rest.docked, p)
            rail == [rest EXCEPT !.docked = docked, !.active = p]
            m == WithRail(lifted, r, rail)
<1>1. Well(lifted)
  BY LiftWell
<1>. HIDE DEF lifted
<1>2. rest \in Rail
  BY <1>1, LayoutParts, WithoutFacts DEF Well
<1>. HIDE DEF rest
<1>3. rail \in Loose(Panel \cup {NoPanel})
  <2>1. docked \in Seq(Panel)
    BY <1>2, AppendProperties DEF Rail
  <2>. HIDE DEF docked
  <2>2. rail \in Rail
    BY <1>2, <2>1 DEF Rail
  <2>. HIDE DEF rail
  <2>. QED BY <2>2, RailIsLoose
<1>. HIDE DEF rail
<1>4. Well(m)
  BY <1>1, <1>3, WithRailWell
<1>. HIDE DEF m
<1>5. m.undocked \ {p} \subseteq Panel
  BY <1>4, LayoutParts DEF Well
<1>6. Dock(l, p, r) = [m EXCEPT !.undocked = m.undocked \ {p}]
  BY DEF Dock, m, rail, docked, rest, lifted
<1>. DEFINE S == m.undocked \ {p}
<1>. HIDE DEF S
<1>7. S \subseteq Panel /\ Dock(l, p, r) = [m EXCEPT !.undocked = S]
  BY <1>5, <1>6 DEF S
<1>. QED BY <1>4, <1>7, FloatingPanels

LEMMA ReorderWell ==
  ASSUME NEW l, Well(l), NEW r \in RailId, NEW panels \in Seq(Panel)
  PROVE  Well(Reorder(l, r, panels))
<1>. DEFINE old == l.rail[r]
            active == IF old.active \in ToSet(panels) THEN old.active ELSE panels[1]
<1>1. old \in Rail
  BY LayoutParts DEF Well
<1>2. Reorder(l, r, panels) = WithRail(l, r, [old EXCEPT !.docked = panels, !.active = active])
  BY DEF Reorder
<1>. HIDE DEF old, active
<1>3. PICK rail : rail = [old EXCEPT !.docked = panels, !.active = active]
  OBVIOUS
<1>4. rail \in Loose({active})
  BY <1>1, <1>3 DEF Rail, Loose
<1>5. Well(WithRail(l, r, rail))
  BY <1>4, WithRailWell
<1>. QED BY <1>2, <1>3, <1>5

LEMMA ActivateWell ==
  ASSUME NEW l, Well(l), NEW r \in RailId, NEW p \in Panel \cup {NoPanel}
  PROVE  Well(WithRail(l, r, [l.rail[r] EXCEPT !.active = p]))
<1>1. l.rail[r] \in Rail
  BY LayoutParts DEF Well
<1>2. [l.rail[r] EXCEPT !.active = p] \in Loose(Panel \cup {NoPanel})
  BY <1>1 DEF Rail, Loose
<1>. QED BY <1>2, WithRailWell

\* What can be waiting to be done again: no dock is of no panel.
Doable == {a \in Actions : a.type = "dock" => a.panel \in Panel}

LEMMA ReduceWell ==
  ASSUME NEW l, Well(l), NEW a \in Doable
  PROVE  Well(Reduce(l, a))
<1>1. /\ a.type \in {"toggle", "toggle_canvas", "expand_right_rail", "activate", "reorder", "undock",
                     "dock", "set_width"}
      /\ a.rail \in RailId /\ a.panel \in Panel \cup {NoPanel} /\ a.panels \in Seq(Panel)
      /\ a.width \in Width \cup {NoWidth} /\ (a.type = "dock" => a.panel \in Panel)
  BY DEF Doable, Actions
<1>2. l \in Layout
  BY DEF Well
<1>3. CASE a.type = "toggle"
  BY <1>1, <1>2, <1>3, ToggleResizes, ResizedKeeps DEF Reduce
<1>4. CASE a.type = "toggle_canvas"
  BY <1>2, <1>4, CanvasResizes, ResizedKeeps DEF Reduce
<1>5. CASE a.type = "expand_right_rail"
  <2>1. Resized(l, [l EXCEPT !.rail["right"].expanded = TRUE])
    BY <1>2, ExpandResizes DEF RailId
  <2>. QED BY <1>5, <2>1, ResizedKeeps DEF Reduce
<1>6. CASE a.type = "activate"
  <2>1. Reduce(l, a) = WithRail(l, a.rail, [l.rail[a.rail] EXCEPT !.active = a.panel])
    BY <1>6 DEF Reduce
  <2>. QED BY <1>1, <2>1, ActivateWell
<1>7. CASE a.type = "reorder"
  BY <1>1, <1>7, ReorderWell DEF Reduce
<1>8. CASE a.type = "undock"
  BY <1>1, <1>8, UndockWell DEF Reduce
<1>9. CASE a.type = "dock"
  BY <1>1, <1>9, DockWell DEF Reduce
<1>10. CASE a.type = "set_width"
  <2>1. Resized(l, [l EXCEPT !.rail[a.rail].width = a.width])
    BY <1>1, <1>2, WidthResizes
  <2>2. Reduce(l, a) = [l EXCEPT !.rail[a.rail].width = a.width]
    BY <1>10 DEF Reduce
  <2>. QED BY <2>1, <2>2, ResizedKeeps
<1>. QED BY <1>1, <1>3, <1>4, <1>5, <1>6, <1>7, <1>8, <1>9, <1>10

(* What is read.                                                           *)
LEMMA PatchParts ==
  ASSUME NEW p \in Patch
  PROVE  /\ p.rail \in [RailId -> Rail] /\ p.canvas \in BOOLEAN
         /\ \A r \in RailId : p.rail[r] \in Rail /\ p.rail[r].docked \in Seq(Panel)
                              /\ p.rail[r] \in Loose(Panel \cup {NoPanel})
<1>1. p.rail \in [RailId -> Rail] /\ p.canvas \in BOOLEAN
  BY DEF Patch
<1>2. ASSUME NEW r \in RailId PROVE p.rail[r] \in Rail /\ p.rail[r].docked \in Seq(Panel)
  BY <1>1 DEF Rail
<1>. QED BY <1>1, <1>2, RailIsLoose

LEMMA ReadParts ==
  ASSUME NEW p \in Patch
  PROVE  LET l == FromPreferences(p)
         IN /\ l.rail = [r \in RailId |-> Normalized(p.rail[r], r)]
            /\ l.canvas = p.canvas /\ l.undocked = DeriveUndocked(l.rail)
            /\ l.rail \in [RailId -> Rail] /\ Well(l)
<1>. DEFINE rails == [r \in RailId |-> Normalized(p.rail[r], r)]
            l == FromPreferences(p)
<1>1. rails \in [RailId -> Rail] /\ \A r \in RailId : rails[r].active \in ToSet(rails[r].docked)
  BY PatchParts, NormalizedFacts
<1>2. l = [rail |-> rails, canvas |-> p.canvas, undocked |-> DeriveUndocked(rails)]
  BY DEF FromPreferences
<1>3. DeriveUndocked(rails) \subseteq Panel
  BY DEF DeriveUndocked
<1>4. p.canvas \in BOOLEAN
  BY PatchParts
<1>. HIDE DEF rails, l
<1>5. l.rail = rails /\ l.canvas = p.canvas /\ l.undocked = DeriveUndocked(rails)
  BY <1>2
<1>6. l \in Layout
  BY <1>1, <1>2, <1>3, <1>4 DEF Layout
<1>7. Well(l)
  BY <1>1, <1>5, <1>6 DEF Well, Docked
<1>. QED BY <1>1, <1>5, <1>7 DEF l, rails

(* Hydrated: the table that its reduction fills in.                        *)
RedoneTable(base, line, n, redone) ==
  redone = [k \in 0..n |-> IF k = 0 THEN base ELSE Reduce(redone[k - 1], line[k])]

LEMMA RedoneHasTable ==
  ASSUME NEW base, NEW line, NEW n \in Nat
  PROVE  \E redone : RedoneTable(base, line, n, redone)
<1>. DEFINE bad == {m \in Nat : ~ \E redone : RedoneTable(base, line, m, redone)}
<1>. SUFFICES ASSUME bad # {} PROVE FALSE
  OBVIOUS
<1>1. PICK m \in bad : \A k \in bad : m <= k
  BY Least
<1>2. CASE m = 0
  <2>1. RedoneTable(base, line, 0, [k \in 0..0 |-> base])
    BY DEF RedoneTable
  <2>. QED BY <1>1, <1>2, <2>1
<1>3. CASE m # 0
  <2>1. m - 1 \in Nat /\ m - 1 \notin bad
    BY <1>1, <1>3
  <2>2. PICK g : RedoneTable(base, line, m - 1, g)
    BY <2>1
  <2>. DEFINE h == [k \in 0..m |-> IF k = m THEN Reduce(g[m - 1], line[m]) ELSE g[k]]
  <2>3. ASSUME NEW k \in 0..m
        PROVE  h[k] = IF k = 0 THEN base ELSE Reduce(h[k - 1], line[k])
    <3>1. k # 0 => k - 1 \in 0..m /\ h[k - 1] = g[k - 1]
      BY <1>1, <1>3
    <3>2. CASE k = m
      BY <1>3, <3>1, <3>2
    <3>3. CASE k # m
      <4>1. k \in 0..(m - 1) /\ h[k] = g[k]
        BY <1>1, <3>3
      <4>2. g[k] = IF k = 0 THEN base ELSE Reduce(g[k - 1], line[k])
        BY <2>2, <4>1 DEF RedoneTable
      <4>. HIDE DEF h
      <4>. QED BY <3>1, <4>1, <4>2
    <3>. QED BY <3>2, <3>3
  <2>4. RedoneTable(base, line, m, h)
    BY <2>3 DEF RedoneTable
  <2>. QED BY <1>1, <2>4
<1>. QED BY <1>2, <1>3

LEMMA RedoneTables ==
  ASSUME NEW base, Well(base), NEW line \in Seq(Doable), NEW redone,
         RedoneTable(base, line, Len(line), redone), NEW n \in 0..Len(line)
  PROVE  Well(redone[n])
<1>. DEFINE bad == {k \in 0..Len(line) : ~ Well(redone[k])}
<1>1. Len(line) \in Nat /\ \A k \in 1..Len(line) : line[k] \in Doable
  BY SequenceFacts
<1>. SUFFICES ASSUME bad # {} PROVE FALSE
  OBVIOUS
<1>2. bad \subseteq Nat
  BY <1>1
<1>3. PICK m \in bad : \A k \in bad : m <= k
  <2>. HIDE DEF bad
  <2>. QED BY <1>2, Least
<1>4. CASE m = 0
  <2>1. redone[0] = base
    BY <1>1 DEF RedoneTable
  <2>. QED BY <1>3, <1>4, <2>1
<1>5. CASE m # 0
  <2>1. m \in 1..Len(line) /\ m - 1 \in 0..Len(line) /\ m - 1 \notin bad
    BY <1>1, <1>3, <1>5
  <2>2. redone[m] = Reduce(redone[m - 1], line[m])
    BY <2>1, <1>5 DEF RedoneTable
  <2>. QED BY <1>1, <1>3, <2>1, <2>2, ReduceWell
<1>. QED BY <1>4, <1>5

(* What was done before the preferences were read is done again to a       *)
(* layout, and gives one; what was not done changes nothing.               *)
LEMMA HydratedFacts ==
  ASSUME NEW p \in Patch, pending \in Seq(Doable)
  PROVE  Well(Hydrated(p)) /\ (pending = <<>> => Hydrated(p) = FromPreferences(p))
<1>. DEFINE base == FromPreferences(p)
            redone == CHOOSE g : RedoneTable(base, pending, Len(pending), g)
<1>1. Len(pending) \in Nat /\ (pending = <<>> => Len(pending) = 0)
  BY SequenceFacts, EmptySeq
<1>2. RedoneTable(base, pending, Len(pending), redone)
  BY <1>1, RedoneHasTable
<1>3. Hydrated(p) = redone[Len(pending)]
  BY DEF Hydrated, RedoneTable
<1>4. Well(base)
  BY ReadParts
<1>. HIDE DEF redone, base
<1>5. Len(pending) \in 0..Len(pending)
  BY <1>1
<1>6. Well(redone[Len(pending)])
  BY <1>2, <1>4, <1>5, RedoneTables
<1>7. pending = <<>> => redone[Len(pending)] = base
  BY <1>1, <1>2 DEF RedoneTable
<1>. QED BY <1>3, <1>6, <1>7 DEF base
-----------------------------------------------------------------------------
(* Steps.                                                                  *)

LEMMA SequenceMade ==
  ASSUME NEW S, NEW n \in Nat, NEW q \in [1..n -> S]
  PROVE  q \in Seq(S)
<1>1. Seq(S) = UNION {[1..k -> S] : k \in Nat}
  BY SeqDef, Zenon
<1>. QED BY <1>1, Zenon

LEMMA SwappedFacts ==
  ASSUME NEW q \in Seq(Panel), NEW i \in DOMAIN q, i + 1 \in DOMAIN q
  PROVE  /\ Swapped(q, i) \in Seq(Panel) /\ ToSet(Swapped(q, i)) = ToSet(q)
         /\ NoRepeat(q) => NoRepeat(Swapped(q, i))
<1>1. Len(q) \in Nat /\ DOMAIN q = 1..Len(q) /\ \A k \in 1..Len(q) : q[k] \in Panel
  BY SequenceFacts
<1>2. Swapped(q, i) = [k \in 1..Len(q) |-> IF k = i THEN q[i + 1] ELSE IF k = i + 1 THEN q[i] ELSE q[k]]
  BY <1>1 DEF Swapped
<1>3. Swapped(q, i) \in Seq(Panel) /\ DOMAIN Swapped(q, i) = 1..Len(q)
  <2>1. PICK new : new = Swapped(q, i)
    OBVIOUS
  <2>2. new \in [1..Len(q) -> Panel]
    BY <1>1, <1>2, <2>1
  <2>3. new \in Seq(Panel)
    BY <1>1, <2>2, SequenceMade
  <2>. QED BY <2>1, <2>2, <2>3
<1>4. ToSet(Swapped(q, i)) = ToSet(q)
  <2>1. ASSUME NEW x \in ToSet(Swapped(q, i)) PROVE x \in ToSet(q)
    BY <1>1, <1>2, <1>3 DEF ToSet
  <2>2. ASSUME NEW k \in DOMAIN q PROVE q[k] \in ToSet(Swapped(q, i))
    <3>1. CASE k = i
      BY <1>1, <1>2, <1>3, <3>1 DEF ToSet
    <3>2. CASE k = i + 1
      BY <1>1, <1>2, <1>3, <3>2 DEF ToSet
    <3>3. CASE k # i /\ k # i + 1
      BY <1>1, <1>2, <1>3, <3>3 DEF ToSet
    <3>. QED BY <3>1, <3>2, <3>3
  <2>. QED BY <2>1, <2>2 DEF ToSet
<1>5. ASSUME NoRepeat(q) PROVE NoRepeat(Swapped(q, i))
  BY <1>1, <1>2, <1>5 DEF NoRepeat
<1>. QED BY <1>3, <1>4, <1>5

Launch == 1..MaxLoads

TypeInv ==
  /\ TypeOK
  /\ pending \in Seq(Doable)
  /\ \A i \in Launch : Well(loads[i].next)

\* A handler's action comes from what it sees.
Offered(a) ==
  /\ a \in Doable
  /\ a.type = "reorder" =>
       LET panels == layout.rail[a.rail].docked
       IN \E i \in DOMAIN panels : i + 1 \in DOMAIN panels /\ a.panels = Swapped(panels, i)
  /\ a.type = "dock" => a.panel \in shown.undocked

(* What the handlers have in common: an action is applied, and what comes  *)
(* of it is persisted, but for the panel in front and a width while the    *)
(* splitter is held.                                                       *)
Does(a) ==
  /\ Act /\ Apply(a) /\ Offered(a) /\ UNCHANGED dragging
  /\ \/ dragging = "none" /\ Persist(layout')
     \/ a.type = "activate" /\ UNCHANGED writes
     \/ a.type = "set_width" /\ dragging # "none" /\ UNCHANGED writes

Handles ==
  \/ \E r \in RailId : Toggle(r)
  \/ ToggleCanvas \/ ExpandRight
  \/ \E p \in Panel : UndockPanel(p) \/ \E r \in RailId : DockPanel(p, r) \/ Activate(r, p)
  \/ \E r \in RailId, i \in DOMAIN layout.rail["left"].docked \cup DOMAIN layout.rail["right"].docked :
       MovePanel(r, i)
  \/ \E w \in Width : Drag(w)

LEMMA WellLayouts ==
  ASSUME TypeInv
  PROVE  Well(layout) /\ Well(shown)
BY DEF TypeInv, TypeOK, Well

LEMMA HandlesDoes ==
  ASSUME TypeInv, Handles
  PROVE  \E a : Does(a)
<1>1. <<>> \in Seq(Panel) /\ "left" \in RailId /\ "right" \in RailId
  BY EmptySeq DEF RailId
<1>2. CASE \E r \in RailId : Toggle(r)
  <2>1. PICK r \in RailId : Toggle(r)
    BY <1>2
  <2>2. PICK a : a = Action("toggle", r, NoPanel, <<>>, NoWidth)
    OBVIOUS
  <2>3. a \in Doable /\ a.type = "toggle"
    BY <1>1, <2>2 DEF Action, Doable, Actions
  <2>4. Offered(a)
    BY <2>3 DEF Offered
  <2>. QED BY <2>1, <2>2, <2>4 DEF Toggle, ApplyAndPersist, Does
<1>3. CASE ToggleCanvas
  <2>1. PICK a : a = Simple("toggle_canvas")
    OBVIOUS
  <2>2. a \in Doable /\ a.type = "toggle_canvas"
    BY <1>1, <2>1 DEF Simple, Action, Doable, Actions
  <2>3. Offered(a)
    BY <2>2 DEF Offered
  <2>. QED BY <1>3, <2>1, <2>3 DEF ToggleCanvas, ApplyAndPersist, Does
<1>4. CASE ExpandRight
  <2>1. PICK a : a = Simple("expand_right_rail")
    OBVIOUS
  <2>2. a \in Doable /\ a.type = "expand_right_rail"
    BY <1>1, <2>1 DEF Simple, Action, Doable, Actions
  <2>3. Offered(a)
    BY <2>2 DEF Offered
  <2>. QED BY <1>4, <2>1, <2>3 DEF ExpandRight, ApplyAndPersist, Does
<1>5. CASE \E p \in Panel : UndockPanel(p)
  <2>1. PICK p \in Panel : UndockPanel(p)
    BY <1>5
  <2>2. dragging = "none"
    BY <2>1 DEF UndockPanel, Listed
  <2>3. PICK a : a = Action("undock", "left", p, <<>>, NoWidth)
    OBVIOUS
  <2>4. a \in Doable /\ a.type = "undock"
    BY <1>1, <2>3 DEF Action, Doable, Actions
  <2>5. Offered(a)
    BY <2>4 DEF Offered
  <2>. QED BY <2>1, <2>2, <2>3, <2>5 DEF UndockPanel, ApplyAndPersist, Does
<1>6. CASE \E p \in Panel, r \in RailId : DockPanel(p, r)
  <2>1. PICK p \in Panel, r \in RailId : DockPanel(p, r)
    BY <1>6
  <2>2. PICK a : a = Action("dock", r, p, <<>>, NoWidth)
    OBVIOUS
  <2>3. a \in Doable /\ a.type = "dock" /\ a.panel = p
    BY <1>1, <2>2 DEF Action, Doable, Actions
  <2>4. Offered(a)
    BY <2>1, <2>3 DEF Offered, DockPanel
  <2>. QED BY <2>1, <2>2, <2>4 DEF DockPanel, ApplyAndPersist, Does
<1>7. CASE \E p \in Panel, r \in RailId : Activate(r, p)
  <2>1. PICK p \in Panel, r \in RailId : Activate(r, p)
    BY <1>7
  <2>2. PICK a : a = Action("activate", r, p, <<>>, NoWidth)
    OBVIOUS
  <2>3. a \in Doable /\ a.type = "activate"
    BY <1>1, <2>2 DEF Action, Doable, Actions
  <2>4. Offered(a)
    BY <2>3 DEF Offered
  <2>. QED BY <2>1, <2>2, <2>3, <2>4 DEF Activate, Does
<1>8. CASE \E r \in RailId, i \in DOMAIN layout.rail["left"].docked \cup DOMAIN layout.rail["right"].docked :
             MovePanel(r, i)
  <2>1. PICK r \in RailId, i \in DOMAIN layout.rail["left"].docked \cup DOMAIN layout.rail["right"].docked :
          MovePanel(r, i)
    BY <1>8
  <2>2. PICK panels : panels = layout.rail[r].docked
    OBVIOUS
  <2>3. panels \in Seq(Panel)
    BY <2>2, WellLayouts, LayoutParts DEF Well
  <2>4. i \in DOMAIN panels /\ i + 1 \in DOMAIN panels /\ dragging = "none"
    BY <2>1, <2>2 DEF MovePanel, Listed
  <2>5. Swapped(panels, i) \in Seq(Panel)
    BY <2>3, <2>4, SwappedFacts
  <2>6. PICK a : a = Action("reorder", r, NoPanel, Swapped(panels, i), NoWidth)
    OBVIOUS
  <2>7. a \in Doable /\ a.type = "reorder" /\ a.rail = r /\ a.panels = Swapped(panels, i)
    BY <2>5, <2>6 DEF Action, Doable, Actions
  <2>8. Offered(a)
    BY <2>2, <2>4, <2>7 DEF Offered
  <2>. QED BY <2>1, <2>2, <2>4, <2>6, <2>8 DEF MovePanel, ApplyAndPersist, Does
<1>9. CASE \E w \in Width : Drag(w)
  <2>1. PICK w \in Width : Drag(w)
    BY <1>9
  <2>2. dragging \in RailId
    BY <2>1 DEF Drag, TypeInv, TypeOK
  <2>3. PICK a : a = Action("set_width", dragging, NoPanel, <<>>, w)
    OBVIOUS
  <2>4. a \in Doable /\ a.type = "set_width"
    BY <1>1, <2>2, <2>3 DEF Action, Doable, Actions
  <2>5. Offered(a)
    BY <2>4 DEF Offered
  <2>. QED BY <2>1, <2>3, <2>4, <2>5 DEF Drag, Does
<1>. QED BY <1>2, <1>3, <1>4, <1>5, <1>6, <1>7, <1>8, <1>9 DEF Handles

LEMMA NextSteps ==
  ASSUME TypeInv, Next
  PROVE  \/ \E a : Does(a)
         \/ \E r \in RailId : Hold(r)
         \/ Release \/ Render
         \/ \E i \in Launch : Choose(i) \/ Refuse(i) \/ StartLoad(i) \/ Read(i) \/ Finish(i) \/ Fail(i)
         \/ Store \/ LoseWrite \/ Relaunch
BY HandlesDoes DEF Next, Handles, Launch
-----------------------------------------------------------------------------
(* Types.                                                                  *)

LEMMA DefaultWell == Well(DefaultLayout)
<1>1. ASSUME NEW r \in RailId
      PROVE  DefaultRail(r) \in Rail /\ DefaultRail(r).active \in ToSet(DefaultRail(r).docked)
  <2>1. PICK panels : panels = DefaultDocked(r)
    OBVIOUS
  <2>2. panels \in Seq(Panel) /\ panels[1] \in ToSet(panels) /\ ToSet(panels) \subseteq Panel
    BY <2>1, DefaultFacts, SequenceFacts
  <2>3. DefaultRail(r) = [expanded |-> TRUE, width |-> NoWidth, docked |-> panels, active |-> panels[1]]
    BY <2>1 DEF DefaultRail
  <2>. QED BY <2>2, <2>3 DEF Rail
<1>2. DefaultLayout \in Layout
  BY <1>1 DEF DefaultLayout, Layout
<1>. QED BY <1>1, <1>2 DEF DefaultLayout, Well, Docked

LEMMA NotLoadedFacts ==
  NotLoaded \in Load /\ Well(NotLoaded.next)
BY DefaultWell DEF NotLoaded, Load, Well

LEMMA StoredParts ==
  ASSUME NEW l \in Layout
  PROVE  ToPreferences(l) \in Patch
BY LayoutParts DEF ToPreferences, Patch

LEMMA LoadParts ==
  ASSUME TypeInv, NEW i \in Launch
  PROVE  loads \in [Launch -> Load] /\ loads[i] \in Load /\ Well(loads[i].next)
BY DEF TypeInv, TypeOK, Launch

LEMMA TypeInit ==
  ASSUME Init
  PROVE  TypeInv
<1>1. /\ layout = DefaultLayout /\ shown = DefaultLayout /\ pending = <<>> /\ hydrated = FALSE
      /\ visible = FALSE /\ dragging = "none" /\ loads = [i \in 1..MaxLoads |-> NotLoaded]
      /\ writes = <<>> /\ stored \in Images /\ before = NoLayout
      /\ crossed = FALSE /\ lost = FALSE /\ acts = 0
  BY DEF Init, Mounted
<1>2. Well(layout) /\ Well(shown)
  BY <1>1, DefaultWell
<1>3. pending \in Seq(Actions) /\ pending \in Seq(Doable) /\ writes \in Seq(Patch)
  BY <1>1, EmptySeq
<1>4. stored \in Patch
  BY <1>1, ImageAssumption
<1>5. acts \in 0..MaxActs
  BY <1>1 DEF BoundAssumption
<1>6. loads \in [1..MaxLoads -> Load] /\ \A i \in Launch : Well(loads[i].next)
  BY <1>1, NotLoadedFacts DEF Launch
<1>. QED BY <1>1, <1>2, <1>3, <1>4, <1>5, <1>6 DEF TypeInv, TypeOK, Well

\* TypeInv, with Well for what it says of layouts.
TypeParts ==
  /\ Well(layout) /\ Well(shown) /\ pending \in Seq(Doable)
  /\ hydrated \in BOOLEAN /\ visible \in BOOLEAN /\ dragging \in RailId \cup {"none"}
  /\ loads \in [Launch -> Load] /\ \A i \in Launch : Well(loads[i].next)
  /\ writes \in Seq(Patch) /\ stored \in Patch
  /\ before \in Layout \cup {NoLayout}
  /\ crossed \in BOOLEAN /\ lost \in BOOLEAN /\ acts \in 0..MaxActs

LEMMA TypeInvParts == TypeInv <=> TypeParts
<1>1. Seq(Doable) \subseteq Seq(Actions)
  <2>1. Doable \subseteq Actions
    BY DEF Doable
  <2>2. ASSUME NEW q \in Seq(Doable) PROVE q \in Seq(Actions)
    BY <2>1, SeqMonotonic
  <2>. QED BY <2>2
<1>. QED BY <1>1 DEF TypeInv, TypeOK, TypeParts, Well, Launch

LEMMA DoesType ==
  ASSUME TypeParts, NEW a, Does(a)
  PROVE  TypeParts'
<1>1. a \in Doable /\ Apply(a) /\ Act /\ UNCHANGED dragging
  BY DEF Does, Offered
<1>2. Well(layout') /\ Well(shown')
  BY <1>1, ReduceWell DEF TypeParts, Apply
<1>3. pending' \in Seq(Doable)
  BY <1>1, AppendProperties DEF TypeParts, Apply
<1>4. writes' \in Seq(Patch)
  <2>1. CASE writes' = writes
    BY <2>1 DEF TypeParts
  <2>2. CASE Persist(layout')
    <3>1. ToPreferences(layout') \in Patch
      BY <1>2, StoredParts DEF Well
    <3>. QED BY <2>2, <3>1, AppendProperties DEF Persist, TypeParts
  <2>. QED BY <2>1, <2>2 DEF Does
<1>5. crossed' \in BOOLEAN
  BY <1>1 DEF Apply, Crossing
<1>6. acts' \in 0..MaxActs /\ UNCHANGED <<hydrated, visible, loads, stored, before, lost>>
  BY <1>1 DEF Act, TypeParts, BoundAssumption
<1>. QED BY <1>1, <1>2, <1>3, <1>4, <1>5, <1>6 DEF TypeParts

LEMMA SplitterType ==
  ASSUME TypeParts, NEW r \in RailId, Hold(r) \/ Release \/ Render
  PROVE  TypeParts'
<1>1. CASE Hold(r)
  BY <1>1 DEF Hold, Act, TypeParts, BoundAssumption
<1>2. CASE Release
  <2>1. ToPreferences(layout) \in Patch
    BY StoredParts DEF TypeParts, Well
  <2>2. writes' \in Seq(Patch)
    BY <1>2, <2>1, AppendProperties DEF Release, Persist, TypeParts
  <2>3. crossed' \in BOOLEAN
    BY <1>2 DEF Release, Crossing
  <2>. QED BY <1>2, <2>2, <2>3 DEF Release, TypeParts
<1>3. CASE Render
  BY <1>3 DEF Render, TypeParts
<1>. QED BY <1>1, <1>2, <1>3

LEMMA PhaseType ==
  ASSUME TypeParts, NEW i \in Launch, NEW phase \in {"idle", "chosen", "reading", "bootstrapping", "over"},
         loads' = [loads EXCEPT ![i].phase = phase]
  PROVE  loads' \in [Launch -> Load] /\ \A j \in Launch : loads'[j].next = loads[j].next
BY DEF TypeParts, Load

LEMMA LoadType ==
  ASSUME TypeParts, NEW i \in Launch, NEW load \in Load, Well(load.next),
         loads' = [loads EXCEPT ![i] = load]
  PROVE  loads' \in [Launch -> Load] /\ \A j \in Launch : Well(loads'[j].next)
BY DEF TypeParts

LEMMA OverFacts ==
  LET over == [NotLoaded EXCEPT !.phase = "over"]
  IN over \in Load /\ Well(over.next) /\ over.phase = "over"
BY DefaultWell DEF NotLoaded, Load, Well

LEMMA StartupType ==
  ASSUME TypeParts, NEW i \in Launch,
         Choose(i) \/ Refuse(i) \/ StartLoad(i) \/ Read(i) \/ Finish(i) \/ Fail(i)
  PROVE  TypeParts'
<1>1. CASE Choose(i)
  <2>1. loads' \in [Launch -> Load] /\ \A j \in Launch : loads'[j].next = loads[j].next
    BY <1>1, PhaseType DEF Choose
  <2>. QED BY <1>1, <2>1 DEF Choose, TypeParts
<1>2. CASE Refuse(i)
  <2>1. loads' \in [Launch -> Load] /\ \A j \in Launch : loads'[j].next = loads[j].next
    BY <1>2, PhaseType DEF Refuse
  <2>. QED BY <1>2, <2>1 DEF Refuse, TypeParts
<1>3. CASE StartLoad(i)
  <2>1. loads' \in [Launch -> Load] /\ \A j \in Launch : loads'[j].next = loads[j].next
    BY <1>3, PhaseType DEF StartLoad
  <2>. QED BY <1>3, <2>1 DEF StartLoad, TypeParts
<1>4. CASE Read(i)
  <2>1. PICK next : next = Hydrated(stored)
    OBVIOUS
  <2>2. PICK load : load = [phase |-> "bootstrapping", next |-> next]
    OBVIOUS
  <2>3. Well(next)
    BY <2>1, HydratedFacts DEF TypeParts
  <2>4. load \in Load /\ load.next = next
    BY <2>2, <2>3 DEF Load, Well
  <2>5. loads' = [loads EXCEPT ![i] = load] /\ layout' = next /\ shown' = next
    BY <1>4, <2>1, <2>2 DEF Read
  <2>6. loads' \in [Launch -> Load] /\ \A j \in Launch : Well(loads'[j].next)
    BY <2>3, <2>4, <2>5, LoadType
  <2>. QED BY <1>4, <2>3, <2>5, <2>6 DEF Read, TypeParts
<1>5. CASE Finish(i)
  <2>1. loads' \in [Launch -> Load] /\ \A j \in Launch : Well(loads'[j].next)
    BY <1>5, OverFacts, LoadType DEF Finish
  <2>2. Well(loads[i].next)
    BY DEF TypeParts
  <2>3. ToPreferences(loads[i].next) \in Patch
    BY <2>2, StoredParts DEF Well
  <2>4. writes' \in Seq(Patch)
    BY <1>5, <2>3, AppendProperties DEF Finish, Persist, TypeParts
  <2>5. pending' \in Seq(Doable)
    BY <1>5, EmptySeq DEF Finish
  <2>. QED BY <1>5, <2>1, <2>2, <2>4, <2>5 DEF Finish, TypeParts
<1>6. CASE Fail(i)
  <2>1. loads' \in [Launch -> Load] /\ \A j \in Launch : Well(loads'[j].next)
    BY <1>6, OverFacts, LoadType DEF Fail
  <2>. QED BY <1>6, <2>1 DEF Fail, TypeParts
<1>. QED BY <1>1, <1>2, <1>3, <1>4, <1>5, <1>6

LEMMA StoreType ==
  ASSUME TypeParts, Store \/ LoseWrite \/ Relaunch
  PROVE  TypeParts'
<1>1. ASSUME writes # <<>> PROVE Tail(writes) \in Seq(Patch) /\ Head(writes) \in Patch
  BY <1>1, HeadTailProperties DEF TypeParts
<1>2. CASE Store
  BY <1>1, <1>2 DEF Store, renderer, TypeParts
<1>3. CASE LoseWrite
  BY <1>1, <1>3 DEF LoseWrite, renderer, TypeParts
<1>4. CASE Relaunch
  <2>1. loads' \in [Launch -> Load] /\ \A j \in Launch : Well(loads'[j].next)
    BY <1>4, NotLoadedFacts DEF Relaunch, Launch
  <2>2. Well(layout') /\ Well(shown') /\ pending' \in Seq(Doable)
    BY <1>4, DefaultWell, EmptySeq DEF Relaunch
  <2>3. before' \in Layout
    BY <1>4 DEF Relaunch, TypeParts, Well
  <2>. QED BY <1>4, <2>1, <2>2, <2>3 DEF Relaunch, TypeParts
<1>. QED BY <1>2, <1>3, <1>4

LEMMA TypeStep ==
  ASSUME TypeInv, [Next]_vars
  PROVE  TypeInv'
<1>1. TypeParts
  BY TypeInvParts
<1>2. TypeParts'
  <2>1. CASE UNCHANGED vars
    BY <1>1, <2>1 DEF vars, renderer, TypeParts
  <2>2. CASE \E a : Does(a)
    BY <1>1, <2>2, DoesType
  <2>3. CASE (\E r \in RailId : Hold(r)) \/ Release \/ Render
    <3>1. "left" \in RailId
      BY DEF RailId
    <3>. QED BY <1>1, <2>3, <3>1, SplitterType
  <2>4. CASE \E i \in Launch : Choose(i) \/ Refuse(i) \/ StartLoad(i) \/ Read(i) \/ Finish(i) \/ Fail(i)
    BY <1>1, <2>4, StartupType
  <2>5. CASE Store \/ LoseWrite \/ Relaunch
    BY <1>1, <2>5, StoreType
  <2>. QED BY <2>1, <2>2, <2>3, <2>4, <2>5, NextSteps
<1>3. TypeInv' <=> TypeParts'
  BY TypeInvParts, PTL
<1>. QED BY <1>2, <1>3

(* Values keep their types; no rail is ever empty, and its active panel is *)
(* one of its own (normalizeRailState), also in what is done again to      *)
(* preferences that are read late.                                         *)
THEOREM TypeCorrect == Spec => []TypeOK
<1>1. Init => TypeInv
  BY TypeInit
<1>2. TypeInv /\ [Next]_vars => TypeInv'
  BY TypeStep
<1>3. TypeInv => TypeOK
  BY DEF TypeInv
<1>. QED BY <1>1, <1>2, <1>3, PTL DEF Spec
-----------------------------------------------------------------------------
(* What startup handlers do to each other.                                 *)

Booting(i) == loads[i].phase = "bootstrapping"

\* Two of them at most are busy, one of them once the shell is shown.
FewBusy ==
  /\ \A i, j, k \in Launch : Busy(i) /\ Busy(j) /\ Busy(k) => i = j \/ j = k \/ i = k
  /\ visible => \A i, j \in Launch : Busy(i) /\ Busy(j) => i = j

\* Before it is shown nothing was done, and nothing written.
Early ==
  ~ visible =>
    /\ writes = <<>> /\ pending = <<>> /\ ~ hydrated /\ dragging = "none"
    /\ \A i \in Launch : Booting(i) => loads[i].next = FromPreferences(stored)

Calm ==
  ~ crossed =>
    /\ pending = <<>> /\ layout = shown
    /\ \A i \in Launch : Booting(i) => loads[i].next = shown

LaunchInv == FewBusy /\ Early /\ Calm /\ (before # NoLayout => dragging = "none")

LEMMA LaunchInit ==
  ASSUME Init
  PROVE  LaunchInv
<1>1. \A i \in Launch : loads[i].phase = "idle"
  BY DEF Init, Mounted, NotLoaded, Launch
<1>. QED BY <1>1 DEF Init, Mounted, LaunchInv, FewBusy, Early, Calm, Busy, UnderWay, Booting

\* One startup handler goes on.
Goes(i, phase) ==
  /\ loads'[i].phase = phase
  /\ \A j \in Launch \ {i} : loads'[j] = loads[j]

LEMMA PhaseGoes ==
  ASSUME TypeInv, NEW i \in Launch, NEW phase, loads' = [loads EXCEPT ![i].phase = phase]
  PROVE  Goes(i, phase)
BY LoadParts DEF Goes, Load

LEMMA LoadGoes ==
  ASSUME TypeInv, NEW i \in Launch, NEW load, loads' = [loads EXCEPT ![i] = load]
  PROVE  Goes(i, load.phase) /\ loads'[i].next = load.next
BY LoadParts DEF Goes

\* How each of the startup handlers' steps changes its load.
LEMMA StartupGoes ==
  ASSUME TypeInv, NEW i \in Launch
  PROVE  /\ Choose(i)    => loads[i].phase = "idle" /\ Goes(i, "chosen")
         /\ Refuse(i)    => loads[i].phase = "chosen" /\ Goes(i, "over")
         /\ StartLoad(i) => loads[i].phase = "chosen" /\ Goes(i, "reading")
         /\ Read(i)      => /\ loads[i].phase = "reading" /\ Goes(i, "bootstrapping")
                            /\ loads'[i].next = Hydrated(stored)
         /\ Finish(i)    => loads[i].phase = "bootstrapping" /\ Goes(i, "over")
         /\ Fail(i)      => UnderWay(i) /\ Goes(i, "over")
<1>1. Choose(i) => loads[i].phase = "idle" /\ Goes(i, "chosen")
  BY PhaseGoes DEF Choose
<1>2. Refuse(i) => loads[i].phase = "chosen" /\ Goes(i, "over")
  BY PhaseGoes DEF Refuse
<1>3. StartLoad(i) => loads[i].phase = "chosen" /\ Goes(i, "reading")
  BY PhaseGoes DEF StartLoad
<1>4. ASSUME Read(i)
      PROVE  /\ loads[i].phase = "reading" /\ Goes(i, "bootstrapping")
             /\ loads'[i].next = Hydrated(stored)
  <2>1. PICK load : load = [phase |-> "bootstrapping", next |-> Hydrated(stored)]
    OBVIOUS
  <2>2. loads' = [loads EXCEPT ![i] = load]
    BY <1>4, <2>1 DEF Read
  <2>3. load.phase = "bootstrapping" /\ load.next = Hydrated(stored)
    BY <2>1
  <2>4. loads[i].phase = "reading"
    BY <1>4 DEF Read
  <2>5. Goes(i, load.phase) /\ loads'[i].next = load.next
    BY <2>2, LoadGoes
  <2>. QED BY <2>3, <2>4, <2>5
<1>5. ASSUME Finish(i) \/ Fail(i) PROVE Goes(i, "over")
  <2>1. PICK load : load = [NotLoaded EXCEPT !.phase = "over"]
    OBVIOUS
  <2>2. load.phase = "over"
    BY <2>1 DEF NotLoaded
  <2>3. loads' = [loads EXCEPT ![i] = load]
    BY <1>5, <2>1 DEF Finish, Fail
  <2>. QED BY <2>2, <2>3, LoadGoes
<1>6. (Finish(i) => loads[i].phase = "bootstrapping") /\ (Fail(i) => UnderWay(i))
  BY DEF Finish, Fail
<1>. QED BY <1>1, <1>2, <1>3, <1>4, <1>5, <1>6

LEMMA FewBusyStep ==
  ASSUME TypeInv, LaunchInv, NEW i \in Launch,
         Choose(i) \/ Refuse(i) \/ StartLoad(i) \/ Read(i) \/ Finish(i) \/ Fail(i)
  PROVE  FewBusy'
<1>1. Choose(i) \/ Busy(i)
  BY StartupGoes DEF Busy, UnderWay
<1>2. ASSUME NEW j \in Launch, j # i PROVE Busy(j)' <=> Busy(j)
  <2>1. loads'[j] = loads[j]
    BY <1>2, StartupGoes DEF Goes
  <2>. QED BY <2>1 DEF Busy, UnderWay
<1>3. CASE Choose(i)
  <2>1. ~ visible' /\ \A j, k \in Launch : Busy(j) /\ Busy(k) => j = k
    BY <1>3 DEF Choose, Launch
  <2>. QED BY <1>2, <2>1 DEF FewBusy
<1>4. CASE Refuse(i) \/ StartLoad(i) \/ Read(i)
  BY <1>1, <1>2, <1>4 DEF Choose, Refuse, StartLoad, Read, LaunchInv, FewBusy, Busy, UnderWay
<1>5. CASE Finish(i) \/ Fail(i)
  <2>1. ~ Busy(i)' /\ Busy(i)
    BY <1>5, StartupGoes DEF Goes, Busy, UnderWay
  <2>. QED BY <1>2, <2>1 DEF LaunchInv, FewBusy
<1>. QED BY <1>3, <1>4, <1>5

LEMMA LaunchStartup ==
  ASSUME TypeInv, LaunchInv, NEW i \in Launch,
         Choose(i) \/ Refuse(i) \/ StartLoad(i) \/ Read(i) \/ Finish(i) \/ Fail(i)
  PROVE  LaunchInv'
<1>1. FewBusy'
  BY FewBusyStep
<1>2. CASE Choose(i) \/ Refuse(i) \/ StartLoad(i)
  <2>1. ~ Booting(i)'
    BY <1>2, StartupGoes DEF Goes, Booting
  <2>2. \A j \in Launch \ {i} : loads'[j] = loads[j]
    BY <1>2, StartupGoes DEF Goes
  <2>3. \A j \in Launch : Booting(j)' => Booting(j) /\ loads'[j].next = loads[j].next
    BY <2>1, <2>2 DEF Booting
  <2>4. /\ UNCHANGED <<layout, shown, pending, visible, dragging, writes, stored, before, crossed>>
        /\ hydrated' => hydrated
    BY <1>2 DEF Choose, Refuse, StartLoad
  <2>. QED BY <1>1, <2>3, <2>4 DEF LaunchInv, Early, Calm
<1>3. CASE Read(i)
  <2>1. /\ layout' = Hydrated(stored) /\ shown' = Hydrated(stored) /\ loads'[i].next = Hydrated(stored)
        /\ UNCHANGED <<pending, hydrated, visible, dragging, writes, stored, before, crossed>>
    BY <1>3, StartupGoes DEF Read
  <2>2. \A j \in Launch \ {i} : loads'[j] = loads[j]
    BY <1>3, StartupGoes DEF Goes
  <2>3. pending = <<>> => Hydrated(stored) = FromPreferences(stored)
    BY HydratedFacts, TypeInvParts DEF TypeParts
  <2>4. Early'
    BY <2>1, <2>2, <2>3 DEF LaunchInv, Early, Booting
  <2>5. ASSUME ~ crossed, NEW j \in Launch, j # i, Booting(j)
        PROVE  loads[j].next = FromPreferences(stored)
    <3>1. Busy(i) /\ Busy(j)
      BY <1>3, <2>5, StartupGoes DEF Booting, Busy, UnderWay
    <3>2. ~ visible
      BY <2>5, <3>1 DEF LaunchInv, FewBusy
    <3>. QED BY <2>5, <3>2 DEF LaunchInv, Early
  <2>6. Calm'
    BY <2>1, <2>2, <2>3, <2>5 DEF LaunchInv, Calm, Booting
  <2>. QED BY <1>1, <2>1, <2>4, <2>6 DEF LaunchInv
<1>4. CASE Finish(i) \/ Fail(i)
  <2>1. \A j \in Launch \ {i} : loads'[j] = loads[j]
    BY <1>4, StartupGoes DEF Goes
  <2>2. ~ Booting(i)' /\ visible'
    BY <1>4, StartupGoes DEF Goes, Booting, Finish, Fail
  <2>3. UNCHANGED <<shown, dragging, before, crossed>>
    BY <1>4 DEF Finish, Fail
  <2>4. Early'
    BY <2>2 DEF Early
  <2>5. CASE Finish(i)
    <3>1. layout' = loads[i].next /\ pending' = <<>> /\ Booting(i)
      BY <2>5 DEF Finish, Booting
    <3>2. Calm'
      BY <2>1, <2>2, <2>3, <3>1 DEF LaunchInv, Calm, Booting
    <3>. QED BY <1>1, <2>3, <2>4, <3>2 DEF LaunchInv
  <2>6. CASE Fail(i)
    <3>1. UNCHANGED <<layout, pending>>
      BY <2>6 DEF Fail
    <3>2. Calm'
      BY <2>1, <2>2, <2>3, <3>1 DEF LaunchInv, Calm, Booting
    <3>. QED BY <1>1, <2>3, <2>4, <3>2 DEF LaunchInv
  <2>. QED BY <1>4, <2>5, <2>6
<1>. QED BY <1>2, <1>3, <1>4

LEMMA LaunchStep ==
  ASSUME TypeInv, LaunchInv, [Next]_vars
  PROVE  LaunchInv'
<1>. USE DEF LaunchInv, FewBusy, Early, Calm
<1>1. CASE UNCHANGED vars
  BY <1>1 DEF vars, renderer, Busy, UnderWay, Booting
<1>2. CASE \E a : Does(a)
  <2>1. PICK a : Does(a)
    BY <1>2
  <2>2. visible /\ before = NoLayout /\ UNCHANGED <<visible, loads, before, dragging>>
    BY <2>1 DEF Does, Act
  <2>3. FewBusy'
    BY <2>2 DEF Busy, UnderWay
  <2>4. ASSUME ~ crossed' PROVE pending' = <<>> /\ layout' = shown' /\ \A i \in Launch : ~ Booting(i)'
    <3>1. ~ crossed /\ hydrated /\ \A i \in Launch : ~ UnderWay(i)
      BY <2>1, <2>4 DEF Does, Apply, Crossing, Launch
    <3>2. pending' = pending /\ layout' = shown'
      BY <2>1, <3>1 DEF Does, Apply
    <3>. QED BY <2>2, <3>1, <3>2 DEF UnderWay, Booting
  <2>. QED BY <2>2, <2>3, <2>4
<1>3. CASE (\E r \in RailId : Hold(r)) \/ Render
  <2>1. CASE \E r \in RailId : Hold(r)
    BY <2>1 DEF Hold, Act, Busy, UnderWay, Booting
  <2>2. CASE Render
    BY <2>2 DEF Render, Busy, UnderWay, Booting
  <2>. QED BY <1>3, <2>1, <2>2
<1>4. CASE Release
  <2>1. /\ dragging # "none" /\ dragging' = "none" /\ (crossed => crossed')
        /\ UNCHANGED <<layout, shown, pending, hydrated, visible, loads, stored, before>>
    BY <1>4 DEF Release, Crossing
  <2>2. visible
    BY <2>1
  <2>. QED BY <2>1, <2>2 DEF Busy, UnderWay, Booting
<1>5. CASE \E i \in Launch : Choose(i) \/ Refuse(i) \/ StartLoad(i) \/ Read(i) \/ Finish(i) \/ Fail(i)
  BY <1>5, LaunchStartup
<1>6. CASE Store \/ LoseWrite
  <2>1. writes # <<>> /\ UNCHANGED <<renderer, before, crossed>>
    BY <1>6 DEF Store, LoseWrite
  <2>2. visible
    BY <2>1
  <2>. QED BY <2>1, <2>2 DEF renderer, Busy, UnderWay, Booting
<1>7. CASE Relaunch
  <2>1. \A i \in Launch : loads'[i].phase = "idle"
    BY <1>7 DEF Relaunch, NotLoaded, Launch
  <2>2. /\ writes = <<>> /\ pending' = <<>> /\ ~ hydrated' /\ dragging' = "none" /\ layout' = shown'
        /\ writes' = writes
    BY <1>7 DEF Relaunch, Quiet
  <2>. QED BY <2>1, <2>2 DEF Busy, UnderWay, Booting
<1>. QED BY <1>1, <1>2, <1>3, <1>4, <1>5, <1>6, <1>7, NextSteps
-----------------------------------------------------------------------------
(* The place of each panel.                                                *)

LEMMA RailParts ==
  ASSUME NEW rail \in Rail
  PROVE  rail = [expanded |-> rail.expanded, width |-> rail.width, docked |-> rail.docked,
                 active |-> rail.active]
BY DEF Rail

\* A rail that is in order is left as it is.
LEMMA NormalizedSame ==
  ASSUME NEW r \in RailId, NEW rail \in Rail, NoRepeat(rail.docked), rail.active \in ToSet(rail.docked)
  PROVE  Normalized(rail, r) = rail
<1>1. rail \in Loose(Panel \cup {NoPanel}) /\ rail.docked # <<>>
  <2>1. rail.docked \in Seq(Panel)
    BY DEF Rail
  <2>2. ToSet(rail.docked) # {}
    OBVIOUS
  <2>3. rail.docked # <<>>
    BY <2>2 DEF ToSet
  <2>. QED BY <2>3, RailIsLoose
<1>2. PICK n : n = Normalized(rail, r)
  OBVIOUS
<1>3. /\ n \in Rail /\ n.expanded = rail.expanded /\ n.width = rail.width
      /\ n.docked = rail.docked /\ n.active = rail.active
  BY <1>1, <1>2, NormalizedFacts
<1>. QED BY <1>2, <1>3, RailParts

LEMMA WellParts ==
  ASSUME NEW l, Well(l), NEW r \in RailId
  PROVE  /\ l.rail[r] \in Rail /\ l.rail[r].docked \in Seq(Panel) /\ l.rail[r].docked # <<>>
         /\ l.rail[r].active \in ToSet(l.rail[r].docked) /\ ToSet(l.rail[r].docked) \subseteq Panel
<1>1. l.rail[r] \in Rail /\ l.rail[r].docked \in Seq(Panel) /\ l.rail[r].active \in ToSet(l.rail[r].docked)
  BY LayoutParts DEF Well, Docked
<1>. QED BY <1>1, SequenceFacts

(* A layout that is in order comes back from the preferences as it was.    *)
LEMMA RoundTrip ==
  ASSUME NEW l, Well(l), OnePlace(l)
  PROVE  FromPreferences(ToPreferences(l)) = l
<1>1. PICK p : p = ToPreferences(l)
  OBVIOUS
<1>2. p.rail = l.rail /\ p.canvas = l.canvas
  BY <1>1 DEF ToPreferences
<1>3. \A r \in RailId : Normalized(l.rail[r], r) = l.rail[r]
  BY WellParts, NormalizedSame DEF OnePlace
<1>4. l.rail \in [RailId -> Rail] /\ l = [rail |-> l.rail, canvas |-> l.canvas, undocked |-> l.undocked]
  BY LayoutParts DEF Well
<1>5. [r \in RailId |-> Normalized(p.rail[r], r)] = l.rail
  BY <1>2, <1>3, <1>4
<1>. QED BY <1>1, <1>2, <1>4, <1>5 DEF FromPreferences, OnePlace

\* What may be stored: no rail is empty, and none has a panel of the other.
Sound(p) == Apart(p.rail) /\ \A r \in RailId : p.rail[r].docked # <<>>

LEMMA SoundWritten ==
  ASSUME NEW l, Well(l), OnePlace(l)
  PROVE  Sound(ToPreferences(l))
BY WellParts DEF Sound, OnePlace, ToPreferences

LEMMA SoundRead ==
  ASSUME NEW p \in Patch, Sound(p)
  PROVE  OnePlace(FromPreferences(p))
<1>1. PICK l : l = FromPreferences(p)
  OBVIOUS
<1>2. l.rail = [r \in RailId |-> Normalized(p.rail[r], r)] /\ l.undocked = DeriveUndocked(l.rail)
  BY <1>1, ReadParts
<1>3. ASSUME NEW r \in RailId
      PROVE  NoRepeat(l.rail[r].docked) /\ ToSet(l.rail[r].docked) = ToSet(p.rail[r].docked)
  <2>1. PICK rail : rail = p.rail[r]
    OBVIOUS
  <2>2. rail \in Loose(Panel \cup {NoPanel}) /\ rail.docked # <<>>
    BY <2>1, PatchParts DEF Sound
  <2>3. NoRepeat(Normalized(rail, r).docked) /\ ToSet(Normalized(rail, r).docked) = ToSet(rail.docked)
    BY <2>2, NormalizedFacts
  <2>. QED BY <1>2, <2>1, <2>3
<1>4. Apart(l.rail)
  BY <1>3 DEF Sound, Apart, RailId
<1>. QED BY <1>1, <1>2, <1>3, <1>4 DEF OnePlace

(* A rail of a layout in order is replaced by one with no panel twice.     *)
LEMMA RailPlaced ==
  ASSUME NEW l, Well(l), OnePlace(l), NEW r \in RailId, NEW A, NEW rail \in Loose(A),
         rail.docked # <<>>, NoRepeat(rail.docked)
  PROVE  LET m == WithRail(l, r, rail)
         IN /\ Well(m) /\ m.canvas = l.canvas /\ m.undocked = l.undocked
            /\ m.rail[r].docked = rail.docked
            /\ m.rail[r].expanded = rail.expanded /\ m.rail[r].width = rail.width
            /\ \A s \in RailId \ {r} : m.rail[s] = l.rail[s]
            /\ \A s \in RailId : NoRepeat(m.rail[s].docked)
<1>1. PICK n : n = Normalized(rail, r)
  OBVIOUS
<1>2. PICK m : m = WithRail(l, r, rail)
  OBVIOUS
<1>3. n.docked = rail.docked /\ n.expanded = rail.expanded /\ n.width = rail.width
  BY <1>1, NormalizedFacts
<1>4. Replaced(l, r, n, m)
  BY <1>1, <1>2, WithRailFacts DEF Well
<1>5. Well(m)
  BY <1>2, WithRailWell
<1>6. \A s \in RailId : NoRepeat(m.rail[s].docked)
  BY <1>3, <1>4 DEF Replaced, OnePlace
<1>. QED BY <1>2, <1>3, <1>4, <1>5, <1>6 DEF Replaced

\* The other rail.
Other(r) == IF r = "left" THEN "right" ELSE "left"

LEMMA TwoRails ==
  ASSUME NEW r \in RailId
  PROVE  /\ Other(r) \in RailId /\ Other(r) # r /\ RailId = {r, Other(r)}
         /\ \A l : OnePlace(l) <=>
              /\ ToSet(l.rail[r].docked) \cap ToSet(l.rail[Other(r)].docked) = {}
              /\ NoRepeat(l.rail[r].docked) /\ NoRepeat(l.rail[Other(r)].docked)
              /\ l.undocked = Panel \ (ToSet(l.rail[r].docked) \cup ToSet(l.rail[Other(r)].docked))
<1>1. Other(r) \in RailId /\ Other(r) # r /\ RailId = {r, Other(r)}
  BY DEF Other, RailId
<1>2. ASSUME NEW l
      PROVE  OnePlace(l) <=>
              /\ ToSet(l.rail[r].docked) \cap ToSet(l.rail[Other(r)].docked) = {}
              /\ NoRepeat(l.rail[r].docked) /\ NoRepeat(l.rail[Other(r)].docked)
              /\ l.undocked = Panel \ (ToSet(l.rail[r].docked) \cup ToSet(l.rail[Other(r)].docked))
  <2>1. DeriveUndocked(l.rail) = Panel \ (ToSet(l.rail["left"].docked) \cup ToSet(l.rail["right"].docked))
    BY Floating
  <2>2. CASE r = "left"
    BY <2>1, <2>2 DEF OnePlace, Apart, RailId, Other
  <2>3. CASE r = "right"
    BY <2>1, <2>3 DEF OnePlace, Apart, RailId, Other
  <2>. QED BY <2>2, <2>3 DEF RailId
<1>. QED BY <1>1, <1>2

LEMMA RailInPlace ==
  ASSUME NEW l, Well(l), OnePlace(l), NEW r \in RailId, NEW A, NEW rail \in Loose(A),
         NoRepeat(rail.docked), ToSet(rail.docked) = ToSet(l.rail[r].docked)
  PROVE  OnePlace(WithRail(l, r, rail))
<1>1. rail.docked # <<>>
  <2>1. ToSet(rail.docked) # {}
    BY WellParts
  <2>. QED BY <2>1 DEF ToSet
<1>2. PICK m : m = WithRail(l, r, rail)
  OBVIOUS
<1>3. /\ m.undocked = l.undocked /\ m.rail[r].docked = rail.docked
      /\ \A s \in RailId \ {r} : m.rail[s] = l.rail[s]
  BY <1>1, <1>2, RailPlaced
<1>4. PICK s : s = Other(r)
  OBVIOUS
<1>5. \A k : OnePlace(k) <=>
              /\ ToSet(k.rail[r].docked) \cap ToSet(k.rail[s].docked) = {}
              /\ NoRepeat(k.rail[r].docked) /\ NoRepeat(k.rail[s].docked)
              /\ k.undocked = Panel \ (ToSet(k.rail[r].docked) \cup ToSet(k.rail[s].docked))
  BY <1>4, TwoRails
<1>6. m.rail[s] = l.rail[s]
  BY <1>3, <1>4, TwoRails
<1>7. OnePlace(m)
  BY <1>3, <1>5, <1>6
<1>. QED BY <1>2, <1>7
\* What two rails of a layout in order say of each other, and of what floats.
Placed(l, r, s) ==
  /\ ToSet(l.rail[r].docked) \cap ToSet(l.rail[s].docked) = {}
  /\ NoRepeat(l.rail[r].docked) /\ NoRepeat(l.rail[s].docked)
  /\ l.undocked = Panel \ (ToSet(l.rail[r].docked) \cup ToSet(l.rail[s].docked))

LEMMA ActivatePlace ==
  ASSUME NEW l, Well(l), OnePlace(l), NEW r \in RailId, NEW p \in Panel \cup {NoPanel}
  PROVE  LET m == WithRail(l, r, [l.rail[r] EXCEPT !.active = p])
         IN OnePlace(m) /\ Settled(m) = Settled(l)
<1>1. PICK old : old = l.rail[r]
  OBVIOUS
<1>2. PICK rail : rail = [old EXCEPT !.active = p]
  OBVIOUS
<1>3. old \in Rail /\ old.docked # <<>> /\ NoRepeat(old.docked)
  BY <1>1, WellParts DEF OnePlace
<1>4. /\ rail \in Loose(Panel \cup {NoPanel}) /\ rail.docked = old.docked
      /\ rail.expanded = old.expanded /\ rail.width = old.width
  BY <1>2, <1>3 DEF Rail, Loose
<1>5. PICK m : m = WithRail(l, r, rail)
  OBVIOUS
<1>6. OnePlace(m)
  BY <1>1, <1>3, <1>4, <1>5, RailInPlace
<1>7. /\ Well(m) /\ m.canvas = l.canvas /\ m.undocked = l.undocked
      /\ m.rail[r].docked = old.docked /\ m.rail[r].expanded = old.expanded /\ m.rail[r].width = old.width
      /\ \A s \in RailId \ {r} : m.rail[s] = l.rail[s]
  BY <1>3, <1>4, <1>5, RailPlaced
<1>8. \A s \in RailId : [m.rail[s] EXCEPT !.active = NoPanel] = [l.rail[s] EXCEPT !.active = NoPanel]
  <2>1. PICK new : new = m.rail[r]
    OBVIOUS
  <2>2. new \in Rail
    BY <1>7, <2>1, WellParts
  <2>3. [new EXCEPT !.active = NoPanel] = [old EXCEPT !.active = NoPanel]
    BY <1>3, <1>7, <2>1, <2>2 DEF Rail
  <2>4. ASSUME NEW s \in RailId, s # r PROVE m.rail[s] = l.rail[s]
    BY <1>7, <2>4
  <2>. QED BY <1>1, <2>1, <2>3, <2>4
<1>9. Settled(m) = Settled(l)
  BY <1>7, <1>8 DEF Settled
<1>. QED BY <1>1, <1>2, <1>5, <1>6, <1>9

LEMMA ReorderPlace ==
  ASSUME NEW l, Well(l), OnePlace(l), NEW r \in RailId, NEW i \in DOMAIN l.rail[r].docked,
         i + 1 \in DOMAIN l.rail[r].docked
  PROVE  OnePlace(Reorder(l, r, Swapped(l.rail[r].docked, i)))
<1>1. PICK old : old = l.rail[r]
  OBVIOUS
<1>2. PICK panels : panels = Swapped(old.docked, i)
  OBVIOUS
<1>3. old \in Rail /\ old.docked \in Seq(Panel) /\ NoRepeat(old.docked)
  BY <1>1, WellParts DEF OnePlace
<1>4. panels \in Seq(Panel) /\ ToSet(panels) = ToSet(old.docked) /\ NoRepeat(panels)
  BY <1>1, <1>2, <1>3, SwappedFacts
<1>5. PICK active : active = IF old.active \in ToSet(panels) THEN old.active ELSE panels[1]
  OBVIOUS
<1>6. PICK rail : rail = [old EXCEPT !.docked = panels, !.active = active]
  OBVIOUS
<1>7. rail \in Loose({active}) /\ rail.docked = panels
  BY <1>3, <1>4, <1>6 DEF Rail, Loose
<1>8. OnePlace(WithRail(l, r, rail))
  BY <1>1, <1>4, <1>7, RailInPlace
<1>. QED BY <1>1, <1>2, <1>5, <1>6, <1>8 DEF Reorder

LEMMA UndockPlace ==
  ASSUME NEW l, Well(l), OnePlace(l), NEW p \in Panel
  PROVE  OnePlace(Undock(l, p))
<1>1. PICK r : r = IF p \in Docked(l, "left") THEN "left" ELSE "right"
  OBVIOUS
<1>2. r \in RailId
  BY <1>1 DEF RailId
<1>3. CASE ~ Undockable(l, r, p)
  BY <1>1, <1>3 DEF Undock
<1>4. CASE Undockable(l, r, p)
  <2>1. PICK old : old = l.rail[r]
    OBVIOUS
  <2>2. old \in Rail /\ old.docked \in Seq(Panel) /\ NoRepeat(old.docked)
    BY <1>2, <2>1, WellParts DEF OnePlace
  <2>3. p \in ToSet(old.docked) /\ Len(old.docked) > 1
    BY <1>4, <2>1 DEF Undockable, Docked
  <2>4. PICK rail : rail = Without(old, p)
    OBVIOUS
  <2>5. rail \in Rail /\ NoRepeat(rail.docked) /\ ToSet(rail.docked) = ToSet(old.docked) \ {p}
    BY <2>2, <2>4, WithoutFacts
  <2>6. rail.docked # <<>>
    <3>1. Len(old.docked) \in Nat /\ DOMAIN old.docked = 1..Len(old.docked)
      BY <2>2, SequenceFacts
    <3>2. 1 \in DOMAIN old.docked /\ 2 \in DOMAIN old.docked
      BY <2>3, <3>1
    <3>3. old.docked[1] # old.docked[2]
      BY <2>2, <3>2 DEF NoRepeat
    <3>4. ToSet(rail.docked) # {}
      <4>1. old.docked[1] \in ToSet(old.docked) /\ old.docked[2] \in ToSet(old.docked)
        BY <3>2 DEF ToSet
      <4>. QED BY <2>5, <3>3, <4>1
    <3>. QED BY <3>4 DEF ToSet
  <2>7. PICK m : m = WithRail(l, r, rail)
    OBVIOUS
  <2>8. /\ Well(m) /\ m.canvas = l.canvas /\ m.undocked = l.undocked /\ m.rail[r].docked = rail.docked
        /\ \A s \in RailId \ {r} : m.rail[s] = l.rail[s]
    BY <1>2, <2>5, <2>6, <2>7, RailIsLoose, RailPlaced
  <2>9. PICK S : S = m.undocked \cup {p}
    OBVIOUS
  <2>10. PICK k : k = [m EXCEPT !.undocked = S]
    OBVIOUS
  <2>11. S \subseteq Panel
    BY <2>8, <2>9, LayoutParts DEF Well
  <2>12. k.rail = m.rail /\ k.undocked = S
    BY <2>8, <2>10, <2>11, FloatingPanels
  <2>13. PICK s : s = Other(r)
    OBVIOUS
  <2>14. s \in RailId /\ s # r /\ \A n : OnePlace(n) <=> Placed(n, r, s)
    BY <1>2, <2>13, TwoRails DEF Placed
  <2>15. Placed(l, r, s) /\ m.rail[s] = l.rail[s]
    BY <2>8, <2>14
  <2>16. Placed(k, r, s)
    BY <2>1, <2>3, <2>5, <2>8, <2>9, <2>12, <2>15 DEF Placed
  <2>17. Undock(l, p) = k
    BY <1>1, <1>4, <2>1, <2>4, <2>7, <2>9, <2>10 DEF Undock
  <2>. QED BY <2>14, <2>16, <2>17
<1>. QED BY <1>3, <1>4

LEMMA DockPlace ==
  ASSUME NEW l, Well(l), OnePlace(l), NEW p \in l.undocked, NEW r \in RailId
  PROVE  OnePlace(Dock(l, p, r))
<1>1. PICK s : s = Other(r)
  OBVIOUS
<1>2. s \in RailId /\ s # r /\ RailId = {r, s} /\ \A n : OnePlace(n) <=> Placed(n, r, s)
  BY <1>1, TwoRails DEF Placed
<1>3. Placed(l, r, s) /\ p \in Panel
  BY <1>2, LayoutParts DEF Well
<1>4. p \notin Docked(l, r) /\ p \notin Docked(l, s)
  BY <1>3 DEF Placed, Docked
<1>5. Lift(l, p) = l
  BY <1>2, <1>4 DEF Lift, RailsOf
<1>6. PICK old : old = l.rail[r]
  OBVIOUS
<1>7. old \in Rail /\ old.docked \in Seq(Panel) /\ NoRepeat(old.docked) /\ p \notin ToSet(old.docked)
  BY <1>4, <1>6, WellParts DEF OnePlace, Docked
<1>8. PICK rest : rest = Without(old, p)
  OBVIOUS
<1>9. rest \in Rail /\ rest.docked = old.docked
  BY <1>7, <1>8, WithoutFacts
<1>10. PICK docked : docked = Append(rest.docked, p)
  OBVIOUS
<1>11. /\ docked \in Seq(Panel) /\ docked # <<>> /\ NoRepeat(docked)
       /\ ToSet(docked) = ToSet(old.docked) \cup {p}
  <2>1. PICK q : q = old.docked
    OBVIOUS
  <2>2. q \in Seq(Panel) /\ NoRepeat(q) /\ p \notin ToSet(q) /\ p \in Panel
    BY <1>3, <1>7, <2>1
  <2>3. /\ Append(q, p) \in Seq(Panel) /\ Append(q, p) # <<>> /\ NoRepeat(Append(q, p))
        /\ ToSet(Append(q, p)) = ToSet(q) \cup {p}
    BY <2>2, AppendFacts
  <2>. QED BY <1>9, <1>10, <2>1, <2>3
<1>12. PICK rail : rail = [rest EXCEPT !.docked = docked, !.active = p]
  OBVIOUS
<1>13. rail \in Rail /\ rail.docked = docked
  <2>1. p \in Panel /\ rest \in Rail /\ docked \in Seq(Panel)
    BY <1>3, <1>9, <1>11
  <2>. QED BY <1>12, <2>1 DEF Rail
<1>14. PICK m : m = WithRail(l, r, rail)
  OBVIOUS
<1>15. /\ Well(m) /\ m.undocked = l.undocked /\ m.rail[r].docked = rail.docked
       /\ \A t \in RailId \ {r} : m.rail[t] = l.rail[t]
  <2>1. rail \in Loose(Panel \cup {NoPanel})
    BY <1>13, RailIsLoose
  <2>. QED BY <1>11, <1>13, <1>14, <2>1, RailPlaced
<1>16. PICK S : S = m.undocked \ {p}
  OBVIOUS
<1>17. PICK k : k = [m EXCEPT !.undocked = S]
  OBVIOUS
<1>18. S \subseteq Panel
  BY <1>15, <1>16, LayoutParts DEF Well
<1>19. k.rail = m.rail /\ k.undocked = S
  BY <1>15, <1>17, <1>18, FloatingPanels
<1>20. m.rail[s] = l.rail[s]
  BY <1>2, <1>15
<1>21. Placed(k, r, s)
  BY <1>3, <1>4, <1>6, <1>11, <1>13, <1>15, <1>16, <1>19, <1>20 DEF Placed, Docked
<1>22. Dock(l, p, r) = k
  BY <1>5, <1>6, <1>8, <1>10, <1>12, <1>14, <1>16, <1>17 DEF Dock
<1>. QED BY <1>2, <1>21, <1>22

(* What the user does leaves each panel one place.                         *)
LEMMA ReducePlace ==
  ASSUME TypeInv, OnePlace(shown), layout = shown, NEW a, Offered(a)
  PROVE  OnePlace(Reduce(shown, a))
<1>1. /\ a \in Doable /\ a.rail \in RailId /\ a.panel \in Panel \cup {NoPanel} /\ a.panels \in Seq(Panel)
      /\ a.type \in {"toggle", "toggle_canvas", "expand_right_rail", "activate", "reorder", "undock",
                     "dock", "set_width"}
      /\ a.width \in Width \cup {NoWidth}
  BY DEF Offered, Doable, Actions
<1>2. PICK l : l = shown
  OBVIOUS
<1>3. Well(l) /\ OnePlace(l) /\ l \in Layout
  BY <1>2, WellLayouts DEF Well
<1>4. CASE a.type = "toggle"
  BY <1>1, <1>2, <1>3, <1>4, ToggleResizes, ResizedKeeps DEF Reduce
<1>5. CASE a.type = "toggle_canvas"
  BY <1>2, <1>3, <1>5, CanvasResizes, ResizedKeeps DEF Reduce
<1>6. CASE a.type = "expand_right_rail"
  <2>1. Resized(l, [l EXCEPT !.rail["right"].expanded = TRUE])
    BY <1>3, ExpandResizes DEF RailId
  <2>. QED BY <1>2, <1>3, <1>6, <2>1, ResizedKeeps DEF Reduce
<1>7. CASE a.type = "activate"
  <2>1. Reduce(l, a) = WithRail(l, a.rail, [l.rail[a.rail] EXCEPT !.active = a.panel])
    BY <1>7 DEF Reduce
  <2>. QED BY <1>1, <1>2, <1>3, <2>1, ActivatePlace
<1>8. CASE a.type = "reorder"
  <2>1. PICK i \in DOMAIN l.rail[a.rail].docked :
          i + 1 \in DOMAIN l.rail[a.rail].docked /\ a.panels = Swapped(l.rail[a.rail].docked, i)
    BY <1>2, <1>8 DEF Offered
  <2>2. Reduce(l, a) = Reorder(l, a.rail, a.panels)
    BY <1>8 DEF Reduce
  <2>. QED BY <1>1, <1>2, <1>3, <2>1, <2>2, ReorderPlace
<1>9. CASE a.type = "undock"
  <2>1. Reduce(l, a) = Undock(l, a.panel)
    BY <1>9 DEF Reduce
  <2>2. CASE a.panel \in Panel
    BY <1>2, <1>3, <2>1, <2>2, UndockPlace
  <2>3. CASE a.panel = NoPanel
    <3>1. NoPanel \notin Docked(l, "left") /\ NoPanel \notin Docked(l, "right")
      BY <1>3, WellParts DEF PanelAssumption, Docked, RailId
    <3>. QED BY <1>2, <1>3, <2>1, <2>3, <3>1 DEF Undock, Undockable
  <2>. QED BY <1>1, <2>2, <2>3
<1>10. CASE a.type = "dock"
  <2>1. Reduce(l, a) = Dock(l, a.panel, a.rail)
    BY <1>10 DEF Reduce
  <2>2. a.panel \in l.undocked
    BY <1>2, <1>10 DEF Offered
  <2>. QED BY <1>1, <1>2, <1>3, <2>1, <2>2, DockPlace
<1>11. CASE a.type = "set_width"
  <2>1. Resized(l, [l EXCEPT !.rail[a.rail].width = a.width])
    BY <1>1, <1>3, WidthResizes
  <2>2. Reduce(l, a) = [l EXCEPT !.rail[a.rail].width = a.width]
    BY <1>11 DEF Reduce
  <2>. QED BY <1>2, <1>3, <2>1, <2>2, ResizedKeeps
<1>. QED BY <1>1, <1>4, <1>5, <1>6, <1>7, <1>8, <1>9, <1>10, <1>11
\* Where a layout may be read from: the environment's file, and what is on its way there.
Files == {stored} \cup ToSet(writes)

Newest == IF writes = <<>> THEN stored ELSE writes[Len(writes)]

LEMMA FilesWritten ==
  ASSUME TypeInv, NEW l \in Layout, Persist(l), stored' = stored
  PROVE  Files' = Files \cup {ToPreferences(l)} /\ Newest' = ToPreferences(l)
<1>1. PICK q : q = writes
  OBVIOUS
<1>2. PICK p : p = ToPreferences(l)
  OBVIOUS
<1>3. q \in Seq(Patch) /\ p \in Patch
  BY <1>1, <1>2, StoredParts DEF TypeInv, TypeOK
<1>4. PICK line : line = Append(q, p)
  OBVIOUS
<1>5. /\ line # <<>> /\ Len(line) = Len(q) + 1 /\ line[Len(q) + 1] = p
      /\ ToSet(line) = ToSet(q) \cup {p}
  BY <1>3, <1>4, AppendFacts
<1>6. writes' = line
  BY <1>1, <1>2, <1>4 DEF Persist
<1>. QED BY <1>1, <1>2, <1>5, <1>6 DEF Files, Newest

LEMMA FilesStored ==
  ASSUME TypeInv, Store \/ LoseWrite
  PROVE  /\ Files' \subseteq Files
         /\ Store => Newest' = Newest
<1>1. PICK q : q = writes
  OBVIOUS
<1>2. q \in Seq(Patch) /\ q # <<>> /\ writes' = Tail(q)
  BY <1>1 DEF TypeInv, TypeOK, Store, LoseWrite
<1>3. /\ Len(q) \in Nat /\ DOMAIN q = 1..Len(q) /\ Len(q) # 0 /\ Head(q) = q[1]
  BY <1>2, LenProperties, EmptySeq, HeadTailProperties
<1>4. PICK rest : rest = Tail(q)
  OBVIOUS
<1>5. /\ rest \in Seq(Patch) /\ Len(rest) = Len(q) - 1 /\ DOMAIN rest = 1..Len(rest)
      /\ \A k \in 1..Len(rest) : rest[k] = q[k + 1]
  BY <1>2, <1>4, HeadTailProperties, LenProperties
<1>6. ASSUME NEW x \in ToSet(rest) PROVE x \in ToSet(q)
  <2>1. PICK k \in 1..Len(rest) : x = q[k + 1]
    BY <1>5 DEF ToSet
  <2>2. k + 1 \in DOMAIN q
    BY <1>3, <1>5
  <2>. QED BY <2>1, <2>2 DEF ToSet
<1>7. q[1] \in ToSet(q)
  BY <1>3 DEF ToSet
<1>8. stored' = stored \/ stored' = q[1]
  BY <1>1, <1>3 DEF Store, LoseWrite
<1>9. Files' \subseteq Files
  BY <1>1, <1>2, <1>4, <1>6, <1>7, <1>8 DEF Files
<1>10. ASSUME Store PROVE Newest' = Newest
  <2>1. Newest = q[Len(q)] /\ writes' = rest /\ stored' = q[1]
    BY <1>1, <1>2, <1>3, <1>4, <1>10 DEF Newest, Store
  <2>2. CASE rest = <<>>
    <3>1. Len(q) = 1
      <4>1. Len(rest) = 0
        BY <2>2, EmptySeq
      <4>2. Len(rest) = Len(q) - 1
        BY <1>5
      <4>3. Len(q) \in Nat
        BY <1>3
      <4>. QED BY <4>1, <4>2, <4>3
    <3>. QED BY <2>1, <2>2, <3>1 DEF Newest
  <2>3. CASE rest # <<>>
    <3>1. Len(rest) \in 1..Len(rest)
      BY <1>3, <1>5, <2>3, EmptySeq
    <3>2. rest[Len(rest)] = q[Len(q)]
      BY <1>3, <1>5, <3>1
    <3>. QED BY <2>1, <2>3, <3>2 DEF Newest
  <2>. QED BY <2>2, <2>3
<1>. QED BY <1>9, <1>10

\* A layout that was read is shown, though it may yet be read again.
Ready == hydrated \/ \E i \in Launch : Booting(i)

PlaceInv ==
  ~ crossed =>
    /\ \A p \in Files : Sound(p)
    /\ Ready => OnePlace(shown)

LEMMA PlaceInit ==
  ASSUME Init
  PROVE  PlaceInv
<1>1. Files = {stored} /\ stored \in Images
  BY DEF Init, Files, ToSet
<1>2. Sound(stored)
  BY <1>1, ImageAssumption DEF Sound, Apart
<1>3. ~ Ready
  BY DEF Init, Mounted, NotLoaded, Ready, Booting, Launch
<1>. QED BY <1>1, <1>2, <1>3 DEF PlaceInv

\* A handler that an action did not cross, and what it leaves to be shown.
LEMMA Uncrossed ==
  ASSUME TypeInv, LaunchInv, ~ crossed', Crossing
  PROVE  ~ crossed /\ hydrated /\ layout = shown /\ pending = <<>> /\ \A i \in Launch : ~ UnderWay(i)
BY DEF Crossing, LaunchInv, Calm, Launch

LEMMA PlaceDoes ==
  ASSUME TypeInv, TypeInv', LaunchInv, PlaceInv, NEW a, Does(a), ~ crossed'
  PROVE  /\ OnePlace(shown) /\ OnePlace(shown') /\ layout' = shown' /\ shown' = Reduce(shown, a)
         /\ \A p \in Files' : Sound(p)
<1>1. Crossing /\ Offered(a) /\ stored' = stored
  BY DEF Does, Apply, Act
<1>2. ~ crossed /\ hydrated /\ layout = shown
  BY <1>1, Uncrossed
<1>3. OnePlace(shown)
  BY <1>2 DEF PlaceInv, Ready
<1>4. shown' = Reduce(shown, a) /\ layout' = shown'
  BY <1>2 DEF Does, Apply
<1>5. OnePlace(shown')
  BY <1>1, <1>2, <1>3, <1>4, ReducePlace
<1>6. Well(shown') /\ layout' \in Layout
  BY <1>4 DEF TypeInv, TypeOK, Well
<1>7. CASE UNCHANGED writes
  <2>1. Files' = Files
    BY <1>1, <1>7 DEF Files
  <2>. QED BY <1>2, <1>3, <1>4, <1>5, <2>1 DEF PlaceInv
<1>8. CASE Persist(layout')
  <2>1. Files' = Files \cup {ToPreferences(shown')}
    BY <1>1, <1>4, <1>6, <1>8, FilesWritten
  <2>. QED BY <1>2, <1>3, <1>4, <1>5, <1>6, <2>1, SoundWritten DEF PlaceInv
<1>. QED BY <1>3, <1>4, <1>5, <1>7, <1>8 DEF Does

LEMMA StartupStops ==
  ASSUME TypeInv, NEW i \in Launch, Choose(i) \/ Refuse(i) \/ StartLoad(i) \/ Fail(i)
  PROVE  /\ Ready' => Ready
         /\ UNCHANGED <<layout, shown, pending, dragging, writes, stored, before, crossed, lost>>
         /\ hydrated' => hydrated
<1>1. ~ Booting(i)' /\ \A j \in Launch \ {i} : loads'[j] = loads[j]
  BY StartupGoes DEF Goes, Booting
<1>2. /\ UNCHANGED <<layout, shown, pending, dragging, writes, stored, before, crossed, lost>>
      /\ hydrated' => hydrated
  BY DEF Choose, Refuse, StartLoad, Fail
<1>. QED BY <1>1, <1>2 DEF Ready, Booting

LEMMA FinishFacts ==
  ASSUME TypeInv, LaunchInv, PlaceInv, NEW i \in Launch, Finish(i), ~ crossed
  PROVE  /\ OnePlace(shown) /\ loads[i].next = shown /\ Well(shown)
         /\ Files' = Files \cup {ToPreferences(shown)} /\ Newest' = ToPreferences(shown)
         /\ UNCHANGED <<shown, dragging, stored, before, crossed, lost>>
<1>1. /\ Booting(i) /\ Persist(loads[i].next)
      /\ UNCHANGED <<shown, dragging, stored, before, crossed, lost>>
  BY DEF Finish, Booting
<1>2. loads[i].next = shown
  BY <1>1 DEF LaunchInv, Calm
<1>3. OnePlace(shown)
  BY <1>1 DEF PlaceInv, Ready
<1>4. Well(shown) /\ shown \in Layout
  BY WellLayouts DEF Well
<1>. QED BY <1>1, <1>2, <1>3, <1>4, FilesWritten

LEMMA ReleaseFacts ==
  ASSUME TypeInv, LaunchInv, PlaceInv, Release, ~ crossed'
  PROVE  /\ ~ crossed /\ hydrated /\ OnePlace(shown) /\ Well(shown)
         /\ Files' = Files \cup {ToPreferences(shown)} /\ Newest' = ToPreferences(shown)
         /\ \A i \in Launch : ~ UnderWay(i)
<1>1. Crossing /\ Persist(layout) /\ stored' = stored
  BY DEF Release
<1>2. ~ crossed /\ hydrated /\ layout = shown /\ \A i \in Launch : ~ UnderWay(i)
  BY <1>1, Uncrossed
<1>3. OnePlace(shown)
  BY <1>2 DEF PlaceInv, Ready
<1>4. Well(shown) /\ shown \in Layout
  BY WellLayouts DEF Well
<1>. QED BY <1>1, <1>2, <1>3, <1>4, FilesWritten

LEMMA ReadFacts ==
  ASSUME TypeInv, LaunchInv, NEW i \in Launch, Read(i), ~ crossed
  PROVE  /\ shown' = FromPreferences(stored) /\ stored \in Patch
         /\ UNCHANGED <<pending, hydrated, visible, dragging, writes, stored, before, crossed, lost>>
<1>1. pending = <<>> /\ pending \in Seq(Doable) /\ stored \in Patch
  BY DEF LaunchInv, Calm, TypeInv, TypeOK
<1>2. Hydrated(stored) = FromPreferences(stored)
  BY <1>1, HydratedFacts
<1>. QED BY <1>1, <1>2 DEF Read

LEMMA PlaceStep ==
  ASSUME TypeInv, TypeInv', LaunchInv, PlaceInv, [Next]_vars
  PROVE  PlaceInv'
<1>. SUFFICES ASSUME ~ crossed'
              PROVE  (\A p \in Files' : Sound(p)) /\ (Ready' => OnePlace(shown'))
  BY DEF PlaceInv
<1>1. CASE UNCHANGED vars
  BY <1>1 DEF vars, renderer, PlaceInv, Files, Ready, Booting
<1>2. CASE \E a : Does(a)
  BY <1>2, PlaceDoes
<1>3. CASE (\E r \in RailId : Hold(r)) \/ Render
  <2>1. UNCHANGED <<shown, hydrated, loads, writes, stored, crossed>>
    BY <1>3 DEF Hold, Act, Render
  <2>. QED BY <2>1 DEF PlaceInv, Files, Ready, Booting
<1>4. CASE Release
  <2>1. /\ OnePlace(shown) /\ Well(shown) /\ ~ crossed
        /\ Files' = Files \cup {ToPreferences(shown)} /\ shown' = shown
    BY <1>4, ReleaseFacts DEF Release
  <2>. QED BY <2>1, SoundWritten DEF PlaceInv
<1>5. CASE \E i \in Launch : Choose(i) \/ Refuse(i) \/ StartLoad(i) \/ Fail(i)
  <2>1. (Ready' => Ready) /\ UNCHANGED <<shown, writes, stored, crossed>>
    BY <1>5, StartupStops
  <2>. QED BY <2>1 DEF PlaceInv, Files
<1>6. CASE \E i \in Launch : Read(i)
  <2>1. PICK i \in Launch : Read(i)
    BY <1>6
  <2>2. ~ crossed
    BY <2>1 DEF Read
  <2>3. shown' = FromPreferences(stored) /\ stored \in Patch /\ UNCHANGED <<writes, stored>>
    BY <2>1, <2>2, ReadFacts
  <2>4. \A p \in Files : Sound(p)
    BY <2>2 DEF PlaceInv
  <2>. QED BY <2>3, <2>4, SoundRead DEF Files
<1>7. CASE \E i \in Launch : Finish(i)
  <2>1. PICK i \in Launch : Finish(i)
    BY <1>7
  <2>2. ~ crossed
    BY <2>1 DEF Finish
  <2>3. OnePlace(shown) /\ Well(shown) /\ Files' = Files \cup {ToPreferences(shown)} /\ shown' = shown
    BY <2>1, <2>2, FinishFacts
  <2>. QED BY <2>2, <2>3, SoundWritten DEF PlaceInv
<1>8. CASE Store \/ LoseWrite
  <2>1. UNCHANGED <<shown, hydrated, loads, crossed>>
    BY <1>8 DEF Store, LoseWrite, renderer
  <2>2. Files' \subseteq Files
    BY <1>8, FilesStored
  <2>. QED BY <2>1, <2>2 DEF PlaceInv, Ready, Booting
<1>9. CASE Relaunch
  <2>1. ~ Ready'
    BY <1>9 DEF Relaunch, NotLoaded, Ready, Booting, Launch
  <2>2. UNCHANGED <<writes, stored, crossed>>
    BY <1>9 DEF Relaunch
  <2>. QED BY <2>1, <2>2 DEF PlaceInv, Files
<1>. QED BY <1>1, <1>2, <1>3, <1>4, <1>5, <1>6, <1>7, <1>8, <1>9, NextSteps

LEMMA CountPanels ==
  ASSUME NEW q \in Seq(Panel), NoRepeat(q)
  PROVE  Len(q) = Cardinality(ToSet(q))
<1>1. Len(q) \in Nat /\ DOMAIN q = 1..Len(q)
  BY SequenceFacts
<1>2. q \in [1..Len(q) -> ToSet(q)]
  BY <1>1, LenProperties DEF ToSet
<1>3. q \in Bijection(1..Len(q), ToSet(q))
  <2>1. \A j, k \in 1..Len(q) : q[j] = q[k] => j = k
    BY <1>1 DEF NoRepeat
  <2>2. \A x \in ToSet(q) : \E k \in 1..Len(q) : q[k] = x
    BY <1>1 DEF ToSet
  <2>3. q \in Injection(1..Len(q), ToSet(q))
    BY <1>2, <2>1 DEF Injection, IsInjective
  <2>4. q \in Surjection(1..Len(q), ToSet(q))
    BY <1>2, <2>2 DEF Surjection
  <2>. QED BY <2>3, <2>4 DEF Bijection
<1>4. ExistsBijection(1..Len(q), ToSet(q))
  BY <1>3 DEF ExistsBijection
<1>. QED BY <1>1, <1>4, FS_CountingElements

(* Every panel is in one rail, once, or floats, as long as no action came  *)
(* while the preferences were being read: normalizeRailState never has to  *)
(* refill a rail, dock_panel never finds its panel docked, and what        *)
(* deriveUndockedPanelIdsFromRails reads back is what was written.         *)
THEOREM PanelsHaveOnePlace == Spec => []EveryPanelHasOnePlace
<1>. DEFINE Inv == TypeInv /\ LaunchInv /\ PlaceInv
<1>1. Init => Inv
  BY TypeInit, LaunchInit, PlaceInit
<1>2. Inv /\ [Next]_vars => Inv'
  BY TypeStep, LaunchStep, PlaceStep
<1>3. Inv => EveryPanelHasOnePlace
  <2>. SUFFICES ASSUME Inv, hydrated, ~ crossed
                PROVE  /\ Docked(shown, "left") \cap Docked(shown, "right") = {}
                       /\ shown.undocked = Panel \ (Docked(shown, "left") \cup Docked(shown, "right"))
                       /\ \A r \in RailId : Len(shown.rail[r].docked) = Cardinality(Docked(shown, r))
    BY DEF EveryPanelHasOnePlace
  <2>1. OnePlace(shown) /\ Well(shown)
    BY WellLayouts DEF PlaceInv, Ready
  <2>2. \A r \in RailId : Len(shown.rail[r].docked) = Cardinality(Docked(shown, r))
    BY <2>1, WellParts, CountPanels DEF OnePlace, Docked
  <2>. QED BY <2>1, <2>2, Floating DEF OnePlace, Apart, Docked
<1>. QED BY <1>1, <1>2, <1>3, PTL DEF Spec
-----------------------------------------------------------------------------
(* The layout after a relaunch.                                            *)

\* While a handler still reads, what it can read is what is shown.
ReadsShown == hydrated => \A i \in Launch : UnderWay(i) => \A p \in Files : FromPreferences(p) = shown

\* What was written last is what is shown, unless a splitter is held.
WritesShown == hydrated /\ dragging = "none" => Settled(FromPreferences(Newest)) = Settled(shown)

\* After the relaunch, whatever can be read is the layout from before it.
ReadsBefore ==
  before # NoLayout =>
    /\ \A p \in Files : Settled(FromPreferences(p)) = Settled(before)
    /\ Ready => Settled(shown) = Settled(before)

SurviveInv == ~ crossed => ReadsShown /\ (~ lost => WritesShown /\ ReadsBefore)

LEMMA SurviveInit ==
  ASSUME Init
  PROVE  SurviveInv
BY DEF Init, Mounted, SurviveInv, ReadsShown, WritesShown, ReadsBefore

LEMMA SurviveDoes ==
  ASSUME TypeInv, TypeInv', LaunchInv, PlaceInv, SurviveInv, NEW a, Does(a)
  PROVE  SurviveInv'
<1>. SUFFICES ASSUME ~ crossed' PROVE ReadsShown' /\ (~ lost' => WritesShown' /\ ReadsBefore')
  BY DEF SurviveInv
<1>1. /\ Crossing /\ Offered(a) /\ before = NoLayout
      /\ UNCHANGED <<loads, dragging, stored, before, lost, hydrated>>
  BY DEF Does, Apply, Act
<1>2. ~ crossed /\ hydrated /\ \A i \in Launch : ~ UnderWay(i)
  BY <1>1, Uncrossed
<1>3. ReadsShown' /\ ReadsBefore'
  BY <1>1, <1>2 DEF ReadsShown, ReadsBefore, UnderWay
<1>4. OnePlace(shown) /\ OnePlace(shown') /\ layout' = shown' /\ shown' = Reduce(shown, a)
  BY PlaceDoes
<1>5. Well(shown) /\ Well(shown') /\ layout' \in Layout
  BY <1>4, WellLayouts DEF TypeInv, TypeOK, Well
<1>6. ASSUME ~ lost, dragging = "none"
      PROVE  Settled(FromPreferences(Newest')) = Settled(shown')
  <2>1. CASE Persist(layout')
    <3>1. Newest' = ToPreferences(shown')
      BY <1>1, <1>4, <1>5, <2>1, FilesWritten
    <3>. QED BY <1>4, <1>5, <3>1, RoundTrip
  <2>2. CASE a.type = "activate" /\ UNCHANGED writes
    <3>1. a.rail \in RailId /\ a.panel \in Panel \cup {NoPanel}
      BY <1>1 DEF Offered, Doable, Actions
    <3>2. Reduce(shown, a) = WithRail(shown, a.rail, [shown.rail[a.rail] EXCEPT !.active = a.panel])
      BY <2>2 DEF Reduce
    <3>3. Settled(shown') = Settled(shown)
      BY <1>4, <1>5, <3>1, <3>2, ActivatePlace
    <3>4. Newest' = Newest
      BY <1>1, <2>2 DEF Newest
    <3>. QED BY <1>2, <1>6, <3>3, <3>4 DEF SurviveInv, WritesShown
  <2>. QED BY <1>6, <2>1, <2>2 DEF Does
<1>7. ~ lost' => WritesShown'
  BY <1>1, <1>6 DEF WritesShown
<1>. QED BY <1>3, <1>7

LEMMA SurviveStartup ==
  ASSUME TypeInv, LaunchInv, PlaceInv, SurviveInv, NEW i \in Launch,
         Choose(i) \/ Refuse(i) \/ StartLoad(i) \/ Read(i) \/ Finish(i) \/ Fail(i)
  PROVE  SurviveInv'
<1>1. crossed' = crossed /\ lost' = lost /\ before' = before /\ dragging' = dragging
  BY DEF Choose, Refuse, StartLoad, Read, Finish, Fail
<1>. SUFFICES ASSUME ~ crossed PROVE ReadsShown' /\ (~ lost => WritesShown' /\ ReadsBefore')
  BY <1>1 DEF SurviveInv
<1>2. ReadsShown /\ (~ lost => WritesShown /\ ReadsBefore)
  BY DEF SurviveInv
<1>3. CASE Choose(i) \/ Refuse(i) \/ StartLoad(i) \/ Fail(i)
  <2>1. (Ready' => Ready) /\ (hydrated' => hydrated) /\ UNCHANGED <<shown, writes, stored>>
    BY <1>3, StartupStops
  <2>2. Files' = Files /\ Newest' = Newest
    BY <2>1 DEF Files, Newest
  <2>3. ASSUME hydrated', NEW j \in Launch, UnderWay(j)' PROVE UnderWay(j)
    <3>1. ~ StartLoad(i)
      BY <2>3 DEF StartLoad
    <3>2. ~ UnderWay(i)' /\ \A k \in Launch \ {i} : loads'[k] = loads[k]
      BY <1>3, <3>1, StartupGoes DEF Goes, UnderWay
    <3>. QED BY <2>3, <3>2 DEF UnderWay
  <2>4. ReadsShown'
    BY <1>2, <2>1, <2>2, <2>3 DEF ReadsShown
  <2>5. ~ lost => WritesShown' /\ ReadsBefore'
    BY <1>1, <1>2, <2>1, <2>2 DEF WritesShown, ReadsBefore
  <2>. QED BY <2>4, <2>5
<1>4. CASE Read(i)
  <2>1. shown' = FromPreferences(stored) /\ UNCHANGED <<hydrated, writes, stored>>
    BY <1>4, ReadFacts
  <2>2. Files' = Files /\ Newest' = Newest /\ stored \in Files
    BY <2>1 DEF Files, Newest
  <2>3. UnderWay(i)
    BY <1>4 DEF Read, UnderWay
  <2>4. ASSUME hydrated PROVE shown' = shown /\ \A p \in Files : FromPreferences(p) = shown
    BY <1>2, <2>1, <2>2, <2>3, <2>4 DEF ReadsShown
  <2>5. ReadsShown'
    BY <2>1, <2>2, <2>4 DEF ReadsShown
  <2>6. ~ lost => WritesShown'
    BY <1>1, <1>2, <2>1, <2>2, <2>4 DEF WritesShown
  <2>7. ~ lost => ReadsBefore'
    BY <1>1, <1>2, <2>1, <2>2 DEF ReadsBefore
  <2>. QED BY <2>5, <2>6, <2>7
<1>5. CASE Finish(i)
  <2>1. PICK p : p = ToPreferences(shown)
    OBVIOUS
  <2>2. /\ OnePlace(shown) /\ Well(shown) /\ loads[i].next = shown
        /\ Files' = Files \cup {p} /\ Newest' = p /\ shown' = shown
    BY <1>5, <2>1, FinishFacts
  <2>3. FromPreferences(p) = shown
    BY <2>1, <2>2, RoundTrip
  <2>4. Booting(i) /\ loads'[i].phase = "over" /\ \A k \in Launch \ {i} : loads'[k] = loads[k]
    BY <1>5, StartupGoes DEF Goes, Booting
  <2>5. ASSUME NEW j \in Launch, UnderWay(j)', NEW f \in Files PROVE FromPreferences(f) = shown
    <3>1. j # i /\ UnderWay(j)
      BY <2>4, <2>5 DEF UnderWay
    <3>2. CASE hydrated
      BY <1>2, <3>1, <3>2 DEF ReadsShown
    <3>3. CASE ~ hydrated
      <4>1. Busy(i) /\ Busy(j)
        BY <2>4, <3>1 DEF Busy, Booting, UnderWay
      <4>2. ~ visible
        BY <3>1, <4>1 DEF LaunchInv, FewBusy
      <4>3. writes = <<>> /\ loads[i].next = FromPreferences(stored)
        BY <2>4, <4>2 DEF LaunchInv, Early
      <4>4. f = stored
        BY <4>3 DEF Files, ToSet
      <4>. QED BY <2>2, <4>3, <4>4
    <3>. QED BY <3>2, <3>3
  <2>6. ReadsShown'
    BY <2>2, <2>3, <2>5 DEF ReadsShown
  <2>7. ~ lost => WritesShown'
    BY <2>2, <2>3 DEF WritesShown
  <2>8. Ready
    BY <2>4 DEF Ready
  <2>9. ~ lost => ReadsBefore'
    BY <1>1, <1>2, <2>2, <2>3, <2>8 DEF ReadsBefore
  <2>. QED BY <2>6, <2>7, <2>9
<1>. QED BY <1>3, <1>4, <1>5

LEMMA SurviveStep ==
  ASSUME TypeInv, TypeInv', LaunchInv, PlaceInv, SurviveInv, [Next]_vars
  PROVE  SurviveInv'
<1>1. CASE \E a : Does(a)
  BY <1>1, SurviveDoes
<1>2. CASE \E i \in Launch : Choose(i) \/ Refuse(i) \/ StartLoad(i) \/ Read(i) \/ Finish(i) \/ Fail(i)
  BY <1>2, SurviveStartup
<1>3. CASE UNCHANGED vars \/ Render
  <2>1. UNCHANGED <<shown, hydrated, dragging, loads, writes, stored, before, crossed, lost>>
    BY <1>3 DEF vars, renderer, Render
  <2>2. Files' = Files /\ Newest' = Newest /\ Ready' = Ready
    BY <2>1 DEF Files, Newest, Ready, Booting
  <2>. QED BY <2>1, <2>2 DEF SurviveInv, ReadsShown, WritesShown, ReadsBefore, UnderWay
<1>4. CASE \E r \in RailId : Hold(r)
  <2>1. /\ dragging' # "none" /\ before = NoLayout
        /\ UNCHANGED <<shown, hydrated, loads, writes, stored, before, crossed, lost>>
    BY <1>4 DEF Hold, Act, RailId
  <2>2. Files' = Files
    BY <2>1 DEF Files
  <2>. QED BY <2>1, <2>2 DEF SurviveInv, ReadsShown, WritesShown, ReadsBefore, UnderWay
<1>5. CASE Release
  <2>. SUFFICES ASSUME ~ crossed' PROVE ReadsShown' /\ WritesShown' /\ ReadsBefore'
    BY DEF SurviveInv
  <2>1. UNCHANGED <<shown, loads, before>> /\ dragging # "none"
    BY <1>5 DEF Release
  <2>2. /\ OnePlace(shown) /\ Well(shown) /\ Newest' = ToPreferences(shown)
        /\ \A i \in Launch : ~ UnderWay(i)
    BY <1>5, ReleaseFacts
  <2>3. before = NoLayout
    BY <2>1 DEF LaunchInv
  <2>. QED BY <2>1, <2>2, <2>3, RoundTrip DEF ReadsShown, WritesShown, ReadsBefore, UnderWay
<1>6. CASE Store \/ LoseWrite
  <2>1. UNCHANGED <<shown, hydrated, dragging, loads, before, crossed>> /\ (Store \/ lost')
    BY <1>6 DEF Store, LoseWrite, renderer
  <2>2. Files' \subseteq Files /\ (Store => Newest' = Newest /\ lost' = lost)
    BY <1>6, FilesStored DEF Store
  <2>3. Ready' = Ready
    BY <2>1 DEF Ready, Booting
  <2>. QED BY <2>1, <2>2, <2>3 DEF SurviveInv, ReadsShown, WritesShown, ReadsBefore, UnderWay
<1>7. CASE Relaunch
  <2>. SUFFICES ASSUME ~ crossed' PROVE ReadsShown' /\ (~ lost' => WritesShown' /\ ReadsBefore')
    BY DEF SurviveInv
  <2>1. /\ hydrated /\ dragging = "none" /\ writes = <<>> /\ before' = shown /\ ~ hydrated'
        /\ UNCHANGED <<writes, stored, crossed, lost>>
    BY <1>7 DEF Relaunch, Quiet
  <2>2. Files' = {stored} /\ Newest = stored
    BY <2>1 DEF Files, Newest, ToSet
  <2>3. ~ Ready'
    BY <1>7 DEF Relaunch, NotLoaded, Ready, Booting, Launch
  <2>4. ~ lost => Settled(FromPreferences(stored)) = Settled(shown)
    BY <2>1, <2>2 DEF SurviveInv, WritesShown
  <2>. QED BY <2>1, <2>2, <2>3, <2>4 DEF ReadsShown, WritesShown, ReadsBefore
<1>. QED BY <1>1, <1>2, <1>3, <1>4, <1>5, <1>6, <1>7, NextSteps

(* After a relaunch the panels are where they were, in their order, and    *)
(* the rails as wide and as open, unless a write was rejected or an action *)
(* came while the preferences were being read: the two startup handlers    *)
(* that the chooser lets run, in whatever order they read and finish,      *)
(* leave the same layout (loadInitialState, persistResolvedShellLayout,    *)
(* createShellLayoutStateFromPreferences).                                 *)
THEOREM LayoutSurvives == Spec => []LayoutSurvivesARelaunch
<1>. DEFINE Inv == TypeInv /\ LaunchInv /\ PlaceInv /\ SurviveInv
<1>1. Init => Inv
  BY TypeInit, LaunchInit, PlaceInit, SurviveInit
<1>2. Inv /\ [Next]_vars => Inv'
  BY TypeStep, LaunchStep, PlaceStep, SurviveStep
<1>3. Inv => LayoutSurvivesARelaunch
  BY DEF SurviveInv, ReadsBefore, Ready, LayoutSurvivesARelaunch
<1>. QED BY <1>1, <1>2, <1>3, PTL DEF Spec
=============================================================================
