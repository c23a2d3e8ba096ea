-------------------------- MODULE ClientBooking_proofs --------------------------
(***************************************************************************)
(* What the client's booking pages promise for every size of the grid,     *)
(* number of hours, requests and payments: the owner's grid of slots, the  *)
(* page a player books on, the popup he pays in, the questions the shell   *)
(* asks and the popups it opens, of Client.tla.  Each has an invariant of  *)
(* its own that its initial states satisfy and its actions keep.           *)
(***************************************************************************)
EXTENDS Client, FiniteSetTheorems, TLAPS

(***************************************************************************)
(* The owner's grid of slots (BookingGridPage).                            *)
(***************************************************************************)

LEMMA GridCardinality == \A S : Grid!Cardinality(S) = Cardinality(S)
BY DEF Grid!Cardinality, Cardinality

\* A range of days of which none is missing.
Whole(range) == range \in Grid!Range /\ range[1]..range[2] \subseteq Grid!Day

\* Loads under way have numbers of their own.
LoadsWhole(g) ==
    /\ \A l, m \in g.loads : l.n = m.n => l = m
    /\ \A l \in g.loads : Whole(l.range)
    /\ g.data # None => Whole(g.data.range)

LoadsSound(g) == LoadsWhole(g) /\ (g.loading => g.loads # {})

Books(popup) == popup # None /\ popup.kind = "book"

\* A popup that books has one timer or has had it, and nothing is dragged below it.
PopupSound(g) ==
    /\ Books(g.popup) => g.drag = None /\ g.held = None
    /\ g.held # None => g.drag = None
    /\ \A n \in g.timers : Books(g.popup) /\ n = Cardinality(g.popup.slots)
    /\ g.calculating => g.timers # {}
    /\ Books(g.popup) /\ ~g.calculating /\ ~g.edited => g.price = Cardinality(g.popup.slots)

GridServer == slot \in [Grid!Slot -> Grid!Status] /\ changes \in 0..GridChanges
GridInv == GridServer /\ grid \in Grid!Grid /\ LoadsSound(grid) /\ PopupSound(grid)

LEMMA GridLoadsBound ==
    ASSUME grid \in Grid!Grid, LoadsSound(grid)
    PROVE  Cardinality(grid.loads) <= GridLoads
<1> DEFINE f == [l \in grid.loads |-> l.n]
<1>1. grid.loads \in SUBSET Grid!Load
  BY DEF Grid!Grid
<1>2. \A l \in grid.loads : l.n \in 1..GridLoads
  BY <1>1 DEF Grid!Load
<1>3. f \in Injection(grid.loads, 1..GridLoads)
  BY <1>2 DEF LoadsSound, LoadsWhole, Injection, IsInjective
<1>4. IsFiniteSet(1..GridLoads) /\ Cardinality(1..GridLoads) = GridLoads
  BY GridAssumption, FS_Interval
<1> QED
  BY <1>3, <1>4, FS_Injection

LEMMA GridInvImplies ==
    ASSUME GridInv
    PROVE  Grid!GridTypeOK /\ Grid!ProposedPriceIsOfTheSlots /\ Grid!ShimmerHasCause
<1>1. grid \in Grid!Grid /\ LoadsSound(grid) /\ PopupSound(grid) /\ GridServer
  BY DEF GridInv
<1>2. Cardinality(grid.loads) <= GridLoads
  BY <1>1, GridLoadsBound
<1>3. /\ grid.from \in Picked \union {None} /\ grid.to \in Picked \union {None} /\ grid.page \in Grid!Pages
      /\ grid.loading \in BOOLEAN /\ grid.save \in Grid!Save \union {None}
      /\ grid.popup \in Grid!Popup \union {None} /\ grid.timers \in SUBSET Nat
  BY <1>1 DEF Grid!Grid
<1>4. grid.popup # None /\ grid.popup.kind = "book" => grid.popup.slots \subseteq Grid!Slot
  BY <1>3 DEF Grid!Popup
<1>5. Grid!GridTypeOK
  BY <1>1, <1>2, <1>3, <1>4, GridCardinality DEF Grid!GridTypeOK, GridServer, LoadsSound, LoadsWhole, Whole
<1>6. Grid!ProposedPriceIsOfTheSlots
  BY <1>1, GridCardinality DEF Grid!ProposedPriceIsOfTheSlots, Grid!FormShown, PopupSound, Books
<1>7. Grid!ShimmerHasCause
  BY <1>1 DEF Grid!ShimmerHasCause, LoadsSound, LoadsWhole, PopupSound
<1> QED
  BY <1>5, <1>6, <1>7

-----------------------------------------------------------------------------
(* The window and its loads. *)

LEMMA GridRangeIsWhole == ASSUME NEW g \in Grid!Grid PROVE Whole(Grid!EffectiveRange(g))
<1>1. g.from \in Picked \union {None} /\ g.to \in Picked \union {None} /\ g.page \in Grid!Pages
  BY DEF Grid!Grid
<1>2. Picked \subseteq Grid!Day /\ Picked \subseteq Int
  BY GridAssumption DEF Grid!Day
<1>3. ASSUME NEW d \in Picked, NEW e \in Picked, d <= e PROVE Whole(<<d, e>>)
  BY <1>2, <1>3, GridAssumption DEF Whole, Grid!Range
<1>4. CASE g.from # None
  <2>1. CASE g.to = None
    BY <1>1, <1>2, <1>3, <1>4, <2>1 DEF Grid!EffectiveRange
  <2>2. CASE g.to # None /\ g.from <= g.to
    BY <1>1, <1>2, <1>3, <1>4, <2>2 DEF Grid!EffectiveRange
  <2>3. CASE g.to # None /\ ~(g.from <= g.to)
    <3>1. g.from \in Int /\ g.to \in Int
      BY <1>1, <1>2, <1>4, <2>3
    <3>2. g.from > g.to /\ g.to <= g.from
      BY <2>3, <3>1
    <3>3. Grid!EffectiveRange(g) = <<g.to, g.from>>
      BY <1>4, <2>3, <3>2 DEF Grid!EffectiveRange
    <3> QED
      BY <1>1, <1>3, <1>4, <2>3, <3>2, <3>3
  <2> QED
    BY <2>1, <2>2, <2>3
<1>5. CASE g.from = None
  <2> DEFINE k == g.page * PageStep
  <2>1. k \in Int
    BY <1>1, GridAssumption DEF Grid!Pages
  <2>2. Grid!EffectiveRange(g) = <<k, k + WindowDays - 1>>
    BY <1>5 DEF Grid!EffectiveRange
  <2>3. k..(k + WindowDays - 1) \subseteq Grid!Day
    BY <1>1 DEF Grid!Day
  <2> HIDE DEF k
  <2>4. k \in k..(k + WindowDays - 1) /\ k + WindowDays - 1 \in k..(k + WindowDays - 1)
          /\ k <= k + WindowDays - 1
    BY <2>1, GridAssumption
  <2>5. <<k, k + WindowDays - 1>> \in Grid!Range
    BY <2>3, <2>4 DEF Grid!Range
  <2> QED
    BY <2>2, <2>3, <2>5 DEF Whole
<1> QED
  BY <1>4, <1>5

LEMMA GridLoadingIs ==
    ASSUME NEW g \in Grid!Grid, LoadsWhole(g), PopupSound(g), Grid!FreeLoad(g) # {},
           slot \in [Grid!Slot -> Grid!Status]
    PROVE  Grid!Loading(g) \in Grid!Grid /\ LoadsSound(Grid!Loading(g)) /\ PopupSound(Grid!Loading(g))
<1> DEFINE n == CHOOSE n \in Grid!FreeLoad(g) : TRUE
           l == [n |-> n, range |-> Grid!EffectiveRange(g), cells |-> slot, served |-> FALSE]
           loads == g.loads \union {l}
           h == Grid!Loading(g)
<1>1. n \in Grid!FreeLoad(g)
  OBVIOUS
<1>2. n \in 1..GridLoads /\ \A m \in g.loads : m.n # n
  BY <1>1 DEF Grid!FreeLoad
<1>3. Whole(Grid!EffectiveRange(g)) /\ Grid!EffectiveRange(g) \in Grid!Range
  BY GridRangeIsWhole DEF Whole
<1>4. h = [g EXCEPT !.loading = TRUE, !.loads = loads]
  BY DEF Grid!Loading, Grid!Grid
<1> HIDE DEF n
<1>5. l \in Grid!Load /\ l.n = n /\ l.range = Grid!EffectiveRange(g)
  BY <1>2, <1>3 DEF Grid!Load
<1> HIDE DEF l
<1>6. g.loads \in SUBSET Grid!Load
  BY DEF Grid!Grid
<1>7. loads \in SUBSET Grid!Load
  BY <1>5, <1>6
<1>8. /\ \A m, k \in loads : m.n = k.n => m = k
      /\ \A m \in loads : Whole(m.range)
      /\ loads # {}
  BY <1>2, <1>3, <1>5 DEF LoadsSound, LoadsWhole
<1> HIDE DEF loads, h
<1>9. /\ h \in Grid!Grid /\ h.loads = loads /\ h.data = g.data /\ h.held = g.held /\ h.drag = g.drag
      /\ h.popup = g.popup /\ h.calculating = g.calculating /\ h.price = g.price /\ h.edited = g.edited
      /\ h.timers = g.timers
  BY <1>4, <1>7 DEF Grid!Grid
<1>10. LoadsSound(h)
  BY <1>8, <1>9 DEF LoadsSound, LoadsWhole
<1>11. PopupSound(h)
  BY <1>9 DEF PopupSound
<1> QED
  BY <1>9, <1>10, <1>11 DEF h

LEMMA GridSoundInv ==
    ASSUME GridServer', NEW g, g \in Grid!Grid, LoadsSound(g), PopupSound(g), grid' = g
    PROVE  GridInv'
BY DEF GridInv, LoadsSound, LoadsWhole, PopupSound

\* The filters, whatever they choose: the range is another one, the popup is not.
LEMMA GridFiltersInv ==
    ASSUME GridInv, NEW from \in Picked \union {None}, NEW to \in Picked \union {None}, NEW page \in Grid!Pages,
           Grid!Filters([grid EXCEPT !.from = from, !.to = to, !.page = page])
    PROVE  GridInv'
<1> DEFINE g == [grid EXCEPT !.from = from, !.to = to, !.page = page]
<1>1. grid \in Grid!Grid /\ LoadsSound(grid) /\ PopupSound(grid) /\ GridServer
  BY DEF GridInv
<1>2. Grid!Filters(g)
  OBVIOUS
<1>3. /\ g \in Grid!Grid /\ g.loads = grid.loads /\ g.data = grid.data /\ g.held = grid.held
           /\ g.drag = grid.drag
      /\ g.popup = grid.popup /\ g.calculating = grid.calculating /\ g.price = grid.price
      /\ g.edited = grid.edited /\ g.timers = grid.timers /\ g.loading = grid.loading
  BY <1>1 DEF Grid!Grid
<1> HIDE DEF g
<1>4. LoadsSound(g)
  BY <1>1, <1>3 DEF LoadsSound, LoadsWhole
<1>5. PopupSound(g)
  BY <1>1, <1>3 DEF PopupSound
<1>6. Grid!FreeLoad(g) # {} /\ (grid' = Grid!Loading(g) \/ grid' = g) /\ GridServer'
  BY <1>1, <1>2, <1>3 DEF Grid!Filters, Grid!FreeLoad, GridServer
<1>7. Grid!Loading(g) \in Grid!Grid /\ LoadsSound(Grid!Loading(g)) /\ PopupSound(Grid!Loading(g))
  BY <1>1, <1>3, <1>4, <1>5, <1>6, GridLoadingIs DEF GridServer, LoadsSound
<1> QED
  BY <1>3, <1>4, <1>5, <1>6, <1>7, GridSoundInv

LEMMA GridWindowInv ==
    ASSUME GridInv,
           \/ \E d \in Picked \union {None} : Grid!PickFrom(d) \/ Grid!PickTo(d)
           \/ Grid!Refilter \/ Grid!HandleClear \/ \E step \in {-1, 1} : Grid!TurnPage(step)
    PROVE  GridInv'
<1>1. /\ grid \in Grid!Grid /\ LoadsSound(grid) /\ PopupSound(grid) /\ GridServer
      /\ grid.from \in Picked \union {None} /\ grid.to \in Picked \union {None} /\ grid.page \in Grid!Pages
      /\ 0 \in Grid!Pages /\ None \in Picked \union {None}
  BY GridAssumption DEF GridInv, Grid!Grid, Grid!Pages
<1>2. ASSUME NEW d \in Picked \union {None}, Grid!PickFrom(d) PROVE GridInv'
  <2>1. [grid EXCEPT !.from = d] = [grid EXCEPT !.from = d, !.to = grid.to, !.page = grid.page]
    BY <1>1 DEF Grid!Grid
  <2> QED
    BY <1>1, <1>2, <2>1, GridFiltersInv DEF Grid!PickFrom
<1>3. ASSUME NEW d \in Picked \union {None}, Grid!PickTo(d) PROVE GridInv'
  <2>1. [grid EXCEPT !.to = d] = [grid EXCEPT !.from = grid.from, !.to = d, !.page = grid.page]
    BY <1>1 DEF Grid!Grid
  <2> QED
    BY <1>1, <1>3, <2>1, GridFiltersInv DEF Grid!PickTo
<1>4. CASE Grid!Refilter
  <2>1. Grid!Loading(grid) \in Grid!Grid /\ LoadsSound(Grid!Loading(grid)) /\ PopupSound(Grid!Loading(grid))
    BY <1>1, <1>4, GridLoadingIs DEF Grid!Refilter, GridServer, LoadsSound
  <2>2. GridServer'
    BY <1>1, <1>4 DEF Grid!Refilter, Grid!OnlyGrid, GridServer
  <2> QED
    BY <1>4, <2>1, <2>2, GridSoundInv DEF Grid!Refilter
<1>5. CASE Grid!HandleClear
  BY <1>1, <1>5, GridFiltersInv DEF Grid!HandleClear
<1>6. ASSUME NEW step \in {-1, 1}, Grid!TurnPage(step) PROVE GridInv'
  <2> DEFINE page == grid.page + step
  <2>1. page \in Grid!Pages
    BY <1>6 DEF Grid!TurnPage
  <2>2. [grid EXCEPT !.page = grid.page + step] = [grid EXCEPT !.from = grid.from, !.to = grid.to, !.page = page]
    BY <1>1 DEF Grid!Grid
  <2>3. Grid!Filters([grid EXCEPT !.page = grid.page + step])
    BY <1>1, <1>6 DEF Grid!TurnPage, Grid!Grid
  <2> QED
    BY <1>1, <2>1, <2>2, <2>3, GridFiltersInv
<1> QED
  BY <1>2, <1>3, <1>4, <1>5, <1>6

LEMMA GridAnswerInv ==
    ASSUME GridInv, NEW l \in grid.loads, Grid!ServeGrid(l) \/ Grid!GridArrives(l) \/ Grid!GridFails(l)
    PROVE  GridInv'
<1>1. /\ grid \in Grid!Grid /\ LoadsSound(grid) /\ PopupSound(grid) /\ GridServer
           /\ slot \in [Grid!Slot -> Grid!Status]
      /\ grid.loads \in SUBSET Grid!Load /\ l \in Grid!Load
  BY DEF GridInv, GridServer, Grid!Grid
<1>2. /\ Whole(l.range) /\ l.range \in Grid!Range /\ l.cells \in [Grid!Slot -> Grid!Status]
           /\ l.n \in 1..GridLoads
  BY <1>1 DEF LoadsSound, LoadsWhole, Grid!Load, Whole
<1>3. CASE Grid!ServeGrid(l)
  <2> DEFINE m == [l EXCEPT !.served = TRUE, !.cells = slot]
             loads == (grid.loads \ {l}) \union {m}
  <2>1. m \in Grid!Load /\ m.n = l.n /\ m.range = l.range
    BY <1>1 DEF Grid!Load
  <2>2. grid' = [grid EXCEPT !.loads = loads] /\ UNCHANGED <<slot, changes>>
    BY <1>1, <1>3 DEF Grid!ServeGrid, Grid!OnlyGrid, Grid!Grid
  <2> HIDE DEF m
  <2>3. loads \in SUBSET Grid!Load /\ loads # {}
    BY <1>1, <2>1
  <2>4. (\A a, b \in loads : a.n = b.n => a = b) /\ \A a \in loads : Whole(a.range)
    BY <1>1, <1>2, <2>1 DEF LoadsSound, LoadsWhole
  <2> HIDE DEF loads
  <2>5. /\ grid' \in Grid!Grid /\ grid'.loads = loads /\ grid'.data = grid.data /\ grid'.held = grid.held
        /\ grid'.drag = grid.drag /\ grid'.popup = grid.popup /\ grid'.calculating = grid.calculating
        /\ grid'.price = grid.price /\ grid'.edited = grid.edited /\ grid'.timers = grid.timers
    BY <1>1, <2>2, <2>3 DEF Grid!Grid
  <2>6. LoadsSound(grid')
    BY <1>1, <2>3, <2>4, <2>5 DEF LoadsSound, LoadsWhole
  <2>7. PopupSound(grid')
    BY <1>1, <2>5 DEF PopupSound
  <2> QED
    BY <1>1, <2>2, <2>5, <2>6, <2>7 DEF GridInv, GridServer
<1>4. ASSUME NEW data \in Grid!Data \union {None}, data # None => Whole(data.range),
             grid' = [grid EXCEPT !.loads = grid.loads \ {l}, !.loading = FALSE, !.data = data],
             UNCHANGED <<slot, changes>>
      PROVE  GridInv'
  <2> DEFINE loads == grid.loads \ {l}
  <2>1. loads \in SUBSET Grid!Load
    BY <1>1
  <2>2. (\A a, b \in loads : a.n = b.n => a = b) /\ \A a \in loads : Whole(a.range)
    BY <1>1 DEF LoadsSound, LoadsWhole
  <2>3. grid' = [grid EXCEPT !.loads = loads, !.loading = FALSE, !.data = data]
    BY <1>4
  <2> HIDE DEF loads
  <2>4. /\ grid' \in Grid!Grid /\ grid'.loads = loads /\ grid'.data = data /\ grid'.held = grid.held
        /\ grid'.drag = grid.drag /\ grid'.popup = grid.popup /\ grid'.calculating = grid.calculating
        /\ grid'.price = grid.price /\ grid'.edited = grid.edited /\ grid'.timers = grid.timers
        /\ grid'.loading = FALSE
    BY <1>1, <2>1, <2>3, <1>4 DEF Grid!Grid
  <2>5. LoadsSound(grid')
    BY <1>4, <2>2, <2>4 DEF LoadsSound, LoadsWhole
  <2>6. PopupSound(grid')
    BY <1>1, <2>4 DEF PopupSound
  <2> QED
    BY <1>1, <1>4, <2>4, <2>5, <2>6 DEF GridInv, GridServer
<1>5. CASE Grid!GridArrives(l)
  <2> DEFINE data == [range |-> l.range, cells |-> l.cells]
  <2>1. data \in Grid!Data /\ data.range = l.range
    BY <1>2 DEF Grid!Data
  <2>2. grid' = [grid EXCEPT !.loads = grid.loads \ {l}, !.loading = FALSE, !.data = data]
    BY <1>1, <1>5 DEF Grid!GridArrives, Grid!Grid
  <2> HIDE DEF data
  <2> QED
    BY <1>2, <1>4, <1>5, <2>1, <2>2 DEF Grid!GridArrives, Grid!OnlyGrid
<1>6. CASE Grid!GridFails(l)
  <2>1. grid' = [grid EXCEPT !.loads = grid.loads \ {l}, !.loading = FALSE, !.data = None]
    BY <1>1, <1>6 DEF Grid!GridFails, Grid!Grid
  <2> QED
    BY <1>4, <1>6, <2>1 DEF Grid!GridFails, Grid!OnlyGrid
<1> QED
  BY <1>3, <1>5, <1>6

-----------------------------------------------------------------------------
(* Dragging. *)

LEMMA GridSlotsAre ==
    ASSUME grid \in Grid!Grid, LoadsSound(grid), NEW a, NEW b
    PROVE  /\ Grid!CollectSlots(a, b) \in SUBSET Grid!Slot /\ IsFiniteSet(Grid!CollectSlots(a, b))
<1> DEFINE slots == Grid!CollectSlots(a, b)
           lo == grid.data.range[1]
           hi == grid.data.range[2]
           f == [s \in slots |-> <<s[1] - lo + 1, s[2]>>]
<1>1. \A s \in slots : grid.data # None
        /\ \E q \in Grid!Pos : s = <<lo + q[1] - 1, q[2]>> /\ lo + q[1] - 1 <= hi
  BY DEF Grid!CollectSlots, Grid!Selectable, Grid!InGrid, Grid!SlotAt
<1>2. grid.data # None => lo \in Grid!Day /\ hi \in Grid!Day /\ lo..hi \subseteq Grid!Day
  BY DEF LoadsSound, LoadsWhole, Whole, Grid!Range
<1>3. Grid!Day \subseteq Int /\ Grid!Hour \subseteq Int
  <2>1. Picked \subseteq Int /\ Grid!Hour \subseteq Int
    BY GridAssumption DEF Grid!Hour
  <2>2. \A k, m : k..m \subseteq Int
    OBVIOUS
  <2>3. \A p \in Grid!Pages : (p * PageStep)..(p * PageStep + WindowDays - 1) \subseteq Int
    BY <2>2
  <2>4. ASSUME NEW d \in Grid!Day PROVE d \in Int
    <3>1. d \in Picked \/ \E p \in Grid!Pages : d \in (p * PageStep)..(p * PageStep + WindowDays - 1)
      BY DEF Grid!Day
    <3> QED
      BY <2>1, <2>3, <3>1
  <2> QED
    BY <2>1, <2>4
<1>4. ASSUME NEW s \in slots PROVE s \in Grid!Slot /\ f[s] \in Grid!Pos /\ s = <<f[s][1] + lo - 1, f[s][2]>>
  <2>1. PICK q \in Grid!Pos : s = <<lo + q[1] - 1, q[2]>> /\ lo + q[1] - 1 <= hi
    BY <1>1
  <2>2. q[1] \in 1..WindowDays /\ q[2] \in Grid!Hour /\ q = <<q[1], q[2]>>
    BY DEF Grid!Pos
  <2>3. lo \in Int /\ hi \in Int /\ lo..hi \subseteq Grid!Day
    BY <1>1, <1>2, <1>3
  <2>4. lo + q[1] - 1 \in lo..hi /\ q[1] \in Int
    BY <2>1, <2>2, <2>3, GridAssumption
  <2>5. s \in Grid!Slot
    BY <2>1, <2>2, <2>3, <2>4 DEF Grid!Slot
  <2>6. f[s] = <<q[1], q[2]>>
    BY <2>1, <2>3, <2>4
  <2> QED
    BY <2>1, <2>2, <2>3, <2>4, <2>5, <2>6
<1>5. f \in [slots -> Grid!Pos]
  BY <1>4
<1>6. f \in Injection(slots, Grid!Pos)
  BY <1>4, <1>5 DEF Injection, IsInjective
<1>7. IsFiniteSet(Grid!Pos)
  <2>1. Hours \in Int /\ WindowDays \in Int /\ 1 \in Int
    BY GridAssumption
  <2>2. IsFiniteSet(1..WindowDays) /\ IsFiniteSet(Grid!Hour)
    BY <2>1, FS_Interval DEF Grid!Hour
  <2> QED
    BY <2>2, FS_Product DEF Grid!Pos
<1> QED
  BY <1>4, <1>6, <1>7, FS_Injection

\* What becomes of the pointer while no popup books.
LEMMA GridHandInv ==
    ASSUME GridInv, ~Books(grid.popup), NEW held \in Grid!Pos \union {None},
           NEW drag \in [anchor : Grid!Pos, current : Grid!Pos] \union {None}, held # None => drag = None,
           grid' = [grid EXCEPT !.held = held, !.drag = drag], UNCHANGED <<slot, changes>>
    PROVE  GridInv'
<1>1. /\ grid \in Grid!Grid /\ LoadsSound(grid) /\ PopupSound(grid) /\ GridServer
  BY DEF GridInv
<1>2. /\ grid' \in Grid!Grid /\ grid'.loads = grid.loads /\ grid'.data = grid.data
           /\ grid'.loading = grid.loading
      /\ grid'.held = held /\ grid'.drag = drag /\ grid'.popup = grid.popup
      /\ grid'.calculating = grid.calculating
      /\ grid'.price = grid.price /\ grid'.edited = grid.edited /\ grid'.timers = grid.timers
  BY <1>1 DEF Grid!Grid
<1>3. LoadsSound(grid')
  BY <1>1, <1>2 DEF LoadsSound, LoadsWhole
<1>4. PopupSound(grid')
  BY <1>1, <1>2 DEF PopupSound
<1> QED
  BY <1>1, <1>2, <1>3, <1>4 DEF GridInv, GridServer

LEMMA GridDragInv ==
    ASSUME GridInv,
           \/ \E p \in Grid!Pos : Grid!MouseDown(p) \/ Grid!TouchStart(p) \/ Grid!MoveTo(p)
           \/ Grid!LongPress \/ Grid!LetGo \/ Grid!CancelDrag
    PROVE  GridInv'
<1>1. /\ grid \in Grid!Grid /\ PopupSound(grid) /\ grid.held \in Grid!Pos \union {None}
      /\ grid.drag \in [anchor : Grid!Pos, current : Grid!Pos] \union {None}
      /\ grid.held # None => grid.drag = None
      /\ Books(grid.popup) => grid.drag = None /\ grid.held = None
  BY DEF GridInv, Grid!Grid, PopupSound
<1>2. ASSUME NEW p \in Grid!Pos, Grid!MouseDown(p) PROVE GridInv'
  <2> DEFINE drag == [anchor |-> p, current |-> p]
  <2>1. drag \in [anchor : Grid!Pos, current : Grid!Pos]
    OBVIOUS
  <2>2. grid' = [grid EXCEPT !.held = None, !.drag = drag]
    BY <1>1, <1>2 DEF Grid!MouseDown, Grid!Grid
  <2>3. ~Books(grid.popup)
    BY <1>2 DEF Grid!MouseDown, Books
  <2> HIDE DEF drag
  <2> QED
    BY <1>2, <2>1, <2>2, <2>3, GridHandInv DEF Grid!MouseDown, Grid!OnlyGrid
<1>3. ASSUME NEW p \in Grid!Pos, Grid!TouchStart(p) PROVE GridInv'
  <2>1. grid' = [grid EXCEPT !.held = p, !.drag = None] /\ ~Books(grid.popup)
    BY <1>1, <1>3 DEF Grid!TouchStart, Grid!Grid, Books
  <2> QED
    BY <1>3, <2>1, GridHandInv DEF Grid!TouchStart, Grid!OnlyGrid
<1>4. ASSUME NEW p \in Grid!Pos, Grid!MoveTo(p) PROVE GridInv'
  <2> DEFINE drag == [grid.drag EXCEPT !.current = p]
  <2>1. drag \in [anchor : Grid!Pos, current : Grid!Pos] /\ grid.drag # None
    BY <1>1, <1>4 DEF Grid!MoveTo
  <2>2. grid' = [grid EXCEPT !.held = None, !.drag = drag]
    BY <1>1, <1>4, <2>1 DEF Grid!MoveTo, Grid!Grid
  <2>3. ~Books(grid.popup)
    BY <1>1, <2>1
  <2> HIDE DEF drag
  <2> QED
    BY <1>4, <2>1, <2>2, <2>3, GridHandInv DEF Grid!MoveTo, Grid!OnlyGrid
<1>5. CASE Grid!LongPress
  <2> DEFINE drag == [anchor |-> grid.held, current |-> grid.held]
  <2>1. drag \in [anchor : Grid!Pos, current : Grid!Pos]
    BY <1>1, <1>5 DEF Grid!LongPress
  <2>2. grid' = [grid EXCEPT !.held = None, !.drag = drag] /\ ~Books(grid.popup)
    BY <1>1, <1>5 DEF Grid!LongPress, Grid!Grid
  <2> HIDE DEF drag
  <2> QED
    BY <1>5, <2>1, <2>2, GridHandInv DEF Grid!LongPress, Grid!OnlyGrid
<1>6. CASE Grid!LetGo
  <2>1. grid' = [grid EXCEPT !.held = None, !.drag = grid.drag] /\ ~Books(grid.popup)
    BY <1>1, <1>6 DEF Grid!LetGo, Grid!Grid
  <2> QED
    BY <1>1, <1>6, <2>1, GridHandInv DEF Grid!LetGo, Grid!OnlyGrid
<1>7. CASE Grid!CancelDrag
  <2>1. grid' = [grid EXCEPT !.held = grid.held, !.drag = None] /\ ~Books(grid.popup)
    BY <1>1, <1>7 DEF Grid!CancelDrag, Grid!Grid
  <2> QED
    BY <1>1, <1>7, <2>1, GridHandInv DEF Grid!CancelDrag, Grid!OnlyGrid
<1> QED
  BY <1>2, <1>3, <1>4, <1>5, <1>6, <1>7

LEMMA GridFinishInv == ASSUME GridInv, Grid!FinishDrag PROVE GridInv'
<1> DEFINE slots == Grid!CollectSlots(grid.drag.anchor, grid.drag.current)
           n == Cardinality(slots)
           popup == [kind |-> "book", slots |-> slots, tab |-> "book"]
           timers == grid.timers \union {n}
<1>1. /\ grid \in Grid!Grid /\ LoadsSound(grid) /\ PopupSound(grid) /\ GridServer
           /\ grid.held \in Grid!Pos \union {None}
      /\ grid.timers \in SUBSET Nat
  BY DEF GridInv, Grid!Grid
<1>2. grid.drag # None /\ grid.held = None /\ ~Books(grid.popup) /\ grid.timers = {}
  BY <1>1 DEF Grid!FinishDrag, PopupSound
<1>3. slots \in SUBSET Grid!Slot /\ IsFiniteSet(slots)
  BY <1>1, GridSlotsAre
<1>4. n \in Nat
  BY <1>3, FS_CardinalityType
<1>5. CASE slots = {}
  <2>1. grid' = [grid EXCEPT !.held = None, !.drag = None] /\ UNCHANGED <<slot, changes>>
    BY <1>1, <1>2, <1>5 DEF Grid!FinishDrag, Grid!Grid, Grid!OnlyGrid
  <2> QED
    BY <1>2, <2>1, GridHandInv
<1>6. CASE slots # {}
  <2>1. /\ grid' = [grid EXCEPT !.drag = None, !.price = None, !.edited = FALSE, !.calculating = TRUE,
                               !.popup = popup, !.timers = timers]
        /\ UNCHANGED <<slot, changes>>
    BY <1>1, <1>6, GridCardinality DEF Grid!FinishDrag, Grid!Grid, Grid!OnlyGrid
  <2> HIDE DEF slots
  <2>2. popup \in Grid!Popup /\ popup.kind = "book" /\ popup.slots = slots
    BY <1>3, <1>6 DEF Grid!Popup, Grid!Tab
  <2>3. Books(popup)
    BY <2>2, GridAssumption DEF Books
  <2>4. timers \in SUBSET Nat /\ timers = {n}
    BY <1>2, <1>4
  <2> HIDE DEF popup, timers, n
  <2>5. /\ grid' \in Grid!Grid /\ grid'.loads = grid.loads /\ grid'.data = grid.data
        /\ grid'.loading = grid.loading
        /\ grid'.held = grid.held /\ grid'.drag = None /\ grid'.popup = popup /\ grid'.calculating = TRUE
        /\ grid'.timers = timers
    BY <1>1, <2>1, <2>2, <2>4 DEF Grid!Grid
  <2>6. LoadsSound(grid')
    BY <1>1, <2>5 DEF LoadsSound, LoadsWhole
  <2>7. PopupSound(grid')
    BY <1>2, <2>2, <2>3, <2>4, <2>5 DEF PopupSound, n
  <2> QED
    BY <1>1, <2>1, <2>5, <2>6, <2>7 DEF GridInv, GridServer
<1> QED
  BY <1>5, <1>6

-----------------------------------------------------------------------------
(* The popup. *)

LEMMA GridClosedIs ==
    ASSUME grid \in Grid!Grid, LoadsSound(grid), PopupSound(grid)
    PROVE  LET g == Grid!PopupClosed(grid) IN
           /\ g \in Grid!Grid /\ g.data = grid.data /\ LoadsSound(g) /\ PopupSound(g)
           /\ g.popup = None /\ g.calculating = FALSE /\ g.timers = {}
           /\ g.held = grid.held /\ g.drag = grid.drag /\ g.loads = grid.loads
           /\ g.loading = grid.loading
<1> DEFINE g == Grid!PopupClosed(grid)
<1>1. /\ g \in Grid!Grid /\ g.data = grid.data /\ g.loads = grid.loads /\ g.loading = grid.loading
      /\ g.popup = None /\ g.calculating = FALSE /\ g.timers = {}
      /\ g.held = grid.held /\ g.drag = grid.drag
  BY DEF Grid!PopupClosed, Grid!Grid
<1> HIDE DEF g
<1>2. LoadsSound(g)
  BY <1>1 DEF LoadsSound, LoadsWhole
<1>3. PopupSound(g)
  BY <1>1 DEF PopupSound, Books
<1> QED
  BY <1>1, <1>2, <1>3 DEF g

LEMMA GridPopupInv ==
    ASSUME GridInv,
           \/ \E p \in Grid!Pos : Grid!OpenInfo(p)
           \/ Grid!ClosePopup \/ Grid!EditPrice \/ Grid!SwitchTab
           \/ \E n \in grid.timers : Grid!PriceTimer(n)
    PROVE  GridInv'
<1>1. /\ grid \in Grid!Grid /\ LoadsSound(grid) /\ PopupSound(grid) /\ GridServer
      /\ grid.popup \in Grid!Popup \union {None} /\ grid.timers \in SUBSET Nat
  BY DEF GridInv, Grid!Grid
<1>2. ASSUME NEW p \in Grid!Pos, Grid!OpenInfo(p) PROVE GridInv'
  <2> DEFINE popup == [kind |-> "info"]
  <2>1. popup \in Grid!Popup /\ popup.kind = "info"
    BY DEF Grid!Popup
  <2>2. ~Books(popup) /\ ~Books(grid.popup)
    BY <1>2, <2>1 DEF Books, Grid!OpenInfo
  <2>3. grid' = [grid EXCEPT !.popup = popup] /\ UNCHANGED <<slot, changes>>
    BY <1>2 DEF Grid!OpenInfo, Grid!OnlyGrid
  <2> HIDE DEF popup
  <2>4. /\ grid' \in Grid!Grid /\ grid'.loads = grid.loads /\ grid'.data = grid.data
        /\ grid'.loading = grid.loading
        /\ grid'.held = grid.held /\ grid'.drag = grid.drag /\ grid'.popup = popup
        /\ grid'.calculating = grid.calculating /\ grid'.timers = grid.timers
    BY <1>1, <2>1, <2>3 DEF Grid!Grid
  <2>5. LoadsSound(grid')
    BY <1>1, <2>4 DEF LoadsSound, LoadsWhole
  <2>6. PopupSound(grid')
    BY <1>1, <2>2, <2>4 DEF PopupSound
  <2> QED
    BY <1>1, <2>3, <2>4, <2>5, <2>6 DEF GridInv, GridServer
<1>3. CASE Grid!ClosePopup
  <2>1. GridServer'
    BY <1>1, <1>3 DEF Grid!ClosePopup, Grid!OnlyGrid, GridServer
  <2> QED
    BY <1>1, <1>3, <2>1, GridClosedIs, GridSoundInv DEF Grid!ClosePopup
<1>4. CASE Grid!EditPrice
  <2>1. grid' = [grid EXCEPT !.edited = TRUE] /\ UNCHANGED <<slot, changes>>
    BY <1>4 DEF Grid!EditPrice, Grid!OnlyGrid
  <2>2. /\ grid' \in Grid!Grid /\ grid'.loads = grid.loads /\ grid'.data = grid.data
        /\ grid'.loading = grid.loading
        /\ grid'.held = grid.held /\ grid'.drag = grid.drag /\ grid'.popup = grid.popup
        /\ grid'.calculating = grid.calculating /\ grid'.timers = grid.timers
        /\ grid'.edited = TRUE
    BY <1>1, <2>1 DEF Grid!Grid
  <2>3. LoadsSound(grid')
    BY <1>1, <2>2 DEF LoadsSound, LoadsWhole
  <2>4. PopupSound(grid')
    BY <1>1, <2>2 DEF PopupSound
  <2> QED
    BY <1>1, <2>1, <2>2, <2>3, <2>4 DEF GridInv, GridServer
<1>5. CASE Grid!SwitchTab
  <2> DEFINE tab == IF grid.popup.tab = "book" THEN "close" ELSE "book"
             popup == [grid.popup EXCEPT !.tab = tab]
  <2>1. /\ grid.popup # None /\ grid.popup.kind = "book"
        /\ grid.popup \in [kind : {"book"}, slots : (SUBSET Grid!Slot) \ {{}}, tab : Grid!Tab]
    BY <1>1, <1>5 DEF Grid!SwitchTab, Grid!FormShown, Grid!Popup
  <2>2. tab \in Grid!Tab
    BY DEF Grid!Tab
  <2>3. grid' = [grid EXCEPT !.popup = popup] /\ UNCHANGED <<slot, changes>>
    BY <1>1, <1>5, <2>1 DEF Grid!SwitchTab, Grid!OnlyGrid, Grid!Grid
  <2> HIDE DEF tab
  <2>4. popup \in Grid!Popup /\ popup.kind = "book" /\ popup.slots = grid.popup.slots
    BY <2>1, <2>2 DEF Grid!Popup
  <2>5. Books(popup) /\ Books(grid.popup)
    BY <2>1, <2>4, GridAssumption DEF Books
  <2> HIDE DEF popup
  <2>6. /\ grid' \in Grid!Grid /\ grid'.loads = grid.loads /\ grid'.data = grid.data
        /\ grid'.loading = grid.loading
        /\ grid'.held = grid.held /\ grid'.drag = grid.drag /\ grid'.popup = popup
        /\ grid'.calculating = grid.calculating /\ grid'.timers = grid.timers
        /\ grid'.price = grid.price /\ grid'.edited = grid.edited
    BY <1>1, <2>3, <2>4 DEF Grid!Grid
  <2>7. LoadsSound(grid')
    BY <1>1, <2>6 DEF LoadsSound, LoadsWhole
  <2>8. PopupSound(grid')
    BY <1>1, <2>4, <2>5, <2>6 DEF PopupSound
  <2> QED
    BY <1>1, <2>3, <2>6, <2>7, <2>8 DEF GridInv, GridServer
<1>6. ASSUME NEW n \in grid.timers, Grid!PriceTimer(n) PROVE GridInv'
  <2>1. /\ grid' = [grid EXCEPT !.timers = grid.timers \ {n}, !.price = n, !.edited = FALSE,
                              !.calculating = FALSE]
        /\ UNCHANGED <<slot, changes>>
    BY <1>1, <1>6 DEF Grid!PriceTimer, Grid!OnlyGrid, Grid!Grid
  <2>2. n \in Nat
    BY <1>1
  <2>3. /\ grid' \in Grid!Grid /\ grid'.loads = grid.loads /\ grid'.data = grid.data
        /\ grid'.loading = grid.loading
        /\ grid'.held = grid.held /\ grid'.drag = grid.drag /\ grid'.popup = grid.popup
        /\ grid'.calculating = FALSE /\ grid'.timers = grid.timers \ {n}
        /\ grid'.price = n
    BY <1>1, <2>1, <2>2 DEF Grid!Grid
  <2>4. LoadsSound(grid')
    BY <1>1, <2>3 DEF LoadsSound, LoadsWhole
  <2>5. PopupSound(grid')
    BY <1>1, <1>6, <2>3 DEF PopupSound
  <2> QED
    BY <1>1, <2>1, <2>3, <2>4, <2>5 DEF GridInv, GridServer
<1> QED
  BY <1>2, <1>3, <1>4, <1>5, <1>6

\* A save keeps the popup and the loads as they are.
LEMMA GridSaveInv ==
    ASSUME GridInv, NEW save \in Grid!Save \union {None}, GridServer', grid' = [grid EXCEPT !.save = save]
    PROVE  GridInv'
<1>1. grid \in Grid!Grid /\ LoadsSound(grid) /\ PopupSound(grid)
  BY DEF GridInv
<1>2. /\ grid' \in Grid!Grid /\ grid'.loads = grid.loads /\ grid'.data = grid.data
           /\ grid'.loading = grid.loading
      /\ grid'.held = grid.held /\ grid'.drag = grid.drag /\ grid'.popup = grid.popup
      /\ grid'.calculating = grid.calculating
      /\ grid'.price = grid.price /\ grid'.edited = grid.edited /\ grid'.timers = grid.timers
  BY <1>1 DEF Grid!Grid
<1>3. LoadsSound(grid')
  BY <1>1, <1>2 DEF LoadsSound, LoadsWhole
<1>4. PopupSound(grid')
  BY <1>1, <1>2 DEF PopupSound
<1> QED
  BY <1>2, <1>3, <1>4 DEF GridInv

LEMMA GridSavesInv ==
    ASSUME GridInv, Grid!SubmitForm \/ Grid!ServeSave \/ Grid!SaveFails
    PROVE  GridInv'
<1>1. /\ grid \in Grid!Grid /\ GridServer /\ slot \in [Grid!Slot -> Grid!Status] /\ changes \in 0..GridChanges
      /\ grid.popup \in Grid!Popup \union {None} /\ grid.save \in Grid!Save \union {None}
  BY DEF GridInv, GridServer, Grid!Grid
<1>2. CASE Grid!SubmitForm
  <2> DEFINE save == [slots |-> grid.popup.slots, step |-> "asked"]
  <2>1. grid.popup.slots \in (SUBSET Grid!Slot) \ {{}}
    BY <1>1, <1>2 DEF Grid!SubmitForm, Grid!FormShown, Grid!Popup
  <2>2. save \in Grid!Save
    BY <2>1 DEF Grid!Save
  <2>3. GridServer' /\ grid' = [grid EXCEPT !.save = save]
    BY <1>1, <1>2 DEF Grid!SubmitForm, Grid!OnlyGrid, GridServer
  <2> HIDE DEF save
  <2> QED
    BY <2>2, <2>3, GridSaveInv
<1>3. CASE Grid!ServeSave
  <2> DEFINE save == [grid.save EXCEPT !.step = "made"]
  <2>1. save \in Grid!Save
    BY <1>1, <1>3 DEF Grid!ServeSave, Grid!Save
  <2>2. grid' = [grid EXCEPT !.save = save]
    BY <1>1, <1>3 DEF Grid!ServeSave, Grid!Grid
  <2>3. slot' \in [Grid!Slot -> Grid!Status]
    BY <1>1, <1>3 DEF Grid!ServeSave, Grid!With, Grid!Status
  <2>4. changes' \in 0..GridChanges
    BY <1>1, <1>3, GridAssumption DEF Grid!ServeSave
  <2> HIDE DEF save
  <2> QED
    BY <2>1, <2>2, <2>3, <2>4, GridSaveInv DEF GridServer
<1>4. CASE Grid!SaveFails
  BY <1>1, <1>4, GridSaveInv DEF Grid!SaveFails, Grid!OnlyGrid, GridServer
<1> QED
  BY <1>2, <1>3, <1>4

LEMMA GridSaveArrivesInv == ASSUME GridInv, Grid!SaveArrives PROVE GridInv'
<1> DEFINE g == Grid!PopupClosed(grid)
           data == IF g.data = None THEN None ELSE [g.data EXCEPT !.cells = Grid!With(g.data.cells, grid.save)]
<1>1. /\ grid \in Grid!Grid /\ LoadsSound(grid) /\ PopupSound(grid) /\ GridServer
      /\ grid.data \in Grid!Data \union {None}
  BY DEF GridInv, Grid!Grid
<1>2. /\ g \in Grid!Grid /\ g.data = grid.data /\ LoadsSound(g) /\ PopupSound(g)
      /\ g.popup = None /\ g.timers = {} /\ g.calculating = FALSE
  BY <1>1, GridClosedIs
<1>3. data \in Grid!Data \union {None} /\ (data # None => Whole(data.range))
  <2>1. CASE grid.data = None
    BY <1>2, <2>1
  <2>2. CASE grid.data # None
    <3>1. grid.data \in Grid!Data /\ Whole(grid.data.range)
      BY <1>1, <2>2 DEF LoadsSound, LoadsWhole
    <3>2. Grid!With(grid.data.cells, grid.save) \in [Grid!Slot -> Grid!Status]
      BY <3>1 DEF Grid!With, Grid!Status, Grid!Data
    <3>3. data = [grid.data EXCEPT !.cells = Grid!With(grid.data.cells, grid.save)]
      BY <1>2, <2>2
    <3> HIDE DEF data
    <3>4. data \in Grid!Data /\ data.range = grid.data.range
      BY <3>1, <3>2, <3>3 DEF Grid!Data
    <3> QED
      BY <3>1, <3>4
  <2> QED
    BY <2>1, <2>2
<1>4. grid' = [g EXCEPT !.save = None, !.data = data]
  <2>1. grid' = [g EXCEPT !.save = None, !.data = Grid!DataWith(g.data, grid.save)]
    BY <1>2 DEF Grid!SaveArrives, Grid!Grid
  <2>2. Grid!DataWith(g.data, grid.save) = data
    BY DEF Grid!DataWith
  <2> QED
    BY <2>1, <2>2
<1>5. UNCHANGED <<slot, changes>>
  BY DEF Grid!SaveArrives, Grid!OnlyGrid
<1> HIDE DEF g, data
<1>6. /\ grid' \in Grid!Grid /\ grid'.loads = g.loads /\ grid'.data = data /\ grid'.loading = g.loading
      /\ grid'.held = g.held /\ grid'.drag = g.drag /\ grid'.popup = g.popup
      /\ grid'.calculating = g.calculating
      /\ grid'.price = g.price /\ grid'.edited = g.edited /\ grid'.timers = g.timers
  BY <1>2, <1>3, <1>4 DEF Grid!Grid
<1>7. LoadsSound(grid')
  BY <1>2, <1>3, <1>6 DEF LoadsSound, LoadsWhole
<1>8. PopupSound(grid')
  BY <1>2, <1>6 DEF PopupSound
<1> QED
  BY <1>1, <1>5, <1>6, <1>7, <1>8 DEF GridInv, GridServer

LEMMA GridInitInv == Grid!GridInit => GridInv
<1> SUFFICES ASSUME Grid!GridInit PROVE GridInv
  OBVIOUS
<1>1. slot \in [Grid!Slot -> Grid!Status] /\ changes \in 0..GridChanges
  BY GridAssumption DEF Grid!GridInit, Grid!Status
<1>2. /\ Grid!EmptyGrid \in Grid!Grid /\ Grid!EmptyGrid.loads = {} /\ Grid!EmptyGrid.data = None
           /\ Grid!EmptyGrid.popup = None
      /\ Grid!EmptyGrid.timers = {} /\ Grid!EmptyGrid.held = None /\ Grid!EmptyGrid.drag = None
           /\ Grid!EmptyGrid.calculating = FALSE
      /\ Grid!EmptyGrid.loading = TRUE
  <2>1. 0 \in Grid!Pages /\ {} \in SUBSET Grid!Load /\ {} \in SUBSET Nat
    BY GridAssumption DEF Grid!Pages
  <2>2. Grid!EmptyGrid \in Grid!Grid
    BY <2>1 DEF Grid!EmptyGrid, Grid!Grid
  <2> QED
    BY <2>2 DEF Grid!EmptyGrid
<1>3. PopupSound(Grid!EmptyGrid)
  BY <1>2 DEF PopupSound, Books
<1>4. Grid!FreeLoad(Grid!EmptyGrid) # {}
  <2>1. 1 \in 1..GridLoads
    BY GridAssumption
  <2> QED
    BY <1>2, <2>1 DEF Grid!FreeLoad
<1>5. LoadsWhole(Grid!EmptyGrid)
  BY <1>2 DEF LoadsWhole
<1>6. grid \in Grid!Grid /\ LoadsSound(grid) /\ PopupSound(grid)
  BY <1>1, <1>2, <1>3, <1>4, <1>5, GridLoadingIs DEF Grid!GridInit
<1> QED
  BY <1>1, <1>6 DEF GridInv, GridServer

LEMMA GridStep == ASSUME GridInv, [Grid!GridNext]_Grid!gridVars PROVE GridInv'
<1>1. CASE UNCHANGED Grid!gridVars
  BY <1>1 DEF Grid!gridVars, GridInv, GridServer, LoadsSound, LoadsWhole, PopupSound
<1>2. CASE \/ \E d \in Picked \union {None} : Grid!PickFrom(d) \/ Grid!PickTo(d)
           \/ Grid!Refilter \/ Grid!HandleClear \/ \E step \in {-1, 1} : Grid!TurnPage(step)
  BY <1>2, GridWindowInv
<1>3. CASE \E n \in 1..GridLoads : Grid!GridLoadAnswer(n)
  BY <1>3, GridAnswerInv DEF Grid!GridLoadAnswer
<1>4. CASE \/ \E p \in Grid!Pos : Grid!MouseDown(p) \/ Grid!TouchStart(p) \/ Grid!MoveTo(p)
           \/ Grid!LongPress \/ Grid!LetGo \/ Grid!CancelDrag
  BY <1>4, GridDragInv
<1>5. CASE Grid!FinishDrag
  BY <1>5, GridFinishInv
<1>6. CASE \/ \E p \in Grid!Pos : Grid!OpenInfo(p)
           \/ Grid!ClosePopup \/ Grid!EditPrice \/ Grid!SwitchTab
           \/ \E n \in grid.timers : Grid!PriceTimer(n)
  BY <1>6, GridPopupInv
<1>7. CASE Grid!SubmitForm \/ Grid!GridSaveAnswer
  BY <1>7, GridSavesInv, GridSaveArrivesInv DEF Grid!GridSaveAnswer
<1>8. CASE \E s \in Grid!Slot : Grid!OthersTake(s)
  <2>1. GridServer' /\ grid' = grid
    BY <1>8, GridAssumption DEF Grid!OthersTake, GridInv, GridServer, Grid!Status
  <2> QED
    BY <2>1 DEF GridInv, LoadsSound, LoadsWhole, PopupSound
<1> QED
  BY <1>1, <1>2, <1>3, <1>4, <1>5, <1>6, <1>7, <1>8 DEF Grid!GridNext

(***************************************************************************)
(* The page a player books on (PitchBookingPage).                          *)
(***************************************************************************)

LEMMA PitchCardinality == \A S : Pitch!Cardinality(S) = Cardinality(S)
BY DEF Pitch!Cardinality, Cardinality

\* What is selected is of the mode and shown, and the spinner has its request.
PitchSound(p) ==
    /\ p \in Pitch!PitchPage
    /\ IsFiniteSet(p.calls) /\ Cardinality(p.calls) <= MaxBookings
    /\ p.selected \subseteq Pitch!SlotsOf(p.mode)
    /\ p.selected \subseteq p.shown
    /\ p.phase = "loading" => p.selected = {}
    /\ p.teamBookingLoading => \E c \in p.calls : c.kind = "request"

PitchInv == free \subseteq Pitch!Slot /\ isManager \in BOOLEAN /\ ownsTeam \in BOOLEAN
              /\ PitchSound(pitchPage)

LEMMA PitchInvImplies ==
    PitchInv
      => Pitch!PitchTypeOK /\ Pitch!SelectionIsOfTheMode /\ Pitch!SelectionIsShownFree
        /\ Pitch!TeamBookingHasCall
BY PitchCardinality
   DEF PitchInv, PitchSound, Pitch!PitchTypeOK, Pitch!SelectionIsOfTheMode, Pitch!SelectionIsShownFree,
   Pitch!TeamBookingHasCall

LEMMA PitchInitInv == Pitch!PitchInit => PitchInv
<1> SUFFICES ASSUME Pitch!PitchInit PROVE PitchInv
  OBVIOUS
<1>1. 1 \in 1..Weeks
  BY PitchAssumption
<1>2. /\ pitchPage \in Pitch!PitchPage /\ pitchPage.calls = {} /\ pitchPage.selected = {}
      /\ pitchPage.teamBookingLoading = FALSE
  BY <1>1 DEF Pitch!PitchInit, Pitch!PitchPage, Pitch!Mode, Pitch!BookingStep, Pitch!Choice
<1>3. IsFiniteSet({}) /\ Cardinality({}) = 0
  BY FS_EmptySet
<1>4. PitchSound(pitchPage)
  BY <1>2, <1>3, PitchAssumption DEF PitchSound
<1> QED
  BY <1>4 DEF Pitch!PitchInit, PitchInv

\* The hours selected of a page on which no call ends or begins.
LEMMA PitchPageInv ==
    ASSUME PitchInv, pitchPage' \in Pitch!PitchPage, pitchPage'.calls = pitchPage.calls,
           pitchPage'.selected \subseteq Pitch!SlotsOf(pitchPage'.mode),
           pitchPage'.selected \subseteq pitchPage'.shown,
           pitchPage'.phase = "loading" => pitchPage'.selected = {},
           pitchPage'.teamBookingLoading = pitchPage.teamBookingLoading,
           UNCHANGED <<free, isManager, ownsTeam>>
    PROVE  PitchInv'
BY DEF PitchInv, PitchSound

LEMMA PitchLoadsInv == ASSUME PitchInv, Pitch!TeamsArrive \/ Pitch!PitchArrives PROVE PitchInv'
<1>1. /\ pitchPage \in Pitch!PitchPage /\ free \subseteq Pitch!Slot /\ PitchSound(pitchPage)
      /\ pitchPage.selected \subseteq Pitch!SlotsOf(pitchPage.mode)
           /\ pitchPage.selected \subseteq pitchPage.shown
      /\ pitchPage.phase = "loading" => pitchPage.selected = {}
  BY DEF PitchInv, PitchSound
<1>2. CASE Pitch!TeamsArrive
  <2>1. PICK known \in {"none", IF ownsTeam THEN "some" ELSE "none"} :
            Pitch!OnPitch([pitchPage EXCEPT !.teams = known])
    BY <1>2 DEF Pitch!TeamsArrive
  <2>2. known \in {"loading", "none", "some"}
    OBVIOUS
  <2>3. /\ pitchPage' \in Pitch!PitchPage /\ pitchPage'.calls = pitchPage.calls
        /\ pitchPage'.selected = pitchPage.selected /\ pitchPage'.mode = pitchPage.mode
             /\ pitchPage'.phase = pitchPage.phase
        /\ pitchPage'.shown = pitchPage.shown
        /\ pitchPage'.teamBookingLoading = pitchPage.teamBookingLoading
    BY <1>1, <2>1, <2>2 DEF Pitch!OnPitch, Pitch!PitchPage
  <2> QED
    BY <1>1, <2>1, <2>3, PitchPageInv DEF Pitch!OnPitch
<1>3. CASE Pitch!OnPitch([pitchPage EXCEPT !.phase = "missing"])
  <2>1. /\ pitchPage' \in Pitch!PitchPage /\ pitchPage'.calls = pitchPage.calls
        /\ pitchPage'.selected = pitchPage.selected /\ pitchPage'.mode = pitchPage.mode
             /\ pitchPage'.phase = "missing"
        /\ pitchPage'.shown = pitchPage.shown
        /\ pitchPage'.teamBookingLoading = pitchPage.teamBookingLoading
    BY <1>1, <1>3 DEF Pitch!OnPitch, Pitch!PitchPage
  <2> QED
    BY <1>1, <1>3, <2>1, PitchPageInv DEF Pitch!OnPitch
<1>4. CASE pitchPage.phase = "loading" /\ Pitch!OnPitch([pitchPage EXCEPT !.phase = "shown", !.shown = free])
  <2>1. /\ pitchPage' \in Pitch!PitchPage /\ pitchPage'.calls = pitchPage.calls
        /\ pitchPage'.selected = pitchPage.selected /\ pitchPage'.mode = pitchPage.mode
             /\ pitchPage'.phase = "shown"
        /\ pitchPage'.shown = free
        /\ pitchPage'.teamBookingLoading = pitchPage.teamBookingLoading
    BY <1>1, <1>4 DEF Pitch!OnPitch, Pitch!PitchPage
  <2>2. pitchPage.selected = {}
    BY <1>1, <1>4 DEF PitchSound
  <2> QED
    BY <1>1, <1>4, <2>1, <2>2, PitchPageInv DEF Pitch!OnPitch
<1> QED
  BY <1>2, <1>3, <1>4 DEF Pitch!PitchArrives

LEMMA PitchSelectInv ==
    ASSUME PitchInv,
           \/ \E mode \in Pitch!Mode : Pitch!SetMode(mode)
           \/ \E week \in 1..Weeks : Pitch!TurnWeek(week)
           \/ \E s \in Pitch!Slot : Pitch!ToggleSlot(s)
           \/ Pitch!ClearSelection \/ Pitch!ApplyWeek1ToAllWeeks
    PROVE  PitchInv'
<1>1. /\ pitchPage \in Pitch!PitchPage
      /\ pitchPage.selected \subseteq Pitch!SlotsOf(pitchPage.mode)
           /\ pitchPage.selected \subseteq pitchPage.shown
      /\ pitchPage.shown \subseteq Pitch!Slot /\ pitchPage.selected \subseteq Pitch!Slot
           /\ pitchPage.week \in 1..Weeks
      /\ 1 \in 1..Weeks /\ (pitchPage.phase = "loading" => pitchPage.selected = {})
  BY PitchAssumption DEF PitchInv, PitchSound, Pitch!PitchPage
<1>2. ASSUME NEW mode \in Pitch!Mode, Pitch!SetMode(mode) PROVE PitchInv'
  <2> DEFINE week == IF mode = "monthly" THEN pitchPage.week ELSE 1
  <2>0. week \in 1..Weeks
    BY <1>1
  <2>1. /\ week \in 1..Weeks
        /\ pitchPage' = [pitchPage EXCEPT !.mode = mode, !.selected = {}, !.week = week]
    BY <2>0, <1>2, ZenonT(60) DEF Pitch!SetMode, Pitch!OnPitch
  <2> HIDE DEF week
  <2>2. /\ pitchPage' \in Pitch!PitchPage /\ pitchPage'.calls = pitchPage.calls /\ pitchPage'.selected = {}
        /\ pitchPage'.teamBookingLoading = pitchPage.teamBookingLoading
    BY <1>1, <2>1 DEF Pitch!PitchPage
  <2> QED
    BY <1>2, <2>2, PitchPageInv, ZenonT(60) DEF Pitch!SetMode, Pitch!OnPitch
<1>3. ASSUME NEW week \in 1..Weeks, Pitch!TurnWeek(week) PROVE PitchInv'
  <2>1. /\ pitchPage' \in Pitch!PitchPage /\ pitchPage'.calls = pitchPage.calls
        /\ pitchPage'.selected = pitchPage.selected /\ pitchPage'.mode = pitchPage.mode
             /\ pitchPage'.phase = pitchPage.phase
        /\ pitchPage'.shown = pitchPage.shown
        /\ pitchPage'.teamBookingLoading = pitchPage.teamBookingLoading
    BY <1>1, <1>3 DEF Pitch!TurnWeek, Pitch!OnPitch, Pitch!PitchPage
  <2> QED
    BY <1>1, <1>3, <2>1, PitchPageInv DEF Pitch!TurnWeek, Pitch!OnPitch
<1>4. ASSUME NEW selected, selected \subseteq Pitch!SlotsOf(pitchPage.mode),
             selected \subseteq pitchPage.shown, Pitch!Shown,
             Pitch!OnPitch([pitchPage EXCEPT !.selected = selected])
      PROVE  PitchInv'
  <2>1. selected \in SUBSET Pitch!Slot
    BY <1>1, <1>4
  <2>2. /\ pitchPage' \in Pitch!PitchPage /\ pitchPage'.calls = pitchPage.calls
        /\ pitchPage'.selected = selected /\ pitchPage'.mode = pitchPage.mode
             /\ pitchPage'.phase = pitchPage.phase
        /\ pitchPage'.shown = pitchPage.shown
        /\ pitchPage'.teamBookingLoading = pitchPage.teamBookingLoading
    BY <1>1, <1>4, <2>1 DEF Pitch!OnPitch, Pitch!PitchPage
  <2> QED
    BY <1>4, <2>2, PitchPageInv DEF Pitch!OnPitch, Pitch!Shown
<1>5. ASSUME NEW s \in Pitch!Slot, Pitch!ToggleSlot(s) PROVE PitchInv'
  <2> DEFINE selected == IF s \in pitchPage.selected THEN pitchPage.selected \ {s} ELSE pitchPage.selected \union {s}
  <2>1. s \in Pitch!SlotsOf(pitchPage.mode) /\ s \in pitchPage.shown
    BY <1>1, <1>5 DEF Pitch!ToggleSlot, Pitch!DisplayedSlots, Pitch!SlotsOf
  <2>2. selected \subseteq Pitch!SlotsOf(pitchPage.mode) /\ selected \subseteq pitchPage.shown
    BY <1>1, <2>1
  <2>3. Pitch!Shown /\ Pitch!OnPitch([pitchPage EXCEPT !.selected = selected])
    BY <1>1, <1>5 DEF Pitch!ToggleSlot, Pitch!OnPitch, Pitch!PitchPage
  <2> QED
    BY <1>4, <2>2, <2>3
<1>6. CASE Pitch!ClearSelection
  <2> QED
    BY <1>4, <1>6 DEF Pitch!ClearSelection
<1>7. CASE Pitch!ApplyWeek1ToAllWeeks
  <2> DEFINE selected == ((1..Weeks) \X Pitch!Pattern) \intersect pitchPage.shown
  <2>1. selected \subseteq Pitch!SlotsOf(pitchPage.mode)
    BY <1>7 DEF Pitch!ApplyWeek1ToAllWeeks, Pitch!SlotsOf, Pitch!Pattern
  <2> QED
    BY <1>4, <1>7, <2>1 DEF Pitch!ApplyWeek1ToAllWeeks
<1> QED
  BY <1>2, <1>3, <1>5, <1>6, <1>7

LEMMA PitchCallIs ==
    ASSUME PitchInv, Pitch!RoomForCall, NEW kind \in {"cash", "reload", "hold", "request"}
    PROVE  LET p == Pitch!WithCall(pitchPage, kind) IN
           /\ PitchSound(p) /\ p.step = pitchPage.step /\ p.pendingChoice = pitchPage.pendingChoice
           /\ \E c \in p.calls : c.kind = kind
<1> DEFINE c == Pitch!NewCall(kind)
           calls == pitchPage.calls \union {c}
           p == Pitch!WithCall(pitchPage, kind)
<1>1. pitchPage \in Pitch!PitchPage /\ pitchPage.selected \in SUBSET Pitch!Slot
        /\ pitchPage.calls \in SUBSET Pitch!BookingCall
  BY DEF PitchInv, PitchSound, Pitch!PitchPage
<1>2. c \in Pitch!BookingCall /\ c.kind = kind
  BY <1>1 DEF Pitch!NewCall, Pitch!BookingCall
<1>3. IsFiniteSet(calls) /\ Cardinality(calls) <= MaxBookings
  <2>1. IsFiniteSet(pitchPage.calls) /\ Cardinality(pitchPage.calls) < MaxBookings
    BY PitchCardinality DEF PitchInv, PitchSound, Pitch!RoomForCall
  <2>2. /\ IsFiniteSet(calls)
        /\ Cardinality(calls) = Cardinality(pitchPage.calls)
             \/ Cardinality(calls) = Cardinality(pitchPage.calls) + 1
    BY <2>1, FS_AddElement
  <2>3. Cardinality(pitchPage.calls) \in Nat
    BY <2>1, FS_CardinalityType
  <2> QED
    BY <2>1, <2>2, <2>3, PitchAssumption
<1>4. p = [pitchPage EXCEPT !.calls = calls]
  BY <1>1 DEF Pitch!WithCall, Pitch!PitchPage
<1> HIDE DEF c, calls, p
<1>5. calls \in SUBSET Pitch!BookingCall
  BY <1>1, <1>2 DEF calls
<1>6. /\ p \in Pitch!PitchPage /\ p.calls = calls /\ p.selected = pitchPage.selected
           /\ p.mode = pitchPage.mode /\ p.phase = pitchPage.phase
      /\ p.shown = pitchPage.shown /\ p.step = pitchPage.step /\ p.pendingChoice = pitchPage.pendingChoice
      /\ p.teamBookingLoading = pitchPage.teamBookingLoading
  BY <1>1, <1>4, <1>5 DEF Pitch!PitchPage
<1>7. PitchSound(p)
  BY <1>3, <1>6 DEF PitchInv, PitchSound, calls
<1>8. \E d \in p.calls : d.kind = kind
  BY <1>2, <1>6 DEF calls
<1> QED
  BY <1>6, <1>7, <1>8 DEF p

\* Steps of the dialog, whatever page it is opened on.
LEMMA PitchStepIs ==
    ASSUME NEW p, PitchSound(p), NEW step \in Pitch!BookingStep
    PROVE  /\ PitchSound(Pitch!ToStep(p, step)) /\ Pitch!ToStep(p, step).calls = p.calls
           /\ Pitch!ToStep(p, step).shown = p.shown /\ Pitch!ToStep(p, step).mode = p.mode
           /\ Pitch!ToStep(p, step).teamBookingLoading = p.teamBookingLoading
<1> DEFINE choice == IF step = p.step THEN p.pendingChoice ELSE "none"
           failed == p.holdFailed /\ step = p.step
           q == Pitch!ToStep(p, step)
<1>1. p \in Pitch!PitchPage
  BY DEF PitchSound
<1>2. /\ choice \in Pitch!Choice /\ failed \in BOOLEAN
      /\ q = [p EXCEPT !.step = step, !.pendingChoice = choice, !.holdFailed = failed]
  BY <1>1 DEF Pitch!ToStep, Pitch!PitchPage, Pitch!Choice
<1> HIDE DEF choice, failed, q
<1>3. /\ q \in Pitch!PitchPage /\ q.calls = p.calls /\ q.selected = p.selected /\ q.mode = p.mode
           /\ q.phase = p.phase
      /\ q.shown = p.shown /\ q.teamBookingLoading = p.teamBookingLoading
  BY <1>1, <1>2 DEF Pitch!PitchPage
<1>4. PitchSound(q)
  BY <1>3 DEF PitchSound
<1> QED
  BY <1>3, <1>4 DEF q

\* A page whose team or selection is forgotten.
LEMMA PitchForgets ==
    ASSUME NEW p, PitchSound(p)
    PROVE  /\ PitchSound([p EXCEPT !.team = FALSE]) /\ PitchSound([p EXCEPT !.team = TRUE])
           /\ [p EXCEPT !.team = FALSE].calls = p.calls
           /\ PitchSound([p EXCEPT !.selected = {}])
           /\ PitchSound([p EXCEPT !.selected = {}, !.teamBookingLoading = FALSE])
<1>1. p \in Pitch!PitchPage /\ {} \in SUBSET Pitch!Slot
  BY DEF PitchSound
<1>2. ASSUME NEW team \in BOOLEAN
      PROVE  PitchSound([p EXCEPT !.team = team]) /\ [p EXCEPT !.team = team].calls = p.calls
  <2> DEFINE q == [p EXCEPT !.team = team]
  <2>1. /\ q \in Pitch!PitchPage /\ q.calls = p.calls /\ q.selected = p.selected /\ q.mode = p.mode
             /\ q.phase = p.phase
        /\ q.shown = p.shown /\ q.teamBookingLoading = p.teamBookingLoading
    BY <1>1 DEF Pitch!PitchPage
  <2> HIDE DEF q
  <2>2. PitchSound(q)
    BY <2>1 DEF PitchSound
  <2> QED
    BY <2>1, <2>2 DEF q
<1>3. PitchSound([p EXCEPT !.selected = {}])
  <2> DEFINE q == [p EXCEPT !.selected = {}]
  <2>1. /\ q \in Pitch!PitchPage /\ q.calls = p.calls /\ q.selected = {} /\ q.mode = p.mode
             /\ q.phase = p.phase
        /\ q.shown = p.shown /\ q.teamBookingLoading = p.teamBookingLoading
    BY <1>1 DEF Pitch!PitchPage
  <2> HIDE DEF q
  <2>2. PitchSound(q)
    BY <2>1 DEF PitchSound
  <2> QED
    BY <2>2 DEF q
<1>4. PitchSound([p EXCEPT !.selected = {}, !.teamBookingLoading = FALSE])
  <2> DEFINE q == [p EXCEPT !.selected = {}, !.teamBookingLoading = FALSE]
  <2>1. /\ q \in Pitch!PitchPage /\ q.calls = p.calls /\ q.selected = {} /\ q.mode = p.mode
             /\ q.phase = p.phase
        /\ q.shown = p.shown /\ q.teamBookingLoading = FALSE
    BY <1>1 DEF Pitch!PitchPage
  <2> HIDE DEF q
  <2>2. PitchSound(q)
    BY <2>1 DEF PitchSound
  <2> QED
    BY <2>2 DEF q
<1> QED
  BY <1>2, <1>3, <1>4

LEMMA PitchSoundInv ==
    ASSUME PitchInv, NEW p, PitchSound(p), Pitch!OnPitch(p)
    PROVE  PitchInv'
<1>1. pitchPage' = p /\ UNCHANGED <<free, isManager, ownsTeam>>
  BY DEF Pitch!OnPitch
<1>2. PitchSound(p)'
  BY <1>1 DEF PitchSound, Pitch!PitchPage, Pitch!BookingCall, Pitch!SlotsOf, Pitch!Slot
<1> QED
  BY <1>1, <1>2 DEF PitchInv

LEMMA PitchBookInv == ASSUME PitchInv, Pitch!HandleBookClick PROVE PitchInv'
<1>1. PitchSound(pitchPage) /\ pitchPage \in Pitch!PitchPage
  BY DEF PitchInv, PitchSound
<1>2. CASE isManager
  BY <1>2, PitchCallIs, PitchSoundInv DEF Pitch!HandleBookClick
<1>3. CASE ~isManager /\ pitchPage.teams # "some"
  <2>1. PitchSound(Pitch!WithCall(pitchPage, "hold"))
    BY PitchCallIs DEF Pitch!HandleBookClick
  <2> QED
    BY <1>3, <2>1, PitchSoundInv DEF Pitch!HandleBookClick
<1>4. CASE ~isManager /\ pitchPage.teams = "some"
  <2>1. Pitch!OnPitch([pitchPage EXCEPT !.step = "choice"])
    BY <1>4 DEF Pitch!HandleBookClick
  <2>2. /\ pitchPage' \in Pitch!PitchPage /\ pitchPage'.calls = pitchPage.calls
        /\ pitchPage'.selected = pitchPage.selected /\ pitchPage'.mode = pitchPage.mode
             /\ pitchPage'.phase = pitchPage.phase
        /\ pitchPage'.shown = pitchPage.shown
        /\ pitchPage'.teamBookingLoading = pitchPage.teamBookingLoading
    BY <1>1, <2>1 DEF Pitch!OnPitch, Pitch!PitchPage, Pitch!BookingStep
  <2> QED
    BY <1>1, <2>1, <2>2, PitchPageInv DEF Pitch!OnPitch, PitchSound
<1> QED
  BY <1>2, <1>3, <1>4

LEMMA PitchDialogInv ==
    ASSUME PitchInv,
           \/ Pitch!ChooseTeamBooking \/ Pitch!SelectTeamForBooking \/ Pitch!ProceedToTeamConfirm
           \/ Pitch!BackToChoiceStep \/ Pitch!BackToTeamSelectStep \/ Pitch!CloseBookingModal
    PROVE  PitchInv'
<1>1. PitchSound(pitchPage)
        /\ \A step \in {"closed", "choice", "team-select", "team-confirm"} : step \in Pitch!BookingStep
  BY DEF PitchInv, Pitch!BookingStep
<1>2. CASE Pitch!ChooseTeamBooking
  BY <1>1, <1>2, PitchStepIs, PitchSoundInv DEF Pitch!ChooseTeamBooking
<1>3. CASE Pitch!SelectTeamForBooking
  BY <1>1, <1>3, PitchForgets, PitchSoundInv, ZenonT(60) DEF Pitch!SelectTeamForBooking
<1>4. CASE Pitch!ProceedToTeamConfirm
  BY <1>1, <1>4, PitchStepIs, PitchSoundInv DEF Pitch!ProceedToTeamConfirm
<1>5. CASE Pitch!BackToChoiceStep
  <2>1. PitchSound(Pitch!ToStep(pitchPage, "choice"))
    BY <1>1, PitchStepIs
  <2> QED
    BY <1>5, <2>1, PitchForgets, PitchSoundInv, ZenonT(60) DEF Pitch!BackToChoiceStep
<1>6. CASE Pitch!BackToTeamSelectStep
  BY <1>1, <1>6, PitchStepIs, PitchSoundInv DEF Pitch!BackToTeamSelectStep
<1>7. CASE Pitch!CloseBookingModal
  <2>1. PitchSound(Pitch!ToStep(pitchPage, "closed"))
    BY <1>1, PitchStepIs
  <2> QED
    BY <1>7, <2>1, PitchForgets, PitchSoundInv, ZenonT(60) DEF Pitch!CloseBookingModal, Pitch!Closed
<1> QED
  BY <1>2, <1>3, <1>4, <1>5, <1>6, <1>7

LEMMA PitchSendInv ==
    ASSUME PitchInv, Pitch!ChooseIndividualBooking \/ Pitch!HandleConfirmTeamBooking
    PROVE  PitchInv'
<1>1. CASE Pitch!ChooseIndividualBooking
  <2> DEFINE p == Pitch!WithCall(pitchPage, "hold")
             q == [p EXCEPT !.pendingChoice = "individual"]
  <2>1. PitchSound(p) /\ p \in Pitch!PitchPage
    BY <1>1, PitchCallIs DEF Pitch!ChooseIndividualBooking, PitchSound
  <2>2. Pitch!OnPitch(q)
    BY <1>1 DEF Pitch!ChooseIndividualBooking
  <2> HIDE DEF p
  <2>3. /\ q \in Pitch!PitchPage /\ q.calls = p.calls /\ q.selected = p.selected /\ q.mode = p.mode
             /\ q.phase = p.phase
        /\ q.shown = p.shown /\ q.teamBookingLoading = p.teamBookingLoading
    BY <2>1 DEF Pitch!PitchPage, Pitch!Choice
  <2> HIDE DEF q
  <2>4. PitchSound(q)
    BY <2>1, <2>3 DEF PitchSound
  <2> QED
    BY <2>2, <2>4, PitchSoundInv
<1>2. CASE Pitch!HandleConfirmTeamBooking
  <2> DEFINE p == Pitch!WithCall(pitchPage, "request")
             q == [p EXCEPT !.teamBookingLoading = TRUE]
  <2>1. PitchSound(p) /\ p \in Pitch!PitchPage /\ \E c \in p.calls : c.kind = "request"
    BY <1>2, PitchCallIs DEF Pitch!HandleConfirmTeamBooking, PitchSound
  <2>2. Pitch!OnPitch(q)
    BY <1>2 DEF Pitch!HandleConfirmTeamBooking
  <2> HIDE DEF p
  <2>3. /\ q \in Pitch!PitchPage /\ q.calls = p.calls /\ q.selected = p.selected /\ q.mode = p.mode
             /\ q.phase = p.phase
        /\ q.shown = p.shown /\ q.teamBookingLoading = TRUE
    BY <2>1 DEF Pitch!PitchPage
  <2> HIDE DEF q
  <2>4. PitchSound(q)
    BY <2>1, <2>3 DEF PitchSound
  <2> QED
    BY <2>2, <2>4, PitchSoundInv
<1> QED
  BY <1>1, <1>2

\* What is left of the calls when one has ended, with at most one in its place.
LEMMA PitchCallsLeft ==
    ASSUME NEW calls, IsFiniteSet(calls), Cardinality(calls) <= MaxBookings, NEW c \in calls, NEW d
    PROVE  /\ IsFiniteSet(calls \ {c}) /\ Cardinality(calls \ {c}) <= MaxBookings
           /\ IsFiniteSet((calls \ {c}) \union {d}) /\ Cardinality((calls \ {c}) \union {d}) <= MaxBookings
<1> DEFINE rest == calls \ {c}
<1>1. IsFiniteSet(rest) /\ Cardinality(rest) = Cardinality(calls) - 1
  BY FS_RemoveElement
<1>2. Cardinality(calls) \in Nat /\ Cardinality(rest) \in Nat
  BY <1>1, FS_CardinalityType
<1> HIDE DEF rest
<1>3. /\ IsFiniteSet(rest \union {d})
      /\ Cardinality(rest \union {d}) = Cardinality(rest) \/ Cardinality(rest \union {d}) = Cardinality(rest) + 1
  BY <1>1, FS_AddElement
<1>4. Cardinality(rest) <= MaxBookings /\ Cardinality(rest \union {d}) <= MaxBookings
  BY <1>1, <1>2, <1>3, PitchAssumption
<1> QED
  BY <1>1, <1>3, <1>4 DEF rest

LEMMA PitchWithoutIs ==
    ASSUME PitchSound(pitchPage), NEW c \in pitchPage.calls
    PROVE  LET p == Pitch!Without(pitchPage, c) IN
           /\ p \in Pitch!PitchPage /\ p.calls = pitchPage.calls \ {c} /\ p.selected = pitchPage.selected
           /\ p.mode = pitchPage.mode /\ p.phase = pitchPage.phase /\ p.shown = pitchPage.shown
           /\ p.teamBookingLoading = pitchPage.teamBookingLoading
           /\ IsFiniteSet(p.calls) /\ Cardinality(p.calls) <= MaxBookings
           /\ c.kind # "request" => PitchSound(p)
<1> DEFINE p == Pitch!Without(pitchPage, c)
<1>1. pitchPage \in Pitch!PitchPage /\ pitchPage.calls \ {c} \in SUBSET Pitch!BookingCall
  BY DEF PitchSound, Pitch!PitchPage
<1>2. /\ p \in Pitch!PitchPage /\ p.calls = pitchPage.calls \ {c} /\ p.selected = pitchPage.selected
      /\ p.mode = pitchPage.mode /\ p.phase = pitchPage.phase /\ p.shown = pitchPage.shown
      /\ p.teamBookingLoading = pitchPage.teamBookingLoading
  BY <1>1 DEF Pitch!Without, Pitch!PitchPage
<1> HIDE DEF p
<1>3. IsFiniteSet(p.calls) /\ Cardinality(p.calls) <= MaxBookings
  <2>1. IsFiniteSet(pitchPage.calls) /\ Cardinality(pitchPage.calls) <= MaxBookings
    BY DEF PitchSound
  <2>2. IsFiniteSet(pitchPage.calls \ {c}) /\ Cardinality(pitchPage.calls \ {c}) <= MaxBookings
    BY <2>1, PitchCallsLeft
  <2> QED
    BY <1>2, <2>2
<1>4. c.kind # "request" => PitchSound(p)
  BY <1>2, <1>3 DEF PitchSound
<1> QED
  BY <1>2, <1>3, <1>4 DEF p

LEMMA PitchServeInv ==
    ASSUME PitchInv, NEW c \in pitchPage.calls, Pitch!ServeBooking(c)
    PROVE  PitchInv'
<1> DEFINE d == [c EXCEPT !.made = TRUE]
           calls == (pitchPage.calls \ {c}) \union {d}
<1>1. pitchPage \in Pitch!PitchPage /\ c \in Pitch!BookingCall /\ PitchSound(pitchPage)
        /\ pitchPage.calls \in SUBSET Pitch!BookingCall
  BY DEF PitchInv, PitchSound, Pitch!PitchPage
<1>2. d \in Pitch!BookingCall /\ d.kind = c.kind
  BY <1>1 DEF Pitch!BookingCall
<1>3. IsFiniteSet(calls) /\ Cardinality(calls) <= MaxBookings
  BY <1>1, PitchCallsLeft DEF PitchSound
<1>4. pitchPage' = [pitchPage EXCEPT !.calls = calls] /\ UNCHANGED <<isManager, ownsTeam>>
        /\ free' \subseteq free
  BY <1>1 DEF Pitch!ServeBooking, Pitch!PitchPage
<1> HIDE DEF d
<1>5. calls \in SUBSET Pitch!BookingCall
        /\ ((\E e \in pitchPage.calls : e.kind = "request") => \E e \in calls : e.kind = "request")
  BY <1>1, <1>2
<1> HIDE DEF calls
<1>6. /\ pitchPage' \in Pitch!PitchPage /\ pitchPage'.calls = calls
           /\ pitchPage'.selected = pitchPage.selected
      /\ pitchPage'.mode = pitchPage.mode /\ pitchPage'.phase = pitchPage.phase
           /\ pitchPage'.shown = pitchPage.shown
      /\ pitchPage'.teamBookingLoading = pitchPage.teamBookingLoading
  BY <1>1, <1>4, <1>5 DEF Pitch!PitchPage
<1> QED
  BY <1>3, <1>4, <1>5, <1>6 DEF PitchInv, PitchSound

LEMMA PitchAnswerInv ==
    ASSUME PitchInv, NEW c \in pitchPage.calls,
           Pitch!CashArrives(c) \/ Pitch!ReloadArrives(c) \/ Pitch!HoldArrives(c) \/ Pitch!RequestArrives(c)
             \/ Pitch!CallFails(c)
    PROVE  PitchInv'
<1> DEFINE p == Pitch!Without(pitchPage, c)
<1>1. /\ pitchPage \in Pitch!PitchPage /\ c \in Pitch!BookingCall /\ PitchSound(pitchPage)
           /\ "closed" \in Pitch!BookingStep
      /\ pitchPage.calls \in SUBSET Pitch!BookingCall /\ free \subseteq Pitch!Slot
  BY DEF PitchInv, PitchSound, Pitch!PitchPage, Pitch!BookingStep
<1>2. /\ p \in Pitch!PitchPage /\ p.calls = pitchPage.calls \ {c} /\ p.selected = pitchPage.selected
      /\ p.mode = pitchPage.mode /\ p.phase = pitchPage.phase /\ p.shown = pitchPage.shown
      /\ p.teamBookingLoading = pitchPage.teamBookingLoading
      /\ IsFiniteSet(p.calls) /\ Cardinality(p.calls) <= MaxBookings
      /\ c.kind # "request" => PitchSound(p)
  BY <1>1, PitchWithoutIs
<1>3. CASE Pitch!CashArrives(c)
  <2> DEFINE d == [c EXCEPT !.kind = "reload"]
             calls == p.calls \union {d}
             q == [p EXCEPT !.calls = calls]
  <2>1. d \in Pitch!BookingCall
    BY <1>1 DEF Pitch!BookingCall
  <2>2. IsFiniteSet(calls) /\ Cardinality(calls) <= MaxBookings
    BY <1>1, <1>2, PitchCallsLeft DEF PitchSound
  <2>3. Pitch!OnPitch(q)
    BY <1>2, <1>3 DEF Pitch!CashArrives, Pitch!PitchPage
  <2>4. calls \in SUBSET Pitch!BookingCall /\ PitchSound(p)
    BY <1>1, <1>2, <1>3, <2>1 DEF Pitch!CashArrives
  <2>5. p.calls \subseteq calls
    OBVIOUS
  <2> HIDE DEF d, calls, p
  <2>6. /\ q \in Pitch!PitchPage /\ q.calls = calls /\ q.selected = p.selected /\ q.mode = p.mode
             /\ q.phase = p.phase
        /\ q.shown = p.shown /\ q.teamBookingLoading = p.teamBookingLoading
    BY <1>2, <2>4 DEF Pitch!PitchPage
  <2> HIDE DEF q
  <2>7. PitchSound(q)
    BY <2>2, <2>4, <2>5, <2>6 DEF PitchSound
  <2> QED
    BY <2>3, <2>7, PitchSoundInv
<1>4. CASE Pitch!ReloadArrives(c)
  <2> DEFINE q == [p EXCEPT !.shown = free, !.selected = {}]
  <2>1. Pitch!OnPitch(q) /\ PitchSound(p)
    BY <1>2, <1>4 DEF Pitch!ReloadArrives
  <2> HIDE DEF p
  <2>2. /\ q \in Pitch!PitchPage /\ q.calls = p.calls /\ q.selected = {} /\ q.mode = p.mode
             /\ q.phase = p.phase
        /\ q.teamBookingLoading = p.teamBookingLoading
    BY <1>1, <1>2 DEF Pitch!PitchPage
  <2> HIDE DEF q
  <2>3. PitchSound(q)
    BY <2>1, <2>2 DEF PitchSound
  <2> QED
    BY <2>1, <2>3, PitchSoundInv
<1>5. CASE Pitch!HoldArrives(c)
  <2>1. Pitch!OnPitch([Pitch!ToStep(p, "closed") EXCEPT !.selected = {}]) /\ PitchSound(p)
    BY <1>2, <1>5 DEF Pitch!HoldArrives
  <2>2. PitchSound(Pitch!ToStep(p, "closed"))
    BY <1>1, <2>1, PitchStepIs
  <2> QED
    BY <2>1, <2>2, PitchForgets, PitchSoundInv, ZenonT(60)
<1>6. ASSUME NEW q, Pitch!OnPitch(q), q \in Pitch!PitchPage, q.calls = p.calls,
             q.selected \subseteq p.selected, q.mode = p.mode, q.phase = p.phase,
             q.shown = p.shown, ~q.teamBookingLoading
      PROVE  PitchInv'
  <2> HIDE DEF p
  <2>1. PitchSound(q)
    BY <1>1, <1>2, <1>6 DEF PitchSound
  <2> QED
    BY <1>6, <2>1, PitchSoundInv
<1>7. CASE Pitch!RequestArrives(c)
  <2> DEFINE choice == IF "closed" = p.step THEN p.pendingChoice ELSE "none"
             failed == p.holdFailed /\ "closed" = p.step
             q == [p EXCEPT !.step = "closed", !.pendingChoice = choice, !.holdFailed = failed,
                            !.team = FALSE, !.selected = {}, !.teamBookingLoading = FALSE]
  <2>1. choice \in Pitch!Choice /\ failed \in BOOLEAN
    BY <1>2 DEF Pitch!PitchPage, Pitch!Choice
  <2>2. [Pitch!Closed(p) EXCEPT !.selected = {}, !.teamBookingLoading = FALSE] = q
    BY <1>2 DEF Pitch!Closed, Pitch!ToStep, Pitch!PitchPage
  <2>3. Pitch!OnPitch(q)
    BY <1>7, <2>2 DEF Pitch!RequestArrives
  <2> HIDE DEF p, choice, failed
  <2>4. /\ q \in Pitch!PitchPage /\ q.calls = p.calls /\ q.selected = {} /\ q.mode = p.mode
             /\ q.phase = p.phase
        /\ q.shown = p.shown /\ q.teamBookingLoading = FALSE
    BY <1>1, <1>2, <2>1 DEF Pitch!PitchPage
  <2> HIDE DEF q
  <2> QED
    BY <1>6, <2>3, <2>4
<1>8. CASE Pitch!CallFails(c)
  <2> DEFINE waits == p.teamBookingLoading /\ c.kind # "request"
             failed == p.holdFailed \/ (c.kind = "hold" /\ pitchPage.pendingChoice = "individual")
             q == [p EXCEPT !.teamBookingLoading = waits, !.holdFailed = failed]
  <2>1. waits \in BOOLEAN /\ failed \in BOOLEAN
          /\ (c.kind = "request" => ~waits) /\ (c.kind # "request" => waits = p.teamBookingLoading)
    BY <1>2 DEF Pitch!PitchPage
  <2>2. Pitch!OnPitch(q)
    BY <1>8, Zenon DEF Pitch!CallFails
  <2> HIDE DEF p, waits, failed
  <2>3. /\ q \in Pitch!PitchPage /\ q.calls = p.calls /\ q.selected = p.selected /\ q.mode = p.mode
             /\ q.phase = p.phase
        /\ q.shown = p.shown /\ q.teamBookingLoading = waits
    BY <1>2, <2>1 DEF Pitch!PitchPage
  <2> HIDE DEF q
  <2>4. CASE c.kind = "request"
    BY <1>6, <2>1, <2>2, <2>3, <2>4
  <2>5. CASE c.kind # "request"
    <3>1. PitchSound(q)
      BY <1>2, <2>1, <2>3, <2>5 DEF PitchSound
    <3> QED
      BY <2>2, <3>1, PitchSoundInv
  <2> QED
    BY <2>4, <2>5
<1> QED
  BY <1>3, <1>4, <1>5, <1>7, <1>8

LEMMA PitchStep == ASSUME PitchInv, [Pitch!PitchNext]_Pitch!pitchVars PROVE PitchInv'
<1>1. CASE UNCHANGED Pitch!pitchVars
  BY <1>1 DEF Pitch!pitchVars, PitchInv, PitchSound
<1>2. CASE \E s \in Pitch!Slot : Pitch!OthersBook(s)
  BY <1>2 DEF Pitch!OthersBook, PitchInv, PitchSound
<1>3. CASE \E c \in pitchPage.calls : Pitch!ServeBooking(c)
  BY <1>3, PitchServeInv
<1>4. CASE \E kind \in {"cash", "reload", "hold", "request"} : Pitch!BookingAnswer(kind)
  BY <1>4, PitchAnswerInv DEF Pitch!BookingAnswer
<1>5. CASE Pitch!TeamsArrive \/ Pitch!PitchArrives
  BY <1>5, PitchLoadsInv
<1>6. CASE Pitch!HandleBookClick
  BY <1>6, PitchBookInv
<1>7. CASE \/ \E mode \in Pitch!Mode : Pitch!SetMode(mode)
           \/ \E week \in 1..Weeks : Pitch!TurnWeek(week)
           \/ \E s \in Pitch!Slot : Pitch!ToggleSlot(s)
           \/ Pitch!ClearSelection \/ Pitch!ApplyWeek1ToAllWeeks
  BY <1>7, PitchSelectInv
<1>8. CASE \/ Pitch!ChooseTeamBooking \/ Pitch!SelectTeamForBooking \/ Pitch!ProceedToTeamConfirm
           \/ Pitch!BackToChoiceStep \/ Pitch!BackToTeamSelectStep \/ Pitch!CloseBookingModal
  BY <1>8, PitchDialogInv
<1>9. CASE Pitch!ChooseIndividualBooking \/ Pitch!HandleConfirmTeamBooking
  BY <1>9, PitchSendInv
<1> QED
  BY <1>1, <1>2, <1>3, <1>4, <1>5, <1>6, <1>7, <1>8, <1>9 DEF Pitch!PitchNext

\* An option spins only in the dialog's first step, and has its hold.
ChoiceSound ==
    /\ pitchPage.pendingChoice # "none" =>
         pitchPage.pendingChoice = "individual" /\ pitchPage.step = "choice"
    /\ Pitch!ChoiceHasHold

LEMMA ChoiceInitInv == Pitch!PitchInit => ChoiceSound
BY DEF Pitch!PitchInit, ChoiceSound, Pitch!ChoiceHasHold

\* A page on which the dialog is where it was and no hold has ended.
LEMMA SameChoice ==
    ASSUME ChoiceSound, pitchPage'.pendingChoice = pitchPage.pendingChoice,
           pitchPage.pendingChoice # "none" => pitchPage'.step = pitchPage.step,
           pitchPage.holdFailed => pitchPage'.holdFailed,
           Pitch!HoldUnderWay => Pitch!HoldUnderWay' \/ pitchPage'.holdFailed
             \/ pitchPage.pendingChoice = "none"
    PROVE  ChoiceSound'
BY DEF ChoiceSound, Pitch!ChoiceHasHold

\* A page on which no option spins.
LEMMA NoChoice == ASSUME pitchPage'.pendingChoice = "none" PROVE ChoiceSound'
BY DEF ChoiceSound, Pitch!ChoiceHasHold

\* Changing the step stops the spinner.
LEMMA StepStopsChoice ==
    ASSUME NEW p \in Pitch!PitchPage, NEW step \in Pitch!BookingStep,
           p.pendingChoice # "none" => p.step # step
    PROVE  Pitch!ToStep(p, step).pendingChoice = "none" /\ Pitch!ToStep(p, step) \in Pitch!PitchPage
BY DEF Pitch!ToStep, Pitch!PitchPage, Pitch!Choice

LEMMA ChoicePageInv ==
    ASSUME PitchInv, ChoiceSound,
           \/ Pitch!TeamsArrive \/ Pitch!PitchArrives
           \/ \E mode \in Pitch!Mode : Pitch!SetMode(mode)
           \/ \E week \in 1..Weeks : Pitch!TurnWeek(week)
           \/ \E s \in Pitch!Slot : Pitch!ToggleSlot(s) \/ Pitch!OthersBook(s)
           \/ Pitch!ClearSelection \/ Pitch!ApplyWeek1ToAllWeeks \/ Pitch!SelectTeamForBooking
    PROVE  ChoiceSound'
<1>1. pitchPage \in Pitch!PitchPage
  BY DEF PitchInv, PitchSound
<1> DEFINE Same == /\ pitchPage'.pendingChoice = pitchPage.pendingChoice /\ pitchPage'.step = pitchPage.step
                   /\ pitchPage'.holdFailed = pitchPage.holdFailed /\ pitchPage'.calls = pitchPage.calls
<1>2. CASE Pitch!TeamsArrive \/ Pitch!PitchArrives
  <2>1. Same
    BY <1>1, <1>2 DEF Pitch!TeamsArrive, Pitch!PitchArrives, Pitch!OnPitch, Pitch!PitchPage
  <2> QED
    BY <2>1, SameChoice DEF Pitch!HoldUnderWay
<1>3. ASSUME NEW mode \in Pitch!Mode, Pitch!SetMode(mode) PROVE ChoiceSound'
  <2> DEFINE week == IF mode = "monthly" THEN pitchPage.week ELSE 1
  <2>1. pitchPage' = [pitchPage EXCEPT !.mode = mode, !.selected = {}, !.week = week]
    BY <1>3, ZenonT(60) DEF Pitch!SetMode, Pitch!OnPitch
  <2> HIDE DEF week
  <2>2. Same
    BY <1>1, <2>1 DEF Pitch!PitchPage
  <2> QED
    BY <2>2, SameChoice DEF Pitch!HoldUnderWay
<1>6. ASSUME NEW week \in 1..Weeks, Pitch!TurnWeek(week) PROVE ChoiceSound'
  <2>1. Same
    BY <1>1, <1>6 DEF Pitch!TurnWeek, Pitch!OnPitch, Pitch!PitchPage
  <2> QED
    BY <2>1, SameChoice DEF Pitch!HoldUnderWay
<1>4. CASE \E s \in Pitch!Slot : Pitch!ToggleSlot(s) \/ Pitch!OthersBook(s)
  <2>1. Same
    BY <1>1, <1>4 DEF Pitch!ToggleSlot, Pitch!OthersBook, Pitch!OnPitch, Pitch!PitchPage
  <2> QED
    BY <2>1, SameChoice DEF Pitch!HoldUnderWay
<1>5. CASE Pitch!ClearSelection \/ Pitch!ApplyWeek1ToAllWeeks \/ Pitch!SelectTeamForBooking
  <2>1. Same
    BY <1>1, <1>5 DEF Pitch!ClearSelection, Pitch!ApplyWeek1ToAllWeeks, Pitch!SelectTeamForBooking,
       Pitch!OnPitch, Pitch!PitchPage
  <2> QED
    BY <2>1, SameChoice DEF Pitch!HoldUnderWay
<1> QED
  BY <1>2, <1>3, <1>4, <1>5, <1>6

LEMMA ChoiceBookInv ==
    ASSUME PitchInv, ChoiceSound, Pitch!HandleBookClick \/ Pitch!HandleConfirmTeamBooking
    PROVE  ChoiceSound'
<1>1. pitchPage \in Pitch!PitchPage /\ pitchPage.pendingChoice = "none"
  BY DEF PitchInv, PitchSound, ChoiceSound, Pitch!HandleBookClick, Pitch!HandleConfirmTeamBooking
<1>2. pitchPage'.pendingChoice = "none"
  BY <1>1 DEF Pitch!HandleBookClick, Pitch!HandleConfirmTeamBooking, Pitch!OnPitch, Pitch!WithCall,
     Pitch!PitchPage
<1> QED
  BY <1>2, NoChoice

LEMMA ChoiceDialogInv ==
    ASSUME PitchInv, ChoiceSound,
           \/ Pitch!ChooseTeamBooking \/ Pitch!ProceedToTeamConfirm
           \/ Pitch!BackToChoiceStep \/ Pitch!BackToTeamSelectStep \/ Pitch!CloseBookingModal
    PROVE  ChoiceSound'
<1>1. pitchPage \in Pitch!PitchPage
  BY DEF PitchInv, PitchSound
<1>2. \A step \in Pitch!BookingStep : pitchPage.pendingChoice = "none" \/ step # "choice"
        => /\ Pitch!ToStep(pitchPage, step).pendingChoice = "none"
           /\ Pitch!ToStep(pitchPage, step) \in Pitch!PitchPage
  BY <1>1, StepStopsChoice DEF ChoiceSound
<1>3. \A step \in {"closed", "choice", "team-select", "team-confirm"} : step \in Pitch!BookingStep
  BY DEF Pitch!BookingStep
<1>4. \A p \in Pitch!PitchPage : p.pendingChoice = "none" => [p EXCEPT !.team = FALSE].pendingChoice = "none"
  BY DEF Pitch!PitchPage
<1>5. CASE Pitch!ChooseTeamBooking \/ Pitch!ProceedToTeamConfirm \/ Pitch!BackToTeamSelectStep
  BY <1>2, <1>3, <1>5, NoChoice DEF Pitch!ChooseTeamBooking, Pitch!ProceedToTeamConfirm,
     Pitch!BackToTeamSelectStep, Pitch!OnPitch
<1>6. CASE Pitch!BackToChoiceStep
  <2>1. pitchPage.pendingChoice = "none"
    BY <1>6 DEF Pitch!BackToChoiceStep, ChoiceSound
  <2> QED
    BY <1>2, <1>3, <1>4, <1>6, <2>1, NoChoice DEF Pitch!BackToChoiceStep, Pitch!OnPitch
<1>7. CASE Pitch!CloseBookingModal
  BY <1>2, <1>3, <1>4, <1>7, NoChoice DEF Pitch!CloseBookingModal, Pitch!Closed, Pitch!OnPitch
<1> QED
  BY <1>5, <1>6, <1>7

LEMMA ChooseInv == ASSUME PitchInv, ChoiceSound, Pitch!ChooseIndividualBooking PROVE ChoiceSound'
<1> DEFINE p == Pitch!WithCall(pitchPage, "hold")
<1>1. p \in Pitch!PitchPage /\ p.step = "choice" /\ \E c \in p.calls : c.kind = "hold"
  BY PitchCallIs DEF Pitch!ChooseIndividualBooking, PitchSound
<1>2. pitchPage' = [p EXCEPT !.pendingChoice = "individual"]
  BY DEF Pitch!ChooseIndividualBooking, Pitch!OnPitch
<1> HIDE DEF p
<1>3. pitchPage'.pendingChoice = "individual" /\ pitchPage'.step = p.step /\ pitchPage'.calls = p.calls
  BY <1>1, <1>2 DEF Pitch!PitchPage
<1> QED
  BY <1>1, <1>3 DEF ChoiceSound, Pitch!ChoiceHasHold, Pitch!HoldUnderWay

\* The hold behind the spinner is made, answered, or told to have failed.
LEMMA ChoiceAnswerInv ==
    ASSUME PitchInv, ChoiceSound, NEW c \in pitchPage.calls,
           Pitch!ServeBooking(c) \/ Pitch!CashArrives(c) \/ Pitch!ReloadArrives(c) \/ Pitch!HoldArrives(c)
             \/ Pitch!RequestArrives(c) \/ Pitch!CallFails(c)
    PROVE  ChoiceSound'
<1> DEFINE p == Pitch!Without(pitchPage, c)
<1>1. pitchPage \in Pitch!PitchPage /\ c \in Pitch!BookingCall
  BY DEF PitchInv, PitchSound, Pitch!PitchPage
<1>2. /\ p \in Pitch!PitchPage /\ p.calls = pitchPage.calls \ {c} /\ p.step = pitchPage.step
      /\ p.pendingChoice = pitchPage.pendingChoice /\ p.holdFailed = pitchPage.holdFailed
  BY <1>1 DEF Pitch!Without, Pitch!PitchPage
<1>3. CASE Pitch!ServeBooking(c)
  <2> DEFINE d == [c EXCEPT !.made = TRUE]
  <2>1. d.kind = c.kind
    BY <1>1 DEF Pitch!BookingCall
  <2>2. /\ pitchPage'.pendingChoice = pitchPage.pendingChoice /\ pitchPage'.step = pitchPage.step
        /\ pitchPage'.holdFailed = pitchPage.holdFailed
        /\ pitchPage'.calls = (pitchPage.calls \ {c}) \union {d}
    BY <1>1, <1>3 DEF Pitch!ServeBooking, Pitch!PitchPage
  <2> HIDE DEF d
  <2>3. Pitch!HoldUnderWay => Pitch!HoldUnderWay'
    BY <2>1, <2>2 DEF Pitch!HoldUnderWay
  <2> QED
    BY <2>2, <2>3, SameChoice
<1>4. ASSUME Pitch!CashArrives(c) \/ Pitch!ReloadArrives(c) PROVE ChoiceSound'
  <2>1. /\ pitchPage'.pendingChoice = p.pendingChoice /\ pitchPage'.step = p.step
        /\ pitchPage'.holdFailed = p.holdFailed /\ p.calls \subseteq pitchPage'.calls
        /\ c.kind # "hold"
    BY <1>2, <1>4 DEF Pitch!CashArrives, Pitch!ReloadArrives, Pitch!OnPitch, Pitch!PitchPage
  <2>2. Pitch!HoldUnderWay => Pitch!HoldUnderWay'
    BY <1>2, <2>1 DEF Pitch!HoldUnderWay
  <2> QED
    BY <1>2, <2>1, <2>2, SameChoice
<1>5. CASE Pitch!HoldArrives(c) \/ Pitch!RequestArrives(c)
  <2>1. "closed" \in Pitch!BookingStep /\ (p.pendingChoice # "none" => p.step # "closed")
    BY <1>2 DEF Pitch!BookingStep, ChoiceSound
  <2>2. Pitch!ToStep(p, "closed").pendingChoice = "none" /\ Pitch!ToStep(p, "closed") \in Pitch!PitchPage
    BY <1>2, <2>1, StepStopsChoice
  <2> HIDE DEF p
  <2> DEFINE q == Pitch!ToStep(p, "closed")
  <2>3. /\ [q EXCEPT !.selected = {}].pendingChoice = q.pendingChoice
        /\ [[q EXCEPT !.team = FALSE] EXCEPT !.selected = {}, !.teamBookingLoading = FALSE].pendingChoice
              = q.pendingChoice
    BY <2>2 DEF Pitch!PitchPage
  <2>4. pitchPage'.pendingChoice = "none"
    BY <1>5, <2>2, <2>3 DEF Pitch!HoldArrives, Pitch!RequestArrives, Pitch!Closed, Pitch!OnPitch, p
  <2> QED
    BY <2>4, NoChoice
<1>6. CASE Pitch!CallFails(c)
  <2>1. /\ pitchPage'.pendingChoice = p.pendingChoice /\ pitchPage'.step = p.step
        /\ p.holdFailed => pitchPage'.holdFailed
        /\ c.kind = "hold" /\ pitchPage.pendingChoice = "individual" => pitchPage'.holdFailed
        /\ pitchPage'.calls = p.calls
    BY <1>2, <1>6 DEF Pitch!CallFails, Pitch!OnPitch, Pitch!PitchPage
  <2>2. Pitch!HoldUnderWay => Pitch!HoldUnderWay' \/ c.kind = "hold"
    BY <1>2, <2>1 DEF Pitch!HoldUnderWay
  <2> QED
    BY <1>2, <2>1, <2>2, SameChoice DEF ChoiceSound
<1> QED
  BY <1>3, <1>4, <1>5, <1>6

LEMMA ChoiceStep == ASSUME PitchInv, ChoiceSound, [Pitch!PitchNext]_Pitch!pitchVars PROVE ChoiceSound'
<1>1. CASE UNCHANGED Pitch!pitchVars
  BY <1>1 DEF Pitch!pitchVars, ChoiceSound, Pitch!ChoiceHasHold, Pitch!HoldUnderWay
<1>2. CASE Pitch!PitchNext
  BY <1>2, ChoicePageInv, ChoiceBookInv, ChoiceDialogInv, ChooseInv, ChoiceAnswerInv
     DEF Pitch!PitchNext, Pitch!BookingAnswer
<1> QED
  BY <1>1, <1>2

(***************************************************************************)
(* The popup a player pays in (PaymentPopup).                              *)
(***************************************************************************)

LEMMA PayCardinality == \A S : Pay!Cardinality(S) = Cardinality(S)
BY DEF Pay!Cardinality, Cardinality

\* Who waits waits for something, or the popup's exceptions apply.
HasCause(p) ==
    /\ p.open /\ p.step = "loading" => p.info \in {"asked", "failed"}
    /\ p.step = "submitting" => p.submits # {} \/ (p.paid /\ ~p.closes)
    /\ p.step = "polling" => p.current \in p.timers \/ (p.paid /\ ~p.closes)

Excused(p) == p.late \/ p.reopened

\* Nothing is waited for.
Quiet(p) == p.submits = {} /\ p.timers = {}

\* The popup is in one thing at a time: one submission, or one interval, that of
\* pollTimer; and in none of them where the form is, or where "retry" leads to it.
InOneThing(p) ==
    ~Excused(p) =>
        /\ \A t, u \in p.submits : t = u
        /\ p.submits # {} => p.timers = {}
        /\ p.timers \subseteq {p.current}
        /\ p.open /\ p.step \in {"form", "rejected", "timeout"} => Quiet(p)

WaitsFor(p) == (~p.open => p.step = "loading") /\ HasCause(p) /\ InOneThing(p)

PayInv == Pay!PayTypeOK /\ WaitsFor(payPopup)

LEMMA PayInvImplies == ASSUME PayInv PROVE Pay!PayTypeOK /\ Pay!OneIntervalUnlessLate /\ Pay!WaitHasCause
<1>1. Pay!PayTypeOK /\ WaitsFor(payPopup)
  BY DEF PayInv
<1>2. Pay!OneIntervalUnlessLate
  <2> SUFFICES ASSUME ~Excused(payPopup) PROVE ~(Cardinality(payPopup.timers) > 1)
    BY PayCardinality DEF Pay!OneIntervalUnlessLate, Excused
  <2>1. payPopup.timers = {} \/ payPopup.timers = {payPopup.current}
    BY <1>1 DEF WaitsFor, InOneThing
  <2>2. Cardinality(payPopup.timers) \in {0, 1}
    BY <2>1, PayCardinality, FS_EmptySet, FS_Singleton
  <2> QED
    BY <2>2
<1>3. Pay!WaitHasCause
  BY <1>1 DEF Pay!WaitHasCause, WaitsFor, HasCause
<1> QED
  BY <1>1, <1>2, <1>3

LEMMA PayOnInv ==
    ASSUME PayInv, NEW p \in Pay!Popup, WaitsFor(p), Pay!OnPay(p)
    PROVE  PayInv'
BY DEF PayInv, Pay!PayTypeOK, Pay!OnPay, WaitsFor, HasCause, InOneThing, Excused, Quiet

\* What a handler changes that is neither the step nor what is waited for.
LEMMA PayFormInv ==
    ASSUME PayInv, NEW p \in Pay!Popup, Pay!OnPay(p),
           p.open = payPopup.open, p.step = payPopup.step, p.closes = payPopup.closes, p.info = payPopup.info,
           p.submits = payPopup.submits, p.timers = payPopup.timers, p.current = payPopup.current,
           p.paid = payPopup.paid, p.late = payPopup.late, p.reopened = payPopup.reopened
    PROVE  PayInv'
<1>1. WaitsFor(p)
  BY DEF PayInv, WaitsFor, HasCause, InOneThing, Excused, Quiet
<1> QED
  BY <1>1, PayOnInv

LEMMA PayFreshIs ==
    ASSUME NEW closes \in BOOLEAN
    PROVE  Pay!FreshPopup(closes) \in Pay!Popup /\ WaitsFor(Pay!FreshPopup(closes))
<1> DEFINE p == Pay!FreshPopup(closes)
<1>1. /\ p \in Pay!Popup /\ p.open /\ p.step = "loading" /\ p.info = "asked"
      /\ p.submits = {} /\ p.timers = {}
  BY PayAssumption DEF Pay!FreshPopup, Pay!Popup, Pay!Step
<1> HIDE DEF p
<1>2. WaitsFor(p)
  BY <1>1 DEF WaitsFor, HasCause, InOneThing, Quiet
<1> QED
  BY <1>1, <1>2 DEF p

\* The popup that is taken away leaves what it was in.
LEMMA PayUnmountedIs ==
    ASSUME NEW p \in Pay!Popup, InOneThing(p)
    PROVE  Pay!Unmounted(p) \in Pay!Popup /\ ~Pay!Unmounted(p).open /\ WaitsFor(Pay!Unmounted(p))
<1> DEFINE q == Pay!Unmounted(p)
           fresh == Pay!FreshPopup(p.closes)
           timers == p.timers \ {p.current}
<1>1. p.closes \in BOOLEAN /\ timers \in SUBSET Pay!Txn /\ p.submits \in SUBSET Pay!Txn
        /\ p.current \in 0..MaxTxns /\ p.polls \in [Pay!Txn -> 0..MaxPolls]
        /\ p.late \in BOOLEAN /\ p.reopened \in BOOLEAN
  BY DEF Pay!Popup
<1>2. fresh \in Pay!Popup /\ fresh.step = "loading"
  BY <1>1, PayFreshIs DEF Pay!FreshPopup
<1>3. q = [fresh EXCEPT !.open = FALSE, !.info = "here", !.submits = p.submits, !.timers = timers,
                        !.current = p.current, !.polls = p.polls, !.late = p.late,
                        !.reopened = p.reopened]
  BY DEF Pay!Unmounted
<1> HIDE DEF q, fresh, timers
<1>4. /\ q \in Pay!Popup /\ ~q.open /\ q.step = "loading" /\ q.submits = p.submits /\ q.timers = timers
      /\ q.current = p.current /\ q.late = p.late /\ q.reopened = p.reopened
  BY <1>1, <1>2, <1>3 DEF Pay!Popup
<1>5. WaitsFor(q)
  BY <1>4 DEF WaitsFor, HasCause, InOneThing, Excused, Quiet, timers
<1> QED
  BY <1>4, <1>5 DEF q

\* An answer that comes to no popup changes only what it was in.
LEMMA PaySeenIs ==
    ASSUME NEW p \in Pay!Popup, InOneThing(p), p.open => HasCause(p)
    PROVE  Pay!Seen(p) \in Pay!Popup /\ WaitsFor(Pay!Seen(p))
<1>1. CASE p.open
  BY <1>1 DEF Pay!Seen, WaitsFor
<1>2. CASE ~p.open
  <2> DEFINE q == [p EXCEPT !.step = "loading", !.ask = FALSE, !.paid = FALSE]
  <2>1. /\ q \in Pay!Popup /\ ~q.open /\ q.step = "loading" /\ q.submits = p.submits /\ q.timers = p.timers
        /\ q.current = p.current /\ q.late = p.late /\ q.reopened = p.reopened
    BY <1>2 DEF Pay!Popup, Pay!Step
  <2>2. Pay!Seen(p) = q
    BY <1>2 DEF Pay!Seen
  <2> HIDE DEF q
  <2>3. WaitsFor(q)
    BY <2>1 DEF WaitsFor, HasCause, InOneThing, Excused, Quiet
  <2> QED
    BY <2>1, <2>2, <2>3
<1> QED
  BY <1>1, <1>2

LEMMA PayShellInv ==
    ASSUME PayInv, Pay!TakeAway \/ Pay!ChangePayment \/ Pay!InfoFails
    PROVE  PayInv'
<1>1. payPopup \in Pay!Popup /\ WaitsFor(payPopup)
  BY DEF PayInv, Pay!PayTypeOK
<1>2. CASE Pay!TakeAway
  BY <1>1, <1>2, PayUnmountedIs, PayOnInv DEF Pay!TakeAway, WaitsFor
<1>3. ASSUME NEW info \in {"asked", "failed"}, Pay!OnPay([payPopup EXCEPT !.info = info])
      PROVE  PayInv'
  <2> DEFINE p == [payPopup EXCEPT !.info = info]
  <2>1. /\ p \in Pay!Popup /\ p.open = payPopup.open /\ p.step = payPopup.step
        /\ p.closes = payPopup.closes /\ p.info = info
        /\ p.submits = payPopup.submits /\ p.timers = payPopup.timers /\ p.current = payPopup.current
        /\ p.paid = payPopup.paid /\ p.late = payPopup.late /\ p.reopened = payPopup.reopened
    BY <1>1 DEF Pay!Popup
  <2> HIDE DEF p
  <2>2. WaitsFor(p)
    BY <1>1, <2>1 DEF WaitsFor, HasCause, InOneThing, Excused, Quiet
  <2> QED
    BY <1>3, <2>1, <2>2, PayOnInv DEF p
<1> QED
  BY <1>2, <1>3 DEF Pay!ChangePayment, Pay!InfoFails

\* The form opens: over nothing, or it is remembered.
LEMMA PayInfoInv == ASSUME PayInv, Pay!InfoArrives PROVE PayInv'
<1>0. payPopup.open
  BY ZenonT(60) DEF Pay!InfoArrives
<1>1. /\ payPopup \in Pay!Popup /\ WaitsFor(payPopup) /\ payPopup.open
      /\ payPopup.account \in BOOLEAN /\ payPopup.reopened \in BOOLEAN
  BY <1>0 DEF PayInv, Pay!PayTypeOK, Pay!Popup
<1>2. ASSUME NEW step \in {"form", "no_config", "gateway_unavailable"}, NEW acct \in BOOLEAN,
             NEW reopened \in BOOLEAN, payPopup.reopened => reopened,
             step = "form" => reopened \/ Quiet(payPopup),
             Pay!OnPay([payPopup EXCEPT !.info = "here", !.paid = FALSE, !.step = step,
                                        !.account = acct, !.reopened = reopened])
      PROVE  PayInv'
  <2> DEFINE p == [payPopup EXCEPT !.info = "here", !.paid = FALSE, !.step = step,
                                   !.account = acct, !.reopened = reopened]
  <2>0. step \in Pay!Step
    BY DEF Pay!Step
  <2>1. /\ p \in Pay!Popup /\ p.open /\ p.step = step
        /\ p.submits = payPopup.submits /\ p.timers = payPopup.timers /\ p.current = payPopup.current
        /\ p.late = payPopup.late /\ p.reopened = reopened
    BY <1>1, <2>0 DEF Pay!Popup
  <2> HIDE DEF p
  <2>2. WaitsFor(p)
    BY <1>1, <1>2, <2>1 DEF WaitsFor, HasCause, InOneThing, Excused, Quiet
  <2> QED
    BY <1>2, <2>1, <2>2, PayOnInv DEF p
<1>3. CASE \E single \in BOOLEAN :
             Pay!OnPay([[payPopup EXCEPT !.info = "here", !.paid = FALSE] EXCEPT
                 !.step = "form", !.account = @ \/ single,
                 !.reopened = @ \/ payPopup.timers # {} \/ payPopup.submits # {}])
  <2>1. PICK single \in BOOLEAN :
             Pay!OnPay([[payPopup EXCEPT !.info = "here", !.paid = FALSE] EXCEPT
                 !.step = "form", !.account = @ \/ single,
                 !.reopened = @ \/ payPopup.timers # {} \/ payPopup.submits # {}])
    BY <1>3, ZenonT(60)
  <2> DEFINE acct == payPopup.account \/ single
             reopened == payPopup.reopened \/ payPopup.timers # {} \/ payPopup.submits # {}
  <2>2. Pay!OnPay([payPopup EXCEPT !.info = "here", !.paid = FALSE, !.step = "form",
                                   !.account = acct, !.reopened = reopened])
    BY <1>1, <2>1 DEF Pay!Popup
  <2>3. /\ acct \in BOOLEAN /\ reopened \in BOOLEAN /\ (payPopup.reopened => reopened)
        /\ reopened \/ Quiet(payPopup)
    BY <1>1 DEF Quiet
  <2> HIDE DEF acct, reopened
  <2> QED
    BY <1>2, <2>2, <2>3, ZenonT(60)
<1>4. CASE \E step \in {"no_config", "gateway_unavailable"} :
             Pay!OnPay([[payPopup EXCEPT !.info = "here", !.paid = FALSE] EXCEPT !.step = step])
  <2>1. PICK step \in {"no_config", "gateway_unavailable"} :
             Pay!OnPay([[payPopup EXCEPT !.info = "here", !.paid = FALSE] EXCEPT !.step = step])
    BY <1>4, ZenonT(60)
  <2>2. Pay!OnPay([payPopup EXCEPT !.info = "here", !.paid = FALSE, !.step = step,
                                   !.account = payPopup.account, !.reopened = payPopup.reopened])
    BY <1>1, <2>1 DEF Pay!Popup
  <2> QED
    BY <1>1, <1>2, <2>2, ZenonT(60)
<1>5. payPopup.timers = [payPopup EXCEPT !.info = "here", !.paid = FALSE].timers
        /\ payPopup.submits = [payPopup EXCEPT !.info = "here", !.paid = FALSE].submits
  BY <1>1 DEF Pay!Popup
<1> QED
  BY <1>3, <1>4, <1>5, ZenonT(60) DEF Pay!InfoArrives

LEMMA PayRetryInv == ASSUME PayInv, Pay!Retry PROVE PayInv'
<1> DEFINE p == [payPopup EXCEPT !.step = "form"]
<1>1. payPopup \in Pay!Popup /\ WaitsFor(payPopup) /\ payPopup.step \in {"rejected", "timeout"}
  BY DEF PayInv, Pay!PayTypeOK, Pay!Retry
<1>2. /\ p \in Pay!Popup /\ p.open = payPopup.open /\ p.step = "form"
      /\ p.submits = payPopup.submits /\ p.timers = payPopup.timers /\ p.current = payPopup.current
      /\ p.late = payPopup.late /\ p.reopened = payPopup.reopened
  BY <1>1 DEF Pay!Popup, Pay!Step
<1> HIDE DEF p
<1>3. WaitsFor(p)
  BY <1>1, <1>2 DEF WaitsFor, HasCause, InOneThing, Excused, Quiet
<1> QED
  BY <1>2, <1>3, PayOnInv DEF p, Pay!Retry

LEMMA PayFillsInv ==
    ASSUME PayInv,
           \/ Pay!SavedBanksArrive \/ Pay!SelectAccount \/ Pay!TypeReference \/ Pay!TypeAccount
           \/ Pay!ChooseSenderBank \/ Pay!HandleFileSelected \/ Pay!ScanArrives
    PROVE  PayInv'
<1>1. payPopup \in Pay!Popup /\ payPopup.scans \in 0..MaxScans
  BY DEF PayInv, Pay!PayTypeOK, Pay!Popup
<1>2. CASE Pay!SavedBanksArrive
  <2> DEFINE p == [payPopup EXCEPT !.ask = FALSE]
  <2>1. /\ p \in Pay!Popup /\ p.open = payPopup.open /\ p.step = payPopup.step
        /\ p.closes = payPopup.closes /\ p.info = payPopup.info
        /\ p.submits = payPopup.submits /\ p.timers = payPopup.timers /\ p.current = payPopup.current
        /\ p.paid = payPopup.paid /\ p.late = payPopup.late /\ p.reopened = payPopup.reopened
    BY <1>1 DEF Pay!Popup
  <2> QED
    BY <1>2, <2>1, PayFormInv DEF Pay!SavedBanksArrive
<1>3. CASE Pay!SelectAccount
  <2> DEFINE p == [payPopup EXCEPT !.account = TRUE]
  <2>1. /\ p \in Pay!Popup /\ p.open = payPopup.open /\ p.step = payPopup.step
        /\ p.closes = payPopup.closes /\ p.info = payPopup.info
        /\ p.submits = payPopup.submits /\ p.timers = payPopup.timers /\ p.current = payPopup.current
        /\ p.paid = payPopup.paid /\ p.late = payPopup.late /\ p.reopened = payPopup.reopened
    BY <1>1 DEF Pay!Popup
  <2> QED
    BY <1>3, <2>1, PayFormInv DEF Pay!SelectAccount
<1>4. CASE Pay!TypeReference
  <2> DEFINE p == [payPopup EXCEPT !.reference = TRUE]
  <2>1. /\ p \in Pay!Popup /\ p.open = payPopup.open /\ p.step = payPopup.step
        /\ p.closes = payPopup.closes /\ p.info = payPopup.info
        /\ p.submits = payPopup.submits /\ p.timers = payPopup.timers /\ p.current = payPopup.current
        /\ p.paid = payPopup.paid /\ p.late = payPopup.late /\ p.reopened = payPopup.reopened
    BY <1>1 DEF Pay!Popup
  <2> QED
    BY <1>4, <2>1, PayFormInv DEF Pay!TypeReference
<1>5. CASE Pay!TypeAccount
  <2> DEFINE p == [payPopup EXCEPT !.ask = FALSE]
  <2>1. /\ p \in Pay!Popup /\ p.open = payPopup.open /\ p.step = payPopup.step
        /\ p.closes = payPopup.closes /\ p.info = payPopup.info
        /\ p.submits = payPopup.submits /\ p.timers = payPopup.timers /\ p.current = payPopup.current
        /\ p.paid = payPopup.paid /\ p.late = payPopup.late /\ p.reopened = payPopup.reopened
    BY <1>1 DEF Pay!Popup
  <2> QED
    BY <1>5, <2>1, PayFormInv DEF Pay!TypeAccount
<1>6. CASE Pay!ChooseSenderBank
  <2>1. PICK ask \in BOOLEAN : Pay!OnPay([payPopup EXCEPT !.sender = TRUE, !.ask = ask])
    BY <1>6, ZenonT(60) DEF Pay!ChooseSenderBank
  <2> DEFINE p == [payPopup EXCEPT !.sender = TRUE, !.ask = ask]
  <2>2. /\ p \in Pay!Popup /\ p.open = payPopup.open /\ p.step = payPopup.step
        /\ p.closes = payPopup.closes /\ p.info = payPopup.info
        /\ p.submits = payPopup.submits /\ p.timers = payPopup.timers /\ p.current = payPopup.current
        /\ p.paid = payPopup.paid /\ p.late = payPopup.late /\ p.reopened = payPopup.reopened
    BY <1>1 DEF Pay!Popup
  <2> QED
    BY <2>1, <2>2, PayFormInv
<1>7. CASE Pay!HandleFileSelected
  <2> DEFINE scans == payPopup.scans + 1
             p == [payPopup EXCEPT !.file = TRUE, !.scanning = TRUE, !.scans = scans]
  <2>1. scans \in 0..MaxScans /\ Pay!OnPay(p)
    BY <1>1, <1>7, PayAssumption DEF Pay!HandleFileSelected, Pay!Popup
  <2> HIDE DEF scans
  <2>2. /\ p \in Pay!Popup /\ p.open = payPopup.open /\ p.step = payPopup.step
        /\ p.closes = payPopup.closes /\ p.info = payPopup.info
        /\ p.submits = payPopup.submits /\ p.timers = payPopup.timers /\ p.current = payPopup.current
        /\ p.paid = payPopup.paid /\ p.late = payPopup.late /\ p.reopened = payPopup.reopened
    BY <1>1, <2>1 DEF Pay!Popup
  <2> QED
    BY <2>1, <2>2, PayFormInv
<1>8. CASE Pay!ScanArrives
  <2> DEFINE scans == payPopup.scans - 1
  <2>1. PICK reference \in {TRUE, payPopup.reference} :
            Pay!OnPay([payPopup EXCEPT !.scans = @ - 1, !.scanning = FALSE, !.reference = reference])
    BY <1>8 DEF Pay!ScanArrives
  <2>2. reference \in BOOLEAN
    BY <1>1 DEF Pay!Popup
  <2> DEFINE p == [payPopup EXCEPT !.scans = scans, !.scanning = FALSE, !.reference = reference]
  <2>3. scans \in 0..MaxScans /\ Pay!OnPay(p)
    BY <1>1, <1>8, <2>1, PayAssumption DEF Pay!ScanArrives, Pay!Popup
  <2> HIDE DEF scans
  <2>4. /\ p \in Pay!Popup /\ p.open = payPopup.open /\ p.step = payPopup.step
        /\ p.closes = payPopup.closes /\ p.info = payPopup.info
        /\ p.submits = payPopup.submits /\ p.timers = payPopup.timers /\ p.current = payPopup.current
        /\ p.paid = payPopup.paid /\ p.late = payPopup.late /\ p.reopened = payPopup.reopened
    BY <1>1, <2>2, <2>3 DEF Pay!Popup
  <2> QED
    BY <2>3, <2>4, PayFormInv
<1> QED
  BY <1>2, <1>3, <1>4, <1>5, <1>6, <1>7, <1>8

-----------------------------------------------------------------------------
(* Submitting and waiting. *)

LEMMA PayServerInv == ASSUME PayInv, NEW t \in Pay!Txn, Pay!ServeSubmit(t) \/ Pay!Decide(t) PROVE PayInv'
<1>1. txnStatus \in [Pay!Txn -> Pay!TxnStatus] /\ payPopup' = payPopup
  BY DEF PayInv, Pay!PayTypeOK, Pay!ServeSubmit, Pay!Decide
<1>2. \E status \in Pay!TxnStatus : txnStatus' = [txnStatus EXCEPT ![t] = status]
  BY DEF Pay!ServeSubmit, Pay!Decide, Pay!TxnStatus
<1>3. txnStatus' \in [Pay!Txn -> Pay!TxnStatus]
  BY <1>1, <1>2
<1> QED
  BY <1>1, <1>3 DEF PayInv, Pay!PayTypeOK, WaitsFor, HasCause, InOneThing, Excused, Quiet

LEMMA PaySubmitInv == ASSUME PayInv, NEW t \in Pay!Txn, Pay!HandleSubmit(t) PROVE PayInv'
<1> DEFINE submits == payPopup.submits \union {t}
           p == [payPopup EXCEPT !.step = "submitting", !.paid = FALSE, !.submits = submits]
<1>1. payPopup \in Pay!Popup /\ WaitsFor(payPopup) /\ payPopup.submits \in SUBSET Pay!Txn
  BY DEF PayInv, Pay!PayTypeOK, Pay!Popup
<1>2. Pay!OnPay(p) /\ payPopup.step = "form" /\ payPopup.open
  BY <1>1 DEF Pay!HandleSubmit, Pay!UploadShown, Pay!FormOpen, Pay!Popup
<1>3. submits \in SUBSET Pay!Txn /\ submits # {} /\ (payPopup.submits = {} => submits = {t})
  BY <1>1
<1> HIDE DEF submits
<1>4. /\ p \in Pay!Popup /\ p.open /\ p.step = "submitting" /\ p.submits = submits
      /\ p.timers = payPopup.timers /\ p.current = payPopup.current
      /\ p.late = payPopup.late /\ p.reopened = payPopup.reopened
  BY <1>1, <1>2, <1>3 DEF Pay!Popup, Pay!Step
<1> HIDE DEF p
<1>5. WaitsFor(p)
  BY <1>1, <1>2, <1>3, <1>4 DEF WaitsFor, HasCause, InOneThing, Excused, Quiet
<1> QED
  BY <1>2, <1>4, <1>5, PayOnInv

\* What a verdict does to a popup in which nothing else is waited for.
LEMMA PayVerdictIs ==
    ASSUME NEW p \in Pay!Popup, Excused(p) \/ Quiet(p),
           p.open /\ p.step = "loading" => p.info \in {"asked", "failed"},
           NEW q \in Pay!Verdict(p)
    PROVE  q \in Pay!Popup /\ InOneThing(q) /\ (q.open => HasCause(q))
<1>1. ASSUME NEW step \in {"rejected", "needs_review"}, NEW ask \in BOOLEAN,
             q = [p EXCEPT !.step = step, !.ask = ask]
      PROVE  q \in Pay!Popup /\ InOneThing(q) /\ (q.open => HasCause(q))
  <2>1. /\ q \in Pay!Popup /\ q.step = step /\ q.submits = p.submits /\ q.timers = p.timers
        /\ q.late = p.late /\ q.reopened = p.reopened
    BY <1>1 DEF Pay!Popup, Pay!Step
  <2> QED
    BY <2>1 DEF HasCause, InOneThing, Excused, Quiet
<1>2. p.ask \in BOOLEAN
  BY DEF Pay!Popup
<1>3. CASE q = Pay!Paid(p)
  <2>1. CASE p.open /\ p.closes
    <3>1. InOneThing(p)
      BY DEF InOneThing, Excused, Quiet
    <3> QED
      BY <1>3, <2>1, <3>1, PayUnmountedIs DEF Pay!Paid, WaitsFor
  <2>2. CASE ~(p.open /\ p.closes)
    <3>1. q = [p EXCEPT !.paid = TRUE]
      BY <1>3, <2>2 DEF Pay!Paid
    <3>2. /\ q \in Pay!Popup /\ q.open = p.open /\ q.step = p.step /\ q.closes = p.closes
          /\ q.info = p.info /\ q.paid
          /\ q.submits = p.submits /\ q.timers = p.timers
          /\ q.late = p.late /\ q.reopened = p.reopened
      BY <3>1 DEF Pay!Popup
    <3> QED
      BY <2>2, <3>2 DEF HasCause, InOneThing, Excused, Quiet
  <2> QED
    BY <2>1, <2>2
<1>4. CASE q \in Pay!Rejected(p)
  BY <1>1, <1>2, <1>4, ZenonT(60) DEF Pay!Rejected
<1>5. CASE q = [p EXCEPT !.step = "needs_review"]
  <2>1. q = [p EXCEPT !.step = "needs_review", !.ask = p.ask]
    BY <1>5 DEF Pay!Popup
  <2> QED
    BY <1>1, <1>2, <2>1, ZenonT(60)
<1> QED
  BY <1>3, <1>4, <1>5 DEF Pay!Verdict

LEMMA PaySubmitEndsInv ==
    ASSUME PayInv, NEW t \in Pay!Txn, Pay!SubmitArrives(t) \/ Pay!SubmitFails(t)
    PROVE  PayInv'
<1> DEFINE submits == payPopup.submits \ {t}
           p == [payPopup EXCEPT !.submits = submits]
<1>1. /\ payPopup \in Pay!Popup /\ WaitsFor(payPopup) /\ t \in payPopup.submits
      /\ payPopup.submits \in SUBSET Pay!Txn /\ payPopup.timers \in SUBSET Pay!Txn /\ payPopup.ask \in BOOLEAN
  BY DEF PayInv, Pay!PayTypeOK, Pay!Popup, Pay!SubmitArrives, Pay!SubmitFails
<1>2. submits \in SUBSET Pay!Txn /\ (~Excused(payPopup) => submits = {} /\ payPopup.timers = {})
  BY <1>1 DEF WaitsFor, InOneThing
<1> HIDE DEF submits
<1>3. /\ p \in Pay!Popup /\ p.open = payPopup.open /\ p.step = payPopup.step /\ p.info = payPopup.info
      /\ p.submits = submits /\ p.timers = payPopup.timers /\ p.current = payPopup.current
      /\ p.late = payPopup.late /\ p.reopened = payPopup.reopened
  BY <1>1, <1>2 DEF Pay!Popup, Pay!Step
<1>4. Excused(p) \/ Quiet(p)
  BY <1>2, <1>3 DEF Excused, Quiet
<1>5. CASE Pay!SubmitFails(t)
  <2>1. PICK ask \in {TRUE, payPopup.ask} :
           Pay!OnPay(Pay!Seen([payPopup EXCEPT !.submits = submits, !.ask = ask, !.step = "form"]))
    BY <1>1, <1>5 DEF Pay!SubmitFails, Pay!Popup, submits
  <2> DEFINE q == [payPopup EXCEPT !.submits = submits, !.ask = ask, !.step = "form"]
  <2>2. /\ q \in Pay!Popup /\ q.step = "form" /\ q.submits = submits /\ q.timers = payPopup.timers
        /\ q.late = payPopup.late /\ q.reopened = payPopup.reopened
    BY <1>1, <1>2, <2>1 DEF Pay!Popup, Pay!Step
  <2> HIDE DEF q
  <2>3. InOneThing(q) /\ HasCause(q)
    BY <1>2, <2>2 DEF HasCause, InOneThing, Excused, Quiet
  <2> QED
    BY <2>1, <2>2, <2>3, PaySeenIs, PayOnInv DEF q
<1>6. CASE Pay!SubmitArrives(t) /\ txnStatus[t] = "pending"
  <2> DEFINE q == Pay!StartPolling(p, t)
  <2>1. Pay!OnPay(Pay!Seen(q))
    BY <1>6 DEF Pay!SubmitArrives, submits
  <2> HIDE DEF p
  <2>2. t \in 0..MaxTxns /\ p.timers \union {t} \in SUBSET Pay!Txn
    BY <1>1, <1>3, PayAssumption DEF Pay!Txn
  <2>3. /\ q \in Pay!Popup /\ q.step = "polling" /\ q.submits = submits /\ q.timers = p.timers \union {t}
        /\ q.current = t /\ q.late = p.late /\ q.reopened = p.reopened
    BY <1>3, <2>2 DEF Pay!StartPolling, Pay!Popup, Pay!Step
  <2> HIDE DEF q
  <2>4. InOneThing(q) /\ HasCause(q)
    BY <1>3, <1>4, <2>3 DEF HasCause, InOneThing, Excused, Quiet
  <2> QED
    BY <2>1, <2>3, <2>4, PaySeenIs, PayOnInv
<1>7. CASE Pay!SubmitArrives(t) /\ txnStatus[t] # "pending"
  <2>1. PICK q \in Pay!Verdict(p) : Pay!OnPay(Pay!Seen(q))
    BY <1>7 DEF Pay!SubmitArrives, submits
  <2> HIDE DEF p
  <2>2. p.open /\ p.step = "loading" => p.info \in {"asked", "failed"}
    BY <1>1, <1>3 DEF WaitsFor, HasCause
  <2>3. q \in Pay!Popup /\ InOneThing(q) /\ (q.open => HasCause(q))
    BY <1>3, <1>4, <2>2, PayVerdictIs
  <2> QED
    BY <2>1, <2>3, PaySeenIs, PayOnInv
<1> QED
  BY <1>5, <1>6, <1>7

LEMMA PayTickInv == ASSUME PayInv, NEW t \in Pay!Txn, Pay!Tick(t) \/ Pay!PollFails(t) PROVE PayInv'
<1>1. payPopup \in Pay!Popup /\ payPopup.polls \in [Pay!Txn -> 0..MaxPolls]
  BY DEF PayInv, Pay!PayTypeOK, Pay!Popup
<1>2. ASSUME NEW polls \in [Pay!Txn -> 0..MaxPolls], Pay!OnPay([payPopup EXCEPT !.polls = polls])
      PROVE  PayInv'
  <2> DEFINE p == [payPopup EXCEPT !.polls = polls]
  <2>1. /\ p \in Pay!Popup /\ p.open = payPopup.open /\ p.step = payPopup.step
        /\ p.closes = payPopup.closes /\ p.info = payPopup.info
        /\ p.submits = payPopup.submits /\ p.timers = payPopup.timers /\ p.current = payPopup.current
        /\ p.paid = payPopup.paid /\ p.late = payPopup.late /\ p.reopened = payPopup.reopened
    BY <1>1 DEF Pay!Popup
  <2> QED
    BY <1>2, <2>1, PayFormInv
<1>3. CASE Pay!Tick(t)
  <2> DEFINE polls == [payPopup.polls EXCEPT ![t] = @ + 1]
  <2>1. payPopup.polls[t] < MaxPolls /\ Pay!OnPay([payPopup EXCEPT !.polls[t] = @ + 1])
    BY <1>3, Zenon DEF Pay!Tick
  <2>2. polls \in [Pay!Txn -> 0..MaxPolls]
    BY <1>1, <2>1, PayAssumption
  <2>3. Pay!OnPay([payPopup EXCEPT !.polls = polls])
    BY <1>1, <2>1 DEF Pay!Popup
  <2> HIDE DEF polls
  <2> QED
    BY <1>2, <2>2, <2>3
<1>4. CASE Pay!PollFails(t)
  <2> DEFINE polls == [payPopup.polls EXCEPT ![t] = @ - 1]
  <2>1. polls \in [Pay!Txn -> 0..MaxPolls]
    BY <1>1, <1>4, PayAssumption DEF Pay!PollFails
  <2>2. Pay!OnPay([payPopup EXCEPT !.polls = polls])
    BY <1>1, <1>4 DEF Pay!PollFails, Pay!Popup
  <2> HIDE DEF polls
  <2> QED
    BY <1>2, <2>1, <2>2
<1> QED
  BY <1>3, <1>4

\* clearInterval(pollTimer.current!) before a verdict: an answer in time stops its own interval.
LEMMA PayPollInv == ASSUME PayInv, NEW t \in Pay!Txn, Pay!PollArrives(t) PROVE PayInv'
<1> DEFINE polls == [payPopup.polls EXCEPT ![t] = @ - 1]
           late == payPopup.late \/ t \notin payPopup.timers
           p == [payPopup EXCEPT !.polls = polls, !.late = late]
           timers == payPopup.timers \ {payPopup.current}
           s == Pay!Stopped(p)
<1>1. /\ payPopup \in Pay!Popup /\ WaitsFor(payPopup) /\ payPopup.polls \in [Pay!Txn -> 0..MaxPolls]
      /\ payPopup.timers \in SUBSET Pay!Txn /\ payPopup.late \in BOOLEAN
  BY DEF PayInv, Pay!PayTypeOK, Pay!Popup
<1>2. polls \in [Pay!Txn -> 0..MaxPolls] /\ late \in BOOLEAN /\ (~late => ~payPopup.late)
  BY <1>1, PayAssumption DEF Pay!PollArrives
<1>3. p = [payPopup EXCEPT !.polls[t] = @ - 1, !.late = @ \/ t \notin payPopup.timers]
  BY <1>1 DEF Pay!Popup
<1>4. \/ \E q \in Pay!Verdict(s) : Pay!OnPay(Pay!Seen(q))
      \/ Pay!OnPay(Pay!Seen([s EXCEPT !.step = "timeout"]))
      \/ Pay!OnPay(Pay!Seen(p))
  BY <1>3, Zenon DEF Pay!PollArrives
<1>5. ~late /\ ~payPopup.reopened => payPopup.submits = {} /\ timers = {}
  BY <1>1 DEF WaitsFor, InOneThing, Excused
<1> HIDE DEF polls, late
<1>6. /\ p \in Pay!Popup /\ p.open = payPopup.open /\ p.step = payPopup.step /\ p.closes = payPopup.closes
      /\ p.info = payPopup.info /\ p.paid = payPopup.paid
      /\ p.submits = payPopup.submits /\ p.timers = payPopup.timers
      /\ p.current = payPopup.current /\ p.late = late /\ p.reopened = payPopup.reopened
  BY <1>1, <1>2 DEF Pay!Popup
<1> HIDE DEF p
<1>7. WaitsFor(p)
  BY <1>1, <1>2, <1>6 DEF WaitsFor, HasCause, InOneThing, Excused, Quiet
<1>8. timers \in SUBSET Pay!Txn /\ s = [p EXCEPT !.timers = timers]
  BY <1>1, <1>6 DEF Pay!Stopped, Pay!Popup
<1> HIDE DEF timers, s
<1>9. /\ s \in Pay!Popup /\ s.open = p.open /\ s.step = p.step /\ s.info = p.info
      /\ s.submits = p.submits /\ s.timers = timers
      /\ s.late = late /\ s.reopened = p.reopened
  BY <1>6, <1>8 DEF Pay!Popup
<1>10. Excused(s) \/ Quiet(s)
  BY <1>5, <1>6, <1>9 DEF Excused, Quiet
<1>11. CASE \E q \in Pay!Verdict(s) : Pay!OnPay(Pay!Seen(q))
  <2>1. PICK q \in Pay!Verdict(s) : Pay!OnPay(Pay!Seen(q))
    BY <1>11
  <2>2. s.open /\ s.step = "loading" => s.info \in {"asked", "failed"}
    BY <1>7, <1>9 DEF WaitsFor, HasCause
  <2>3. q \in Pay!Popup /\ InOneThing(q) /\ (q.open => HasCause(q))
    BY <1>9, <1>10, <2>2, PayVerdictIs
  <2> QED
    BY <2>1, <2>3, PaySeenIs, PayOnInv
<1>12. CASE Pay!OnPay(Pay!Seen([s EXCEPT !.step = "timeout"]))
  <2> DEFINE q == [s EXCEPT !.step = "timeout"]
  <2>1. /\ q \in Pay!Popup /\ q.step = "timeout" /\ q.submits = s.submits /\ q.timers = s.timers
        /\ q.late = s.late /\ q.reopened = s.reopened
    BY <1>9 DEF Pay!Popup, Pay!Step
  <2> HIDE DEF q
  <2>2. InOneThing(q) /\ HasCause(q)
    BY <1>10, <2>1 DEF HasCause, InOneThing, Excused, Quiet
  <2> QED
    BY <1>12, <2>1, <2>2, PaySeenIs, PayOnInv DEF q
<1>13. CASE Pay!OnPay(Pay!Seen(p))
  BY <1>6, <1>7, <1>13, PaySeenIs, PayOnInv DEF WaitsFor
<1> QED
  BY <1>4, <1>11, <1>12, <1>13

LEMMA PayInitInv == Pay!PayInit => PayInv
<1> SUFFICES ASSUME Pay!PayInit PROVE PayInv
  OBVIOUS
<1>1. txnStatus \in [Pay!Txn -> Pay!TxnStatus]
  BY DEF Pay!PayInit, Pay!TxnStatus
<1> QED
  BY <1>1, PayFreshIs DEF Pay!PayInit, PayInv, Pay!PayTypeOK

LEMMA PayStep == ASSUME PayInv, [Pay!PayNext]_Pay!payVars PROVE PayInv'
<1>1. CASE UNCHANGED Pay!payVars
  BY <1>1 DEF Pay!payVars, PayInv, Pay!PayTypeOK, WaitsFor, HasCause, InOneThing, Excused, Quiet
<1>2. CASE Pay!TakeAway \/ Pay!ChangePayment \/ Pay!InfoArrives \/ Pay!InfoFails \/ Pay!Retry
  BY <1>2, PayShellInv, PayInfoInv, PayRetryInv
<1>3. CASE \/ Pay!SavedBanksArrive \/ Pay!SelectAccount \/ Pay!TypeReference \/ Pay!TypeAccount
           \/ Pay!ChooseSenderBank \/ Pay!HandleFileSelected \/ Pay!ScanArrives
  BY <1>3, PayFillsInv
<1>4. ASSUME NEW t \in Pay!Txn,
             \/ Pay!HandleSubmit(t) \/ Pay!ServeSubmit(t) \/ Pay!Decide(t)
             \/ Pay!SubmitArrives(t) \/ Pay!SubmitFails(t)
             \/ Pay!Tick(t) \/ Pay!PollArrives(t) \/ Pay!PollFails(t)
      PROVE  PayInv'
  BY <1>4, PaySubmitInv, PayServerInv, PaySubmitEndsInv, PayTickInv, PayPollInv
<1> QED
  BY <1>1, <1>2, <1>3, <1>4 DEF Pay!PayNext

(***************************************************************************)
(* The questions of the shell (AppShell).                                  *)
(***************************************************************************)

LEMMA ShellCardinality == \A S : Shell!Cardinality(S) = Cardinality(S)
BY DEF Shell!Cardinality, Cardinality

DueOK == due \in [Shell!Poll -> Shell!Item \union {None}] /\ (\A p \in Shell!Poll : due[p] \in Shell!Due(p))
           /\ dueChanges \in 0..ShellChanges

\* The flags of the shell s are those of its calls.
FlagsOK(s) ==
    /\ \A a, b \in Shell!OwnerCall : a \in s.calls /\ b \in s.calls => a = b
    /\ s.ownerLoading <=> \E kind \in Shell!OwnerCall : kind \in s.calls
    /\ s.completionLoading <=> "completed" \in s.calls
    /\ s.responding => "respond" \in s.calls

\* What is chosen is chosen in a popup that is shown.
ChoiceOK(s) ==
    s.choice # None =>
        /\ Shell!OwnerShown(s)
        /\ s.choice \in Shell!Menu(s.shown.ownerAction.type) \/ s.replaced

ShellInv == DueOK /\ shell \in Shell!Shell /\ FlagsOK(shell) /\ ChoiceOK(shell)

LEMMA ShellInvImplies ==
    ASSUME ShellInv
    PROVE  Shell!ShellTypeOK /\ Shell!OneDecisionUnderWay /\ Shell!ChoiceIsOffered
<1> DEFINE owners == shell.calls \intersect Shell!OwnerCall
<1>1. \A a, b \in owners : a = b
  BY DEF ShellInv, FlagsOK
<1>2. owners = {} \/ \E a \in owners : owners = {a}
  BY <1>1
<1>3. Cardinality(owners) <= 1
  BY <1>2, FS_EmptySet, FS_Singleton
<1> QED
  BY <1>3, ShellCardinality DEF ShellInv, FlagsOK, ChoiceOK, DueOK, Shell!ShellTypeOK,
     Shell!OneDecisionUnderWay, Shell!ChoiceIsOffered

\* A popup that has left the screen leaves no choice behind.
LEMMA RenderedIs ==
    ASSUME NEW s \in Shell!Shell
    PROVE  LET r == Shell!Rendered(s) IN
           /\ r \in Shell!Shell /\ r.calls = s.calls /\ r.ownerLoading = s.ownerLoading
           /\ r.completionLoading = s.completionLoading /\ (r.responding => s.responding)
           /\ r.shown = s.shown /\ r.dismissed = s.dismissed
           /\ r.choice = (IF Shell!OwnerShown(s) THEN s.choice ELSE None)
           /\ Shell!OwnerShown(r) <=> Shell!OwnerShown(s)
           /\ Shell!OwnerShown(s) /\ s.replaced => r.replaced
<1> DEFINE declining == s.declining /\ Shell!ConfirmShown(s)
           responding == s.responding /\ Shell!ConfirmShown(s)
           choice == IF Shell!OwnerShown(s) THEN s.choice ELSE None
           replaced == s.replaced /\ Shell!OwnerShown(s)
<1>1. declining \in BOOLEAN /\ responding \in BOOLEAN /\ replaced \in BOOLEAN
        /\ choice \in Shell!Choice \union {None}
  BY DEF Shell!Shell
<1>2. Shell!Rendered(s) = [s EXCEPT !.declining = declining, !.responding = responding, !.choice = choice,
                              !.replaced = replaced]
  BY DEF Shell!Rendered, Shell!Shell
<1>3. (responding => s.responding) /\ (Shell!OwnerShown(s) /\ s.replaced => replaced)
  OBVIOUS
<1> HIDE DEF declining, responding, replaced
<1>4. LET r == Shell!Rendered(s) IN
           /\ r \in Shell!Shell /\ r.calls = s.calls /\ r.ownerLoading = s.ownerLoading
           /\ r.completionLoading = s.completionLoading /\ r.responding = responding
           /\ r.shown = s.shown /\ r.dismissed = s.dismissed /\ r.choice = choice /\ r.replaced = replaced
  BY <1>1, <1>2 DEF Shell!Shell
<1>5. Shell!OwnerShown(Shell!Rendered(s)) <=> Shell!OwnerShown(s)
  BY <1>4 DEF Shell!OwnerShown
<1> QED
  BY <1>3, <1>4, <1>5

\* Rendering makes up for every change of what is shown, but for a choice that
\* is about another question than the one now shown.
LEMMA RenderedOK ==
    ASSUME NEW s \in Shell!Shell, FlagsOK(s),
           Shell!OwnerShown(s) /\ s.choice # None
             => s.choice \in Shell!Menu(s.shown.ownerAction.type) \/ s.replaced
    PROVE  Shell!Rendered(s) \in Shell!Shell /\ FlagsOK(Shell!Rendered(s)) /\ ChoiceOK(Shell!Rendered(s))
BY RenderedIs DEF FlagsOK, ChoiceOK

LEMMA AskedIs ==
    ASSUME NEW s \in Shell!Shell, NEW p \in Shell!Poll, NEW item \in Shell!Item \union {None}
    PROVE  /\ Shell!Asked(s, p, item) \in Shell!Shell
           /\ FlagsOK(s) => FlagsOK(Shell!Asked(s, p, item))
           /\ ChoiceOK(s) => ChoiceOK(Shell!Asked(s, p, item))
<1> DEFINE answer == [poll |-> p, item |-> item]
           answers == s.answers \union {answer}
<1>1. answers \in SUBSET [poll : Shell!Poll, item : Shell!Item \union {None}]
  BY DEF Shell!Shell
<1>2. Shell!Asked(s, p, item) = [s EXCEPT !.answers = answers]
  BY DEF Shell!Asked, Shell!Shell
<1> HIDE DEF answers
<1>3. LET r == Shell!Asked(s, p, item) IN
           /\ r \in Shell!Shell /\ r.calls = s.calls /\ r.ownerLoading = s.ownerLoading
           /\ r.completionLoading = s.completionLoading /\ r.responding = s.responding
           /\ r.shown = s.shown /\ r.dismissed = s.dismissed /\ r.choice = s.choice /\ r.replaced = s.replaced
  BY <1>1, <1>2 DEF Shell!Shell
<1> QED
  BY <1>3 DEF FlagsOK, ChoiceOK, Shell!OwnerShown

\* The server's side.
LEMMA DueInv ==
    ASSUME ShellInv, NEW p \in Shell!Poll, NEW item \in Shell!Due(p), due' = [due EXCEPT ![p] = item],
           dueChanges' \in 0..ShellChanges
    PROVE  DueOK'
<1>1. item \in Shell!Item \union {None}
  BY DEF Shell!Due
<1> QED
  BY <1>1 DEF ShellInv, DueOK

LEMMA ShellPollsInv ==
    ASSUME ShellInv, NEW p \in Shell!Poll, Shell!DueChanges(p) \/ Shell!Refresh(p)
    PROVE  ShellInv'
<1>1. CASE Shell!DueChanges(p)
  <2>1. dueChanges' \in 0..ShellChanges
    BY <1>1, ShellAssumption DEF Shell!DueChanges, ShellInv, DueOK
  <2>2. DueOK'
    BY <1>1, <2>1, DueInv DEF Shell!DueChanges
  <2> QED
    BY <1>1, <2>2 DEF Shell!DueChanges, ShellInv, FlagsOK, ChoiceOK, Shell!OwnerShown
<1>2. CASE Shell!Refresh(p)
  <2>1. due[p] \in Shell!Item \union {None}
    BY DEF ShellInv, DueOK
  <2>2. shell' = Shell!Asked(shell, p, due[p]) /\ UNCHANGED <<due, dueChanges>>
    BY <1>2 DEF Shell!Refresh, Shell!OnShell
  <2> QED
    BY <2>1, <2>2, AskedIs DEF ShellInv, DueOK
<1> QED
  BY <1>1, <1>2

LEMMA ShellArrivesInv ==
    ASSUME ShellInv, NEW a \in shell.answers, Shell!PollArrives(a) \/ Shell!PollFails(a)
    PROVE  ShellInv'
<1> DEFINE answers == shell.answers \ {a}
           s == [shell EXCEPT !.answers = answers]
<1>1. shell \in Shell!Shell /\ a.poll \in Shell!Poll /\ a.item \in Shell!Item \union {None}
  BY DEF ShellInv, Shell!Shell
<1>2. answers \in SUBSET [poll : Shell!Poll, item : Shell!Item \union {None}]
  BY <1>1 DEF Shell!Shell
<1> HIDE DEF answers
<1>3. /\ s \in Shell!Shell /\ s.calls = shell.calls /\ s.ownerLoading = shell.ownerLoading
      /\ s.completionLoading = shell.completionLoading /\ s.responding = shell.responding
      /\ s.shown = shell.shown /\ s.dismissed = shell.dismissed /\ s.choice = shell.choice
      /\ s.replaced = shell.replaced
  BY <1>1, <1>2 DEF Shell!Shell
<1>4. UNCHANGED <<due, dueChanges>>
  BY DEF Shell!PollArrives, Shell!PollFails, Shell!OnShell
<1>5. CASE Shell!PollFails(a)
  BY <1>3, <1>4, <1>5 DEF Shell!PollFails, Shell!OnShell, ShellInv, DueOK, FlagsOK, ChoiceOK,
     Shell!OwnerShown, answers
<1>6. CASE Shell!PollArrives(a) /\ Shell!PitchLost(a)
  <2> DEFINE calls == s.calls \union {"unavailable"}
  <2>1. shell' = [s EXCEPT !.unavailable = TRUE, !.calls = calls]
    BY <1>3, <1>6 DEF Shell!PollArrives, Shell!OnShell, answers, Shell!Shell
  <2>2. calls \in SUBSET Shell!CallKind
          /\ \A kind \in Shell!OwnerCall \union {"completed", "respond"} : kind \in calls <=> kind \in shell.calls
    BY <1>3 DEF Shell!CallKind, Shell!OwnerCall, Shell!Shell
  <2> HIDE DEF s, calls
  <2>3. /\ shell' \in Shell!Shell /\ shell'.calls = calls /\ shell'.ownerLoading = s.ownerLoading
        /\ shell'.completionLoading = s.completionLoading /\ shell'.responding = s.responding
        /\ shell'.shown = s.shown /\ shell'.dismissed = s.dismissed /\ shell'.choice = s.choice
        /\ shell'.replaced = s.replaced
    BY <1>3, <2>1, <2>2 DEF Shell!Shell
  <2> QED
    BY <1>3, <1>4, <2>2, <2>3 DEF ShellInv, DueOK, FlagsOK, ChoiceOK, Shell!OwnerShown
<1>7. CASE Shell!PollArrives(a) /\ ~Shell!PitchLost(a)
  <2> DEFINE shown == [shell.shown EXCEPT ![a.poll] = a.item]
             replaced == shell.replaced \/ /\ a.poll = "ownerAction" /\ Shell!OwnerShown(shell)
                                           /\ a.item # shell.shown.ownerAction
             next == [s EXCEPT !.shown = shown, !.replaced = replaced]
  <2>1. shell' = Shell!Rendered(next)
    BY <1>3, <1>7 DEF Shell!PollArrives, Shell!OnShell, answers, Shell!Shell
  <2>2. shown \in [Shell!Poll -> Shell!Item \union {None}] /\ replaced \in BOOLEAN
    BY <1>1 DEF Shell!Shell
  <2>3. /\ a.poll # "ownerAction" => shown.ownerAction = shell.shown.ownerAction
        /\ a.poll = "ownerAction"
             => shown.ownerAction = a.item /\ shown.confirmation = shell.shown.confirmation
        /\ shell.replaced => replaced
        /\ a.poll = "ownerAction" /\ Shell!OwnerShown(shell) /\ a.item # shell.shown.ownerAction => replaced
    BY <1>1 DEF Shell!Shell, Shell!Poll
  <2> HIDE DEF s, shown, replaced
  <2>4. /\ next \in Shell!Shell /\ next.calls = s.calls /\ next.ownerLoading = s.ownerLoading
        /\ next.completionLoading = s.completionLoading /\ next.responding = s.responding
        /\ next.shown = shown /\ next.dismissed = s.dismissed /\ next.choice = s.choice
        /\ next.replaced = replaced
    BY <1>3, <2>2 DEF Shell!Shell
  <2>5. FlagsOK(next)
    BY <1>3, <2>4 DEF ShellInv, FlagsOK
  <2>6. Shell!OwnerShown(next) /\ next.choice # None
          => next.choice \in Shell!Menu(next.shown.ownerAction.type) \/ next.replaced
    <3> SUFFICES ASSUME Shell!OwnerShown(next), next.choice # None
                 PROVE  next.choice \in Shell!Menu(next.shown.ownerAction.type) \/ next.replaced
      OBVIOUS
    <3>1. Shell!OwnerShown(shell)
            /\ (shell.choice \in Shell!Menu(shell.shown.ownerAction.type) \/ shell.replaced)
      BY <1>3, <2>4 DEF ShellInv, ChoiceOK
    <3> QED
      BY <1>3, <2>3, <2>4, <3>1
  <2> HIDE DEF next
  <2> QED
    BY <1>4, <2>1, <2>4, <2>5, <2>6, RenderedOK DEF ShellInv, DueOK
<1> QED
  BY <1>5, <1>6, <1>7

\* A dialog or a flag of its own, with a call that is no owner's.
LEMMA ShellConfirmInv ==
    ASSUME ShellInv, Shell!AskDecline \/ Shell!GoBack \/ Shell!Respond \/ Shell!AcknowledgeCompletion
             \/ Shell!CloseUnavailable
    PROVE  ShellInv'
<1>1. shell \in Shell!Shell /\ UNCHANGED <<due, dueChanges>>
  BY DEF ShellInv, Shell!AskDecline, Shell!GoBack, Shell!Respond, Shell!AcknowledgeCompletion,
     Shell!CloseUnavailable, Shell!OnShell
<1>2. CASE Shell!AskDecline \/ Shell!GoBack \/ Shell!CloseUnavailable
  <2>1. /\ shell' \in Shell!Shell /\ shell'.calls = shell.calls /\ shell'.ownerLoading = shell.ownerLoading
        /\ shell'.completionLoading = shell.completionLoading /\ shell'.responding = shell.responding
        /\ shell'.shown = shell.shown /\ shell'.dismissed = shell.dismissed /\ shell'.choice = shell.choice
        /\ shell'.replaced = shell.replaced
    BY <1>1, <1>2 DEF Shell!AskDecline, Shell!GoBack, Shell!CloseUnavailable, Shell!OnShell, Shell!Shell
  <2> QED
    BY <1>1, <2>1 DEF ShellInv, DueOK, FlagsOK, ChoiceOK, Shell!OwnerShown
<1>3. CASE Shell!Respond
  <2>1. "respond" \in Shell!CallKind
    BY DEF Shell!CallKind
  <2>2. /\ shell' \in Shell!Shell /\ shell'.calls = shell.calls \union {"respond"}
             /\ shell'.ownerLoading = shell.ownerLoading
        /\ shell'.completionLoading = shell.completionLoading
        /\ shell'.shown = shell.shown /\ shell'.dismissed = shell.dismissed /\ shell'.choice = shell.choice
        /\ shell'.replaced = shell.replaced
    BY <1>1, <1>3, <2>1 DEF Shell!Respond, Shell!OnShell, Shell!Shell
  <2> QED
    BY <1>1, <2>2 DEF ShellInv, DueOK, FlagsOK, ChoiceOK, Shell!OwnerShown, Shell!OwnerCall
<1>4. CASE Shell!AcknowledgeCompletion
  <2>1. "completed" \in Shell!CallKind
    BY DEF Shell!CallKind
  <2>2. /\ shell' \in Shell!Shell /\ shell'.calls = shell.calls \union {"completed"}
             /\ shell'.ownerLoading = shell.ownerLoading
        /\ shell'.completionLoading = TRUE /\ shell'.responding = shell.responding
        /\ shell'.shown = shell.shown /\ shell'.dismissed = shell.dismissed /\ shell'.choice = shell.choice
        /\ shell'.replaced = shell.replaced
    BY <1>1, <1>4, <2>1 DEF Shell!AcknowledgeCompletion, Shell!OnShell, Shell!Shell
  <2> QED
    BY <1>1, <2>2 DEF ShellInv, DueOK, FlagsOK, ChoiceOK, Shell!OwnerShown, Shell!OwnerCall
<1> QED
  BY <1>2, <1>3, <1>4

LEMMA ShellDismissInv ==
    ASSUME ShellInv, Shell!DismissConfirmation \/ Shell!DismissOwnerAction
    PROVE  ShellInv'
<1>1. shell \in Shell!Shell /\ UNCHANGED <<due, dueChanges>>
  BY DEF ShellInv, Shell!DismissConfirmation, Shell!DismissOwnerAction, Shell!OnShell
<1>2. ASSUME NEW p \in {"confirmation", "ownerAction"}, NEW request \in Request,
             shell' = Shell!Rendered([shell EXCEPT !.dismissed = [shell.dismissed EXCEPT ![p] = request]])
      PROVE  ShellInv'
  <2> DEFINE dismissed == [shell.dismissed EXCEPT ![p] = request]
             s == [shell EXCEPT !.dismissed = dismissed]
  <2>1. dismissed \in [{"confirmation", "ownerAction"} -> Request \union {None}]
    BY <1>1 DEF Shell!Shell
  <2> HIDE DEF dismissed
  <2>2. /\ s \in Shell!Shell /\ s.calls = shell.calls /\ s.ownerLoading = shell.ownerLoading
        /\ s.completionLoading = shell.completionLoading /\ s.responding = shell.responding
        /\ s.shown = shell.shown /\ s.choice = shell.choice
        /\ s.replaced = shell.replaced
    BY <1>1, <2>1 DEF Shell!Shell
  <2>3. shell' = Shell!Rendered(s)
    BY <1>2 DEF dismissed
  <2> HIDE DEF s
  <2>4. FlagsOK(s) /\ (s.choice # None => s.choice \in Shell!Menu(s.shown.ownerAction.type) \/ s.replaced)
    BY <2>2 DEF ShellInv, FlagsOK, ChoiceOK
  <2> QED
    BY <1>1, <2>2, <2>3, <2>4, RenderedOK DEF ShellInv, DueOK
<1>3. CASE Shell!DismissConfirmation
  <2>1. shell.shown.confirmation.request \in Request
    BY <1>1, <1>3 DEF Shell!DismissConfirmation, Shell!ConfirmShown, Shell!Shell, Shell!Poll, Shell!Item
  <2>2. shell' = Shell!Rendered([shell EXCEPT !.dismissed = [shell.dismissed EXCEPT !["confirmation"] =
                                                         shell.shown.confirmation.request]])
    BY <1>1, <1>3 DEF Shell!DismissConfirmation, Shell!OnShell, Shell!Shell
  <2> QED
    BY <1>2, <2>1, <2>2
<1>4. CASE Shell!DismissOwnerAction
  <2>1. shell.shown.ownerAction.request \in Request
    BY <1>1, <1>4 DEF Shell!DismissOwnerAction, Shell!OwnerShown, Shell!Shell, Shell!Poll, Shell!Item
  <2>2. shell' = Shell!Rendered([shell EXCEPT !.dismissed = [shell.dismissed EXCEPT !["ownerAction"] =
                                                         shell.shown.ownerAction.request]])
    BY <1>1, <1>4 DEF Shell!DismissOwnerAction, Shell!OnShell, Shell!Shell
  <2> QED
    BY <1>2, <2>1, <2>2
<1> QED
  BY <1>3, <1>4

LEMMA ShellChooseInv == ASSUME ShellInv, NEW choice \in Shell!Choice, Shell!Choose(choice) PROVE ShellInv'
<1>1. /\ shell' \in Shell!Shell /\ shell'.calls = shell.calls /\ shell'.ownerLoading = shell.ownerLoading
      /\ shell'.completionLoading = shell.completionLoading /\ shell'.responding = shell.responding
      /\ shell'.shown = shell.shown /\ shell'.dismissed = shell.dismissed /\ shell'.choice = choice
  BY DEF ShellInv, Shell!Choose, Shell!OnShell, Shell!Shell
<1> QED
  BY <1>1 DEF ShellInv, DueOK, FlagsOK, ChoiceOK, Shell!OwnerShown, Shell!Choose, Shell!OnShell

LEMMA ShellStartsInv == ASSUME ShellInv, NEW kind \in Shell!OwnerCall, Shell!Starts(kind) PROVE ShellInv'
<1>1. kind \in Shell!CallKind
  BY DEF Shell!CallKind
<1>2. /\ shell' \in Shell!Shell /\ shell'.calls = shell.calls \union {kind} /\ shell'.ownerLoading = TRUE
      /\ shell'.completionLoading = shell.completionLoading /\ shell'.responding = shell.responding
      /\ shell'.shown = shell.shown /\ shell'.dismissed = shell.dismissed /\ shell'.choice = shell.choice
      /\ shell'.replaced = shell.replaced
  BY <1>1 DEF ShellInv, Shell!Starts, Shell!OnShell, Shell!Shell
<1> QED
  BY <1>2 DEF ShellInv, DueOK, FlagsOK, ChoiceOK, Shell!OwnerShown, Shell!Starts, Shell!OnShell,
     Shell!OwnerCall

LEMMA SoloClosedInv == ASSUME ShellInv, Shell!SoloClosed PROVE ShellInv'
<1> DEFINE shown == [shell.shown EXCEPT !["solo"] = None]
           s == [shell EXCEPT !.shown = shown]
<1>1. shell \in Shell!Shell /\ UNCHANGED <<due, dueChanges>> /\ due["solo"] \in Shell!Item \union {None}
  BY DEF ShellInv, DueOK, Shell!SoloClosed, Shell!OnShell, Shell!Poll
<1>2. /\ shown \in [Shell!Poll -> Shell!Item \union {None}] /\ shown.ownerAction = shell.shown.ownerAction
      /\ shown.confirmation = shell.shown.confirmation
  BY <1>1 DEF Shell!Shell, Shell!Poll
<1>3. shell' = Shell!Asked(s, "solo", due["solo"])
  BY <1>1 DEF Shell!SoloClosed, Shell!OnShell, Shell!Shell
<1> HIDE DEF shown
<1>4. /\ s \in Shell!Shell /\ s.calls = shell.calls /\ s.ownerLoading = shell.ownerLoading
      /\ s.completionLoading = shell.completionLoading /\ s.responding = shell.responding
      /\ s.shown = shown /\ s.dismissed = shell.dismissed /\ s.choice = shell.choice
      /\ s.replaced = shell.replaced
  BY <1>1, <1>2 DEF Shell!Shell
<1> HIDE DEF s
<1>5. FlagsOK(s) /\ ChoiceOK(s)
  BY <1>2, <1>4 DEF ShellInv, FlagsOK, ChoiceOK, Shell!OwnerShown
<1>6. "solo" \in Shell!Poll
  BY DEF Shell!Poll
<1> QED
  BY <1>1, <1>3, <1>4, <1>5, <1>6, AskedIs DEF ShellInv, DueOK

\* A call that has ended is gone, with its flag.
LEMMA SettledIs ==
    ASSUME NEW s \in Shell!Shell, FlagsOK(s), NEW kind \in Shell!CallKind, kind \in s.calls
    PROVE  LET r == Shell!Settled(s, kind) IN
           /\ r \in Shell!Shell /\ FlagsOK(r) /\ r.shown = s.shown /\ r.choice = s.choice
           /\ r.dismissed = s.dismissed /\ r.replaced = s.replaced
<1> DEFINE calls == s.calls \ {kind}
           ownerLoading == s.ownerLoading /\ kind \notin Shell!OwnerCall
           completionLoading == s.completionLoading /\ kind # "completed"
           responding == s.responding /\ kind # "respond"
<1>1. /\ calls \in SUBSET Shell!CallKind /\ ownerLoading \in BOOLEAN /\ completionLoading \in BOOLEAN
      /\ responding \in BOOLEAN
  BY DEF Shell!Shell
<1>2. Shell!Settled(s, kind) = [s EXCEPT !.calls = calls, !.ownerLoading = ownerLoading,
                                   !.completionLoading = completionLoading, !.responding = responding]
  BY DEF Shell!Settled, Shell!Shell
<1>3. ownerLoading <=> \E k \in Shell!OwnerCall : k \in calls
  <2>1. s.ownerLoading \in BOOLEAN
    BY DEF Shell!Shell
  <2>2. CASE kind \in Shell!OwnerCall
    BY <2>2 DEF FlagsOK
  <2>3. CASE kind \notin Shell!OwnerCall
    BY <2>1, <2>3 DEF FlagsOK
  <2> QED
    BY <2>2, <2>3
<1>4. /\ completionLoading <=> "completed" \in calls
      /\ responding => "respond" \in calls
      /\ \A a, b \in Shell!OwnerCall : a \in calls /\ b \in calls => a = b
  BY DEF FlagsOK, Shell!Shell
<1> HIDE DEF calls, ownerLoading, completionLoading, responding
<1>5. LET r == Shell!Settled(s, kind) IN
           /\ r \in Shell!Shell /\ r.calls = calls /\ r.ownerLoading = ownerLoading
           /\ r.completionLoading = completionLoading /\ r.responding = responding
           /\ r.shown = s.shown /\ r.choice = s.choice
           /\ r.dismissed = s.dismissed /\ r.replaced = s.replaced
  BY <1>1, <1>2 DEF Shell!Shell
<1> QED
  BY <1>3, <1>4, <1>5 DEF FlagsOK

LEMMA AnswersInv ==
    ASSUME ShellInv, NEW kind \in Shell!CallKind, Shell!Answers(kind) \/ UNCHANGED due, UNCHANGED dueChanges
    PROVE  DueOK'
<1>1. Shell!About(kind) \in Shell!Poll
  BY DEF Shell!About, Shell!Poll, Shell!CallKind, Shell!OwnerCall
<1>2. dueChanges' \in 0..ShellChanges
  BY DEF ShellInv, DueOK
<1>3. CASE UNCHANGED due
  BY <1>2, <1>3 DEF ShellInv, DueOK
<1>4. CASE Shell!Answers(kind)
  BY <1>1, <1>2, <1>4, DueInv DEF Shell!Answers
<1> QED
  BY <1>3, <1>4

LEMMA CallFailsInv == ASSUME ShellInv, NEW kind \in shell.calls, Shell!CallFails(kind) PROVE ShellInv'
<1>1. shell \in Shell!Shell /\ kind \in Shell!CallKind /\ FlagsOK(shell)
  BY DEF ShellInv, Shell!Shell
<1>2. DueOK'
  BY <1>1, AnswersInv DEF Shell!CallFails
<1>3. shell' = Shell!Settled(shell, kind)
  BY DEF Shell!CallFails
<1> QED
  BY <1>1, <1>2, <1>3, SettledIs DEF ShellInv, ChoiceOK, Shell!OwnerShown

\* What a call was about is gone from the screen.
LEMMA ClosedOK ==
    ASSUME NEW s \in Shell!Shell, FlagsOK(s), ChoiceOK(s), NEW kind \in Shell!CallKind
    PROVE  Shell!Closed(s, kind) \in Shell!Shell /\ FlagsOK(Shell!Closed(s, kind))
             /\ ChoiceOK(Shell!Closed(s, kind))
<1> DEFINE p == Shell!About(kind)
           shown == [s.shown EXCEPT ![p] = None]
           r == [s EXCEPT !.shown = shown]
<1>1. p \in Shell!Poll
  BY DEF Shell!About, Shell!Poll, Shell!CallKind, Shell!OwnerCall
<1>2. Shell!Closed(s, kind) = s \/ Shell!Closed(s, kind) = Shell!Rendered(r)
  BY DEF Shell!Closed, Shell!Shell
<1> HIDE DEF p
<1>3. /\ shown \in [Shell!Poll -> Shell!Item \union {None}]
      /\ p = "ownerAction" => shown.ownerAction = None
      /\ p # "ownerAction" => shown.ownerAction = s.shown.ownerAction
  BY <1>1 DEF Shell!Shell, Shell!Poll
<1> HIDE DEF shown
<1>4. /\ r \in Shell!Shell /\ r.calls = s.calls /\ r.ownerLoading = s.ownerLoading
      /\ r.completionLoading = s.completionLoading /\ r.responding = s.responding
      /\ r.shown = shown /\ r.choice = s.choice /\ r.replaced = s.replaced
  BY <1>1, <1>3 DEF Shell!Shell
<1> HIDE DEF r
<1>5. FlagsOK(r)
  BY <1>4 DEF FlagsOK
<1>6. Shell!OwnerShown(r) /\ r.choice # None
        => r.choice \in Shell!Menu(r.shown.ownerAction.type) \/ r.replaced
  BY <1>3, <1>4 DEF ChoiceOK, Shell!OwnerShown
<1> QED
  BY <1>2, <1>4, <1>5, <1>6, RenderedOK

LEMMA CallAnsweredInv == ASSUME ShellInv, NEW kind \in shell.calls, Shell!CallAnswered(kind) PROVE ShellInv'
<1>1. shell \in Shell!Shell /\ kind \in Shell!CallKind /\ FlagsOK(shell)
  BY DEF ShellInv, Shell!Shell
<1>2. DueOK'
  BY <1>1, AnswersInv DEF Shell!CallAnswered
<1>3. PICK lost \in {FALSE, (kind \in {"resolve", "cover_open"})} :
          LET s == Shell!Closed(Shell!Settled([shell EXCEPT !.unavailable = @ \/ lost], kind), kind)
          IN IF kind \in {"unavailable", "completed"} THEN shell' = s
             ELSE Shell!RoomToAsk /\ shell' = Shell!Asked(s, Shell!About(kind), due'[Shell!About(kind)])
  BY DEF Shell!CallAnswered
<1> DEFINE unavailable == shell.unavailable \/ lost
           r == [shell EXCEPT !.unavailable = unavailable]
           s == Shell!Closed(Shell!Settled(r, kind), kind)
<1>4. unavailable \in BOOLEAN
  BY <1>1, <1>3 DEF Shell!Shell
<1>5. shell' = s \/ shell' = Shell!Asked(s, Shell!About(kind), due'[Shell!About(kind)])
  BY <1>1, <1>3 DEF Shell!Shell
<1> HIDE DEF unavailable
<1>6. /\ r \in Shell!Shell /\ r.calls = shell.calls /\ r.ownerLoading = shell.ownerLoading
      /\ r.completionLoading = shell.completionLoading /\ r.responding = shell.responding
      /\ r.shown = shell.shown /\ r.dismissed = shell.dismissed /\ r.choice = shell.choice
      /\ r.replaced = shell.replaced
  BY <1>1, <1>4 DEF Shell!Shell
<1> HIDE DEF r
<1>7. FlagsOK(r) /\ ChoiceOK(r)
  BY <1>6 DEF ShellInv, FlagsOK, ChoiceOK, Shell!OwnerShown
<1>8. Shell!Settled(r, kind) \in Shell!Shell /\ FlagsOK(Shell!Settled(r, kind))
        /\ ChoiceOK(Shell!Settled(r, kind))
  BY <1>1, <1>6, <1>7, SettledIs DEF ChoiceOK, Shell!OwnerShown
<1>9. s \in Shell!Shell /\ FlagsOK(s) /\ ChoiceOK(s)
  BY <1>1, <1>8, ClosedOK
<1>10. Shell!About(kind) \in Shell!Poll /\ due'[Shell!About(kind)] \in Shell!Item \union {None}
  BY <1>1, <1>2 DEF Shell!About, Shell!Poll, Shell!CallKind, Shell!OwnerCall, DueOK
<1> HIDE DEF s
<1> QED
  BY <1>2, <1>5, <1>9, <1>10, AskedIs DEF ShellInv

LEMMA ShellInitInv == ASSUME Shell!ShellInit PROVE ShellInv
<1>1. shell \in Shell!Shell
  BY DEF Shell!ShellInit, Shell!Shell, Shell!Poll
<1> QED
  BY <1>1, ShellAssumption DEF Shell!ShellInit, ShellInv, DueOK, Shell!Due, FlagsOK, ChoiceOK, Shell!OwnerCall

LEMMA ShellStep == ASSUME ShellInv, Shell!ShellNext PROVE ShellInv'
<1>1. CASE Shell!ResolveChosen \/ Shell!DecideInDrawer \/ Shell!AcknowledgeSuccess
  BY <1>1, ShellStartsInv DEF Shell!ResolveChosen, Shell!DecideInDrawer, Shell!AcknowledgeSuccess,
     Shell!OwnerCall
<1> QED
  BY <1>1, ShellPollsInv, ShellArrivesInv, ShellConfirmInv, ShellDismissInv, ShellChooseInv, SoloClosedInv,
     CallFailsInv, CallAnsweredInv DEF Shell!ShellNext

(***************************************************************************)
(* The popups a player opens (BookingPopups).                              *)
(***************************************************************************)

LEMMA PopupsCardinality == \A S : Opened!Cardinality(S) = Cardinality(S)
BY DEF Opened!Cardinality, Cardinality

\* What the popups p owe their calls, with what may be open beside what.
PopupsOK(p) ==
    /\ p \in Opened!Popups
    /\ p.resolving <=> \E kind \in Opened!OwnerCall : kind \in p.calls
    /\ \A a, b \in Opened!OwnerCall : a \in p.calls /\ b \in p.calls => a = b
    /\ p.viewLoading <=> p.viewCall # None
    /\ p.view # None => ~p.drawer /\ p.viewCall = None
    /\ p.submitting => p.form /\ "open_slot" \in p.calls
    /\ p.responding => p.view = "confirmation" /\ "respond" \in p.calls
    /\ p.preview # None => p.invitation
    /\ p.acting # None => p.invitation /\ p.acting \in p.calls

PopupsInv == PopupsOK(popups)

LEMMA PopupsInvImplies == ASSUME PopupsInv PROVE Opened!PopupsTypeOK /\ Opened!PopupWaitsForCall
<1> DEFINE owners == popups.calls \intersect Opened!OwnerCall
<1>1. \A a, b \in owners : a = b
  BY DEF PopupsInv, PopupsOK
<1>2. owners = {} \/ \E a \in owners : owners = {a}
  BY <1>1
<1>3. Cardinality(owners) <= 1
  BY <1>2, FS_EmptySet, FS_Singleton
<1> QED
  BY <1>3, PopupsCardinality DEF PopupsInv, PopupsOK, Opened!PopupsTypeOK, Opened!PopupWaitsForCall

\* Closing, choosing and looking are no business of the calls.
LEMMA PopupsQuietInv ==
    ASSUME PopupsInv, NEW next, Opened!OnPopups(next), next \in Opened!Popups,
           next.calls = popups.calls, next.resolving = popups.resolving,
           next.viewLoading = popups.viewLoading, next.viewCall = popups.viewCall,
           next.view = popups.view, next.drawer = popups.drawer \/ ~next.drawer,
           next.submitting = popups.submitting, next.form = popups.form \/ next.form,
           next.responding = popups.responding, next.invitation = popups.invitation \/ next.invitation,
           next.preview = popups.preview, next.acting = popups.acting
    PROVE  PopupsInv'
BY DEF PopupsInv, PopupsOK, Opened!OnPopups

LEMMA PopupsLooksInv ==
    ASSUME PopupsInv,
           \/ Opened!BadgeArrives \/ Opened!CloseDrawer \/ Opened!OpenInvitation \/ Opened!AskReject
                \/ Opened!OpenList \/ Opened!CloseList
           \/ Opened!SelectBooking \/ Opened!CloseDetail \/ Opened!DetailArrives
                \/ \E choice \in Opened!Choice : Opened!ChooseInDetail(choice)
           \/ Opened!ToggleCover \/ Opened!OpenSlotForm \/ Opened!CloseUnavailable
    PROVE  PopupsInv'
<1>0. popups \in Opened!Popups
  BY DEF PopupsInv, PopupsOK
<1>1. CASE Opened!BadgeArrives
  BY <1>0, <1>1, PopupsQuietInv DEF Opened!BadgeArrives, Opened!Popups
<1>2. CASE Opened!OpenInvitation
  BY <1>0, <1>2, PopupsQuietInv DEF Opened!OpenInvitation, Opened!Popups
<1>6. CASE Opened!CloseDrawer
  BY <1>0, <1>6 DEF Opened!CloseDrawer, Opened!OnPopups, PopupsInv, PopupsOK, Opened!Popups
<1>7. CASE Opened!OpenList
  BY <1>0, <1>7 DEF Opened!OpenList, Opened!OnPopups, PopupsInv, PopupsOK, Opened!Popups
<1>10. CASE Opened!CloseList
  BY <1>0, <1>10 DEF Opened!CloseList, Opened!OnPopups, PopupsInv, PopupsOK, Opened!Popups
<1>9. CASE Opened!SelectBooking
  BY <1>0, <1>9 DEF Opened!SelectBooking, Opened!OnPopups, PopupsInv, PopupsOK, Opened!Popups
<1>8. CASE Opened!CloseUnavailable
  BY <1>0, <1>8 DEF Opened!CloseUnavailable, Opened!OnPopups, PopupsInv, PopupsOK, Opened!Popups
<1>3. CASE Opened!AskReject \/ Opened!ToggleCover
  <2> DEFINE rejecting == ~popups.rejecting
             cover == ~popups.cover
  <2>1. \/ Opened!OnPopups([popups EXCEPT !.rejecting = rejecting])
        \/ Opened!OnPopups([popups EXCEPT !.cover = cover])
    BY <1>0, <1>3 DEF Opened!AskReject, Opened!ToggleCover, Opened!Popups
  <2>2. rejecting \in BOOLEAN /\ cover \in BOOLEAN
    BY <1>0 DEF Opened!Popups
  <2> HIDE DEF rejecting, cover
  <2> QED
    BY <1>0, <2>1, <2>2, PopupsQuietInv DEF Opened!Popups
<1>4. CASE Opened!DetailArrives \/ \E choice \in Opened!Choice : Opened!ChooseInDetail(choice)
  BY <1>0, <1>4, PopupsQuietInv DEF Opened!DetailArrives, Opened!ChooseInDetail, Opened!Popups,
     Opened!DetailShows
<1>5. CASE Opened!CloseDetail \/ Opened!OpenSlotForm
  BY <1>0, <1>5, PopupsQuietInv DEF Opened!CloseDetail, Opened!OpenSlotForm, Opened!WithoutDetail,
     Opened!FreshDetail, Opened!Popups, Opened!DetailShows
<1> QED
  BY <1>1, <1>2, <1>3, <1>4, <1>5, <1>6, <1>7, <1>8, <1>9, <1>10

\* The badge and the drawer.
LEMMA PopupsDrawerInv ==
    ASSUME PopupsInv,
           \/ Opened!OpenDrawer \/ \E view \in Opened!View : Opened!ViewNotification(view)
           \/ Opened!ViewArrives \/ Opened!ViewFails \/ Opened!CloseView \/ Opened!RespondInView
    PROVE  PopupsInv'
<1>0. popups \in Opened!Popups
  BY DEF PopupsInv, PopupsOK
<1>1. CASE Opened!OpenDrawer
  <2>1. 0 \in 0..MaxUnread
    BY PopupsAssumption
  <2> DEFINE p == [popups EXCEPT !.drawer = TRUE, !.badge = 0]
             q == [p EXCEPT !.calls = p.calls \union {"mark"}]
  <2>2. /\ p \in Opened!Popups /\ p.calls = popups.calls /\ p.resolving = popups.resolving
             /\ p.viewLoading = popups.viewLoading
        /\ p.viewCall = popups.viewCall /\ p.view = popups.view /\ p.submitting = popups.submitting
        /\ p.form = popups.form /\ p.responding = popups.responding /\ p.invitation = popups.invitation
        /\ p.preview = popups.preview /\ p.acting = popups.acting
    BY <1>0, <2>1 DEF Opened!Popups
  <2>3. popups' = p \/ popups' = q
    BY <1>1 DEF Opened!OpenDrawer, Opened!OnPopups
  <2> HIDE DEF p
  <2>4. q \in Opened!Popups /\ q.calls = p.calls \union {"mark"}
    BY <2>2 DEF Opened!Popups, Opened!CallKind
  <2>5. /\ q.resolving = p.resolving /\ q.viewLoading = p.viewLoading
        /\ q.viewCall = p.viewCall /\ q.view = p.view /\ q.submitting = p.submitting
        /\ q.form = p.form /\ q.responding = p.responding /\ q.invitation = p.invitation
        /\ q.preview = p.preview /\ q.acting = p.acting
    BY <2>2 DEF Opened!Popups
  <2>6. popups.view = None /\ popups.viewCall = None
    BY <1>1 DEF Opened!OpenDrawer, Opened!Bare, PopupsInv, PopupsOK
  <2> HIDE DEF q
  <2> QED
    BY <2>2, <2>3, <2>4, <2>5, <2>6 DEF PopupsInv, PopupsOK, Opened!OwnerCall
<1>2. ASSUME NEW view \in Opened!View, Opened!ViewNotification(view) PROVE PopupsInv'
  BY <1>0, <1>2, PopupsAssumption DEF Opened!ViewNotification, Opened!OnPopups, PopupsInv, PopupsOK,
     Opened!Popups, Opened!View
<1>3. CASE Opened!ViewArrives
  <2>1. /\ popups' \in Opened!Popups /\ popups'.viewLoading = FALSE /\ popups'.viewCall = None
        /\ popups'.view = popups.viewCall /\ popups'.drawer = FALSE
        /\ popups'.calls = popups.calls /\ popups'.resolving = popups.resolving
        /\ popups'.submitting = popups.submitting /\ popups'.form = popups.form
        /\ popups'.responding = popups.responding /\ popups'.invitation = popups.invitation
        /\ popups'.preview = popups.preview /\ popups'.acting = popups.acting
    BY <1>0, <1>3 DEF Opened!ViewArrives, Opened!OnPopups, Opened!Popups
  <2> QED
    BY <1>3, <2>1, PopupsAssumption DEF Opened!ViewArrives, PopupsInv, PopupsOK, Opened!View
<1>4. CASE Opened!ViewFails
  BY <1>0, <1>4 DEF Opened!ViewFails, Opened!OnPopups, PopupsInv, PopupsOK, Opened!Popups, Opened!View
<1>5. CASE Opened!CloseView
  BY <1>0, <1>5 DEF Opened!CloseView, Opened!OnPopups, PopupsInv, PopupsOK, Opened!Popups, Opened!View
<1>6. CASE Opened!RespondInView
  BY <1>0, <1>6 DEF Opened!RespondInView, Opened!OnPopups, PopupsInv, PopupsOK, Opened!Popups, Opened!View,
     Opened!CallKind, Opened!OwnerCall
<1> QED
  BY <1>1, <1>2, <1>3, <1>4, <1>5, <1>6

LEMMA PopupsInvitationInv ==
    ASSUME PopupsInv, Opened!PreviewArrives \/ Opened!CloseInvitation
             \/ \E answer \in {"accept", "decline"} : Opened!Act(answer)
    PROVE  PopupsInv'
<1>0. popups \in Opened!Popups
  BY DEF PopupsInv, PopupsOK
<1>1. CASE Opened!PreviewArrives
  BY <1>0, <1>1 DEF Opened!PreviewArrives, Opened!OnPopups, PopupsInv, PopupsOK, Opened!Popups
<1>2. CASE Opened!CloseInvitation
  BY <1>0, <1>2 DEF Opened!CloseInvitation, Opened!WithoutInvitation, Opened!OnPopups, PopupsInv, PopupsOK,
     Opened!Popups
<1>3. ASSUME NEW answer \in {"accept", "decline"}, Opened!Act(answer) PROVE PopupsInv'
  <2>1. /\ popups' \in Opened!Popups /\ popups'.viewLoading = popups.viewLoading
             /\ popups'.viewCall = popups.viewCall
        /\ popups'.view = popups.view /\ popups'.drawer = popups.drawer
        /\ popups'.calls = popups.calls \union {answer} /\ popups'.resolving = popups.resolving
        /\ popups'.submitting = popups.submitting /\ popups'.form = popups.form
        /\ popups'.responding = popups.responding /\ popups'.invitation = popups.invitation
        /\ popups'.preview = popups.preview /\ popups'.acting = answer
    BY <1>0, <1>3 DEF Opened!Act, Opened!OnPopups, Opened!Popups, Opened!CallKind, Opened!OwnerCall
  <2>2. popups.preview # None
    BY <1>3, PopupsAssumption DEF Opened!Act
  <2> QED
    BY <2>1, <2>2 DEF PopupsInv, PopupsOK, Opened!OwnerCall
<1> QED
  BY <1>1, <1>2, <1>3

\* A decision of an owner, sent while none is under way.
LEMMA PopupsDecidesInv ==
    ASSUME PopupsInv, NEW kind \in Opened!OwnerCall, Opened!Decides(kind)
    PROVE  PopupsInv'
BY DEF Opened!Decides, Opened!OnPopups, PopupsInv, PopupsOK, Opened!Popups, Opened!CallKind, Opened!OwnerCall

LEMMA PopupsFormInv == ASSUME PopupsInv, Opened!SubmitForm \/ Opened!CloseForm PROVE PopupsInv'
<1>0. popups \in Opened!Popups
  BY DEF PopupsInv, PopupsOK
<1>1. CASE Opened!SubmitForm
  BY <1>0, <1>1 DEF Opened!SubmitForm, Opened!OnPopups, PopupsInv, PopupsOK, Opened!Popups, Opened!CallKind,
     Opened!OwnerCall
<1>2. CASE Opened!CloseForm
  BY <1>0, <1>2 DEF Opened!CloseForm, Opened!OnPopups, PopupsInv, PopupsOK, Opened!Popups, Opened!CallKind,
     Opened!OwnerCall, Opened!Left
<1> QED
  BY <1>1, <1>2

\* A call that is answered is gone, and with it the owner's if it was his.
LEMMA WithoutIs ==
    ASSUME PopupsInv, NEW kind \in Opened!CallKind, kind \in popups.calls
    PROVE  LET p == Opened!Without(kind) IN
           /\ p \in Opened!Popups /\ p.calls = popups.calls \ {kind}
           /\ p.resolving <=> \E k \in Opened!OwnerCall : k \in p.calls
           /\ p.viewLoading = popups.viewLoading /\ p.viewCall = popups.viewCall /\ p.view = popups.view
           /\ p.drawer = popups.drawer /\ p.submitting = popups.submitting /\ p.form = popups.form
           /\ p.responding = popups.responding /\ p.invitation = popups.invitation
           /\ p.preview = popups.preview /\ p.acting = popups.acting
           /\ p.unavailable = popups.unavailable
<1> DEFINE calls == popups.calls \ {kind}
           resolving == popups.resolving /\ kind \notin Opened!OwnerCall
<1>1. popups \in Opened!Popups /\ calls \in SUBSET Opened!CallKind /\ resolving \in BOOLEAN
  BY DEF PopupsInv, PopupsOK, Opened!Popups
<1>2. resolving <=> \E k \in Opened!OwnerCall : k \in calls
  <2>1. popups.resolving \in BOOLEAN /\ (popups.resolving <=> \E k \in Opened!OwnerCall : k \in popups.calls)
    BY <1>1 DEF PopupsInv, PopupsOK, Opened!Popups
  <2>2. \A a, b \in Opened!OwnerCall : a \in popups.calls /\ b \in popups.calls => a = b
    BY DEF PopupsInv, PopupsOK
  <2>3. CASE kind \in Opened!OwnerCall
    BY <2>2, <2>3
  <2>4. CASE kind \notin Opened!OwnerCall
    BY <2>1, <2>4
  <2> QED
    BY <2>3, <2>4
<1>3. Opened!Without(kind) = [popups EXCEPT !.calls = calls, !.resolving = resolving]
  BY <1>1 DEF Opened!Without, Opened!Popups
<1> HIDE DEF calls, resolving
<1>4. /\ Opened!Without(kind) \in Opened!Popups /\ Opened!Without(kind).calls = calls
           /\ Opened!Without(kind).resolving = resolving
  BY <1>1, <1>3 DEF Opened!Popups
<1>5. LET p == Opened!Without(kind) IN
           /\ p.viewLoading = popups.viewLoading /\ p.viewCall = popups.viewCall /\ p.view = popups.view
           /\ p.drawer = popups.drawer /\ p.submitting = popups.submitting /\ p.form = popups.form
           /\ p.responding = popups.responding /\ p.invitation = popups.invitation
           /\ p.preview = popups.preview /\ p.acting = popups.acting
           /\ p.unavailable = popups.unavailable
  BY <1>1, <1>3 DEF Opened!Popups
<1> QED
  BY <1>2, <1>4, <1>5 DEF calls

\* The invariant after an answer, but for what waits for the call itself.
LEMMA PopupsAnsweredInv ==
    ASSUME PopupsInv, NEW kind \in Opened!CallKind, kind \in popups.calls, popups' \in Opened!Popups,
           popups'.calls = Opened!Without(kind).calls, popups'.resolving = Opened!Without(kind).resolving,
           popups'.viewLoading = Opened!Without(kind).viewLoading,
           popups'.viewCall = Opened!Without(kind).viewCall,
           popups'.view = Opened!Without(kind).view \/ popups'.view = None,
           popups'.drawer = Opened!Without(kind).drawer,
           popups'.submitting =>
             /\ Opened!Without(kind).submitting /\ popups'.form = Opened!Without(kind).form
                                 /\ kind # "open_slot",
           popups'.responding =>
             /\ Opened!Without(kind).responding /\ popups'.view = Opened!Without(kind).view
                                 /\ kind # "respond",
           popups'.preview # None => /\ popups'.preview = Opened!Without(kind).preview
                                     /\ popups'.invitation = Opened!Without(kind).invitation,
           popups'.acting # None => /\ popups'.acting = Opened!Without(kind).acting /\ popups'.acting # kind
                                    /\ popups'.invitation = Opened!Without(kind).invitation
    PROVE  PopupsInv'
BY WithoutIs DEF PopupsInv, PopupsOK

LEMMA PopupsOwnerInv ==
    ASSUME PopupsInv, NEW kind \in Opened!CallKind, Opened!OwnerAnswered(kind)
    PROVE  PopupsInv'
<1>1. PICK lost \in BOOLEAN, cancelled \in BOOLEAN :
          LET p == [Opened!Without(kind) EXCEPT !.unavailable = @ \/ lost]
          IN  Opened!OnPopups(IF cancelled \/ kind = "cover_open" THEN Opened!WithoutDetail(p) ELSE p)
  BY DEF Opened!OwnerAnswered
<1> DEFINE rest == Opened!Without(kind)
           unavailable == rest.unavailable \/ lost
           p == [rest EXCEPT !.unavailable = unavailable]
<1>2. kind \in Opened!OwnerCall /\ kind \in popups.calls /\ (popups.acting # None => popups.acting # kind)
  BY DEF Opened!OwnerAnswered, Opened!OwnerCall, PopupsInv, PopupsOK, Opened!Popups
<1>3. rest \in Opened!Popups /\ rest.acting = popups.acting
  BY <1>2, WithoutIs
<1>4. unavailable \in BOOLEAN
  BY <1>3 DEF Opened!Popups
<1>5. popups' = p \/ popups' = Opened!WithoutDetail(p)
  BY <1>1, <1>3 DEF Opened!OnPopups, Opened!Popups
<1> HIDE DEF rest, unavailable
<1>6. popups' = p \/ popups' = [rest EXCEPT !.unavailable = unavailable, !.detail = FALSE, !.list = FALSE,
                                            !.shows = None, !.choice = None, !.cover = FALSE]
  BY <1>3, <1>4, <1>5 DEF Opened!WithoutDetail, Opened!FreshDetail, Opened!Popups
<1>7. /\ popups' \in Opened!Popups /\ popups'.calls = rest.calls /\ popups'.resolving = rest.resolving
      /\ popups'.viewLoading = rest.viewLoading /\ popups'.viewCall = rest.viewCall
           /\ popups'.view = rest.view
      /\ popups'.drawer = rest.drawer /\ popups'.submitting = rest.submitting /\ popups'.form = rest.form
      /\ popups'.responding = rest.responding /\ popups'.preview = rest.preview
      /\ popups'.invitation = rest.invitation /\ popups'.acting = rest.acting
  BY <1>3, <1>4, <1>6 DEF Opened!Popups, Opened!DetailShows
<1> QED
  <2>1. kind # "open_slot" /\ kind # "respond"
    BY <1>2 DEF Opened!OwnerCall
  <2> QED
    BY <1>2, <1>3, <1>7, <2>1, PopupsAnsweredInv DEF rest

\* The answer about the slots closes the form that is open.
LEMMA PopupsFormAnsweredInv ==
    ASSUME PopupsInv, NEW kind \in Opened!CallKind, Opened!FormAnswered(kind)
    PROVE  PopupsInv'
<1>1. PICK lost \in BOOLEAN :
          LET p == [Opened!Without(kind) EXCEPT !.form = FALSE, !.submitting = FALSE, !.unavailable = @ \/ lost]
          IN IF popups.submitting /\ kind = "open_slot_left"
             THEN Opened!OnPopups([p EXCEPT !.calls = Opened!Left(@)]) ELSE Opened!OnPopups(p)
  BY DEF Opened!FormAnswered
<1> DEFINE rest == Opened!Without(kind)
           unavailable == rest.unavailable \/ lost
           left == Opened!Left(rest.calls)
<1>2. kind \in popups.calls /\ kind \notin Opened!OwnerCall /\ kind \notin {"respond", "accept", "decline"}
  BY DEF Opened!FormAnswered, Opened!OwnerCall
<1>3. rest \in Opened!Popups /\ unavailable \in BOOLEAN
  BY <1>2, WithoutIs DEF Opened!Popups
<1>4. left \in SUBSET Opened!CallKind
  BY <1>3 DEF Opened!Left, Opened!Popups, Opened!CallKind
<1>5. \A k \in Opened!CallKind \ {"open_slot", "open_slot_left"} : k \in left <=> k \in rest.calls
  BY DEF Opened!Left
<1>6. \/ popups' = [rest EXCEPT !.form = FALSE, !.submitting = FALSE, !.unavailable = unavailable]
      \/ popups' = [rest EXCEPT !.form = FALSE, !.submitting = FALSE, !.unavailable = unavailable,
             !.calls = left]
  BY <1>1, <1>3 DEF Opened!OnPopups, Opened!Popups
<1> HIDE DEF rest, unavailable, left
<1>7. /\ popups' \in Opened!Popups /\ popups'.calls \in {rest.calls, left}
           /\ popups'.resolving = rest.resolving
      /\ popups'.viewLoading = rest.viewLoading /\ popups'.viewCall = rest.viewCall
           /\ popups'.view = rest.view
      /\ popups'.drawer = rest.drawer /\ ~popups'.submitting
      /\ popups'.responding = rest.responding /\ popups'.preview = rest.preview
      /\ popups'.invitation = rest.invitation /\ popups'.acting = rest.acting
  BY <1>3, <1>4, <1>6 DEF Opened!Popups
<1>8. /\ rest.calls = popups.calls \ {kind}
           /\ (rest.resolving <=> \E k \in Opened!OwnerCall : k \in rest.calls)
      /\ rest.viewLoading = popups.viewLoading /\ rest.viewCall = popups.viewCall /\ rest.view = popups.view
      /\ rest.drawer = popups.drawer /\ rest.responding = popups.responding
      /\ rest.invitation = popups.invitation /\ rest.preview = popups.preview /\ rest.acting = popups.acting
  BY <1>2, WithoutIs DEF rest
<1>9. \A k \in Opened!OwnerCall \union {"respond", "accept", "decline"} :
           k \in popups'.calls <=> k \in popups.calls
  <2>1. Opened!OwnerCall \union {"respond", "accept", "decline"} \subseteq Opened!CallKind \ {"open_slot", "open_slot_left"}
    BY DEF Opened!OwnerCall, Opened!CallKind
  <2> QED
    BY <1>2, <1>5, <1>7, <1>8, <2>1
<1>10. popups.acting # None => popups.acting \in {"accept", "decline"}
  BY DEF PopupsInv, PopupsOK, Opened!Popups
<1>11. rest.resolving <=> \E k \in Opened!OwnerCall : k \in popups'.calls
  BY <1>2, <1>8, <1>9
<1> QED
  BY <1>2, <1>7, <1>8, <1>9, <1>10, <1>11 DEF PopupsInv, PopupsOK

LEMMA PopupsAnswersInv ==
    ASSUME PopupsInv,
           \/ Opened!RespondAnswered \/ Opened!Marked
                \/ \E answer \in {"accept", "decline"} : Opened!InvitationAnswered(answer)
    PROVE  PopupsInv'
<1>1. CASE Opened!RespondAnswered
  <2> DEFINE rest == Opened!Without("respond")
             view == IF rest.view = "confirmation" THEN None ELSE rest.view
  <2>1. "respond" \in popups.calls /\ "respond" \in Opened!CallKind
          /\ (popups.acting # None => popups.acting # "respond")
    BY <1>1 DEF Opened!RespondAnswered, Opened!CallKind, PopupsInv, PopupsOK, Opened!Popups
  <2>2. rest \in Opened!Popups
    BY <2>1, WithoutIs
  <2>3. view \in {rest.view, None}
    OBVIOUS
  <2>4. popups' = [rest EXCEPT !.responding = FALSE, !.view = view]
    BY <1>1, <2>2 DEF Opened!RespondAnswered, Opened!OnPopups, Opened!Popups
  <2> HIDE DEF rest, view
  <2>5. /\ popups' \in Opened!Popups /\ popups'.calls = rest.calls /\ popups'.resolving = rest.resolving
        /\ popups'.viewLoading = rest.viewLoading /\ popups'.viewCall = rest.viewCall /\ popups'.view = view
        /\ popups'.drawer = rest.drawer /\ popups'.submitting = rest.submitting /\ popups'.form = rest.form
        /\ ~popups'.responding /\ popups'.preview = rest.preview
        /\ popups'.invitation = rest.invitation /\ popups'.acting = rest.acting
    BY <2>2, <2>3, <2>4 DEF Opened!Popups
  <2>6. rest.acting = popups.acting
    BY <2>1, WithoutIs DEF rest
  <2>7. "respond" # "open_slot"
    OBVIOUS
  <2> QED
    BY <2>1, <2>3, <2>5, <2>6, <2>7, PopupsAnsweredInv DEF rest
<1>2. CASE Opened!Marked
  <2>1. "mark" \in popups.calls /\ "mark" \in Opened!CallKind
          /\ (popups.acting # None => popups.acting # "mark")
        /\ popups' = Opened!Without("mark")
    BY <1>2 DEF Opened!Marked, Opened!OnPopups, Opened!CallKind, PopupsInv, PopupsOK, Opened!Popups
  <2> QED
    BY <2>1, WithoutIs, PopupsAnsweredInv
<1>3. ASSUME NEW answer \in {"accept", "decline"}, Opened!InvitationAnswered(answer) PROVE PopupsInv'
  <2> DEFINE rest == Opened!Without(answer)
  <2>1. answer \in popups.calls /\ answer \in Opened!CallKind /\ answer \notin {"open_slot", "respond"}
    BY <1>3 DEF Opened!InvitationAnswered, Opened!CallKind
  <2>2. rest \in Opened!Popups
    BY <2>1, WithoutIs
  <2>4. popups' = [rest EXCEPT !.invitation = FALSE, !.preview = None, !.acting = None, !.rejecting = FALSE]
    BY <1>3 DEF Opened!InvitationAnswered, Opened!OnPopups, Opened!WithoutInvitation
  <2> HIDE DEF rest
  <2>5. /\ popups' \in Opened!Popups /\ popups'.calls = rest.calls /\ popups'.resolving = rest.resolving
        /\ popups'.viewLoading = rest.viewLoading /\ popups'.viewCall = rest.viewCall
             /\ popups'.view = rest.view
        /\ popups'.drawer = rest.drawer /\ popups'.submitting = rest.submitting /\ popups'.form = rest.form
        /\ popups'.responding = rest.responding /\ popups'.preview = None /\ popups'.acting = None
    BY <2>2, <2>4 DEF Opened!Popups
  <2> QED
    BY <2>1, <2>5, PopupsAnsweredInv DEF rest
<1> QED
  BY <1>1, <1>2, <1>3

LEMMA PopupsFailsInv ==
    ASSUME PopupsInv, NEW kind \in Opened!CallKind, Opened!CallFails(kind)
    PROVE  PopupsInv'
<1> DEFINE rest == Opened!Without(kind)
           submitting == rest.submitting /\ kind # "open_slot"
           responding == rest.responding /\ kind # "respond"
           acting == IF rest.acting = kind THEN None ELSE rest.acting
<1>1. kind \in popups.calls
  BY DEF Opened!CallFails
<1>2. rest \in Opened!Popups
  BY <1>1, WithoutIs
<1>3. submitting \in BOOLEAN /\ responding \in BOOLEAN /\ acting \in {None, "accept", "decline"}
  BY <1>2 DEF Opened!Popups
<1>4. popups' = [rest EXCEPT !.submitting = submitting, !.responding = responding, !.acting = acting]
  BY <1>2 DEF Opened!CallFails, Opened!Fails, Opened!OnPopups, Opened!Popups
<1>5. /\ submitting => rest.submitting /\ kind # "open_slot"
      /\ responding => rest.responding /\ kind # "respond"
      /\ acting # None => acting = rest.acting /\ acting # kind
  OBVIOUS
<1> HIDE DEF rest, submitting, responding, acting
<1>6. /\ popups' \in Opened!Popups /\ popups'.calls = rest.calls /\ popups'.resolving = rest.resolving
      /\ popups'.viewLoading = rest.viewLoading /\ popups'.viewCall = rest.viewCall
           /\ popups'.view = rest.view
      /\ popups'.drawer = rest.drawer /\ popups'.submitting = submitting /\ popups'.form = rest.form
      /\ popups'.responding = responding /\ popups'.preview = rest.preview
      /\ popups'.invitation = rest.invitation /\ popups'.acting = acting
  BY <1>2, <1>3, <1>4 DEF Opened!Popups
<1> QED
  BY <1>1, <1>5, <1>6, PopupsAnsweredInv DEF rest

LEMMA PopupsInitInv == ASSUME Opened!PopupsInit PROVE PopupsInv
BY PopupsAssumption DEF Opened!PopupsInit, PopupsInv, PopupsOK, Opened!Popups, Opened!OwnerCall,
   Opened!DetailShows

LEMMA PopupsStep == ASSUME PopupsInv, Opened!PopupsNext PROVE PopupsInv'
<1>1. CASE Opened!ResolveInDetail \/ Opened!CoverOpenSlots \/ Opened!DecideInSummary
  BY <1>1, PopupsDecidesInv DEF Opened!ResolveInDetail, Opened!CoverOpenSlots, Opened!DecideInSummary,
     Opened!OwnerCall
<1> QED
  BY <1>1, PopupsLooksInv, PopupsDrawerInv, PopupsInvitationInv, PopupsFormInv, PopupsOwnerInv,
     PopupsFormAnsweredInv, PopupsAnswersInv, PopupsFailsInv DEF Opened!PopupsNext

(***************************************************************************)
(* The pages together, and the theorems.                                   *)
(***************************************************************************)

\* A step of the client is one of the page that is shown, or none of the page's.
LEMMA BookingSteps ==
    ASSUME [Next]_vars
    PROVE  /\ Grid!GridNext \/ UNCHANGED gridVars
           /\ Pitch!PitchNext \/ UNCHANGED pitchVars
           /\ Pay!PayNext \/ UNCHANGED payVars
           /\ Shell!ShellNext \/ UNCHANGED shellVars
           /\ Opened!PopupsNext \/ UNCHANGED popups
BY DEF Next, Shows, vars

LEMMA GridHolds == Spec => []GridInv
<1>1. Init => GridInv
  BY GridInitInv DEF Init
<1>2. GridInv /\ [Next]_vars => GridInv'
  <2> SUFFICES ASSUME GridInv, [Next]_vars PROVE GridInv'
    OBVIOUS
  <2>1. [Grid!GridNext]_Grid!gridVars
    BY BookingSteps DEF gridVars, Grid!gridVars
  <2> QED
    BY <2>1, GridStep
<1> QED
  BY <1>1, <1>2, PTL DEF Spec

LEMMA PitchHolds == Spec => []PitchInv
<1>1. Init => PitchInv
  BY PitchInitInv DEF Init
<1>2. PitchInv /\ [Next]_vars => PitchInv'
  <2> SUFFICES ASSUME PitchInv, [Next]_vars PROVE PitchInv'
    OBVIOUS
  <2>1. [Pitch!PitchNext]_Pitch!pitchVars
    BY BookingSteps DEF pitchVars, Pitch!pitchVars
  <2> QED
    BY <2>1, PitchStep
<1> QED
  BY <1>1, <1>2, PTL DEF Spec

LEMMA ChoiceHolds == Spec => []ChoiceSound
<1>1. Init => ChoiceSound
  BY ChoiceInitInv DEF Init
<1>2. PitchInv /\ ChoiceSound /\ [Next]_vars => ChoiceSound'
  <2> SUFFICES ASSUME PitchInv, ChoiceSound, [Next]_vars PROVE ChoiceSound'
    OBVIOUS
  <2>1. [Pitch!PitchNext]_Pitch!pitchVars
    BY BookingSteps DEF pitchVars, Pitch!pitchVars
  <2> QED
    BY <2>1, ChoiceStep
<1> QED
  BY <1>1, <1>2, PitchHolds, PTL DEF Spec

LEMMA PayHolds == Spec => []PayInv
<1>1. Init => PayInv
  BY PayInitInv DEF Init
<1>2. PayInv /\ [Next]_vars => PayInv'
  <2> SUFFICES ASSUME PayInv, [Next]_vars PROVE PayInv'
    OBVIOUS
  <2>1. [Pay!PayNext]_Pay!payVars
    BY BookingSteps DEF payVars, Pay!payVars
  <2> QED
    BY <2>1, PayStep
<1> QED
  BY <1>1, <1>2, PTL DEF Spec

LEMMA ShellHolds == Spec => []ShellInv
<1>1. Init => ShellInv
  BY ShellInitInv DEF Init
<1>2. ShellInv /\ [Next]_vars => ShellInv'
  <2> SUFFICES ASSUME ShellInv, [Next]_vars PROVE ShellInv'
    OBVIOUS
  <2>1. CASE UNCHANGED shellVars
    BY <2>1 DEF shellVars, ShellInv, DueOK, FlagsOK, ChoiceOK
  <2> QED
    BY <2>1, BookingSteps, ShellStep
<1> QED
  BY <1>1, <1>2, PTL DEF Spec

LEMMA PopupsHold == Spec => []PopupsInv
<1>1. Init => PopupsInv
  BY PopupsInitInv DEF Init
<1>2. PopupsInv /\ [Next]_vars => PopupsInv'
  <2> SUFFICES ASSUME PopupsInv, [Next]_vars PROVE PopupsInv'
    OBVIOUS
  <2>1. CASE UNCHANGED popups
    BY <2>1 DEF PopupsInv, PopupsOK
  <2> QED
    BY <2>1, BookingSteps, PopupsStep
<1> QED
  BY <1>1, <1>2, PTL DEF Spec

\* The price an owner is proposed is that of the cells his form will book, once
\* the form is shown and while he has not typed another, however fast popups are
\* closed and opened again (BookingGrid.tsx).
THEOREM PriceIsOfTheSlots == Spec => []ProposedPriceIsOfTheSlots
<1>1. GridInv => ProposedPriceIsOfTheSlots
  BY GridInvImplies DEF ProposedPriceIsOfTheSlots
<1> QED
  BY <1>1, GridHolds, PTL

\* The hours a player has selected are hours of the mode he pays for and shown
\* as free, after every reload, failure and change of mode (PitchDetail.tsx).
THEOREM SelectionStaysBookable == Spec => []SelectionIsBookable
<1>1. PitchInv => SelectionIsBookable
  BY PitchInvImplies DEF SelectionIsBookable
<1> QED
  BY <1>1, PitchHolds, PTL

\* What an owner has chosen is one of the options before him, unless a poll has
\* put another question into the popup he had open (OwnerBookingSummaryPopup.tsx).
THEOREM ChoiceWasOffered == Spec => []ChoiceIsOffered
<1>1. ShellInv => ChoiceIsOffered
  BY ShellInvImplies DEF ChoiceIsOffered
<1> QED
  BY <1>1, ShellHolds, PTL

===============================================================================
