---------------------------- MODULE BookingGridPage ----------------------------
(***************************************************************************)
(* The owner's weekly grid (BookingGrid.tsx): a window of days, the cells  *)
(* of the last load, a selection dragged with the mouse or held by touch,  *)
(* and a popup that books or closes the selected cells.  A drag and a held *)
(* touch remember rows and columns, the popup remembers dates; loads and   *)
(* saves are answered in any order.  The server is the status of each      *)
(* slot (SoloBooking has what the owner's endpoints do with it).           *)
(***************************************************************************)
EXTENDS Integers, FiniteSets

CONSTANTS
    Hours,        \* rows of the grid: hours the pitch is open
    WindowDays,   \* WINDOW_DAYS: columns of the default view
    PageStep,     \* PAGE_STEP_DAYS: days the arrows move it by
    Picked,       \* days chosen in the date selects
    PagesBack,    \* bound: pages the arrows go back; forward of today is alike
    MaxLoads,     \* bound: loads under way at once
    MaxChanges,   \* bound: changes of the grid on the server
    None          \* nothing there

VARIABLES
    slot,         \* the server: status of every slot
    changes,      \* how often it was changed so far
    grid          \* the page

gridVars == <<slot, changes, grid>>

Pages == (-PagesBack)..0
Day == (UNION {(p * PageStep)..(p * PageStep + WindowDays - 1) : p \in Pages}) \union Picked   \* today is day 0
Hour == 1..Hours
Slot == Day \X Hour
Status == {"free", "taken"}                           \* taken: booked or closed
Range == {r \in Day \X Day : r[1] <= r[2]}
Pos == (1..WindowDays) \X Hour                        \* a column and a row
Tab == {"book", "close"}

Load == [n : 1..MaxLoads, range : Range, cells : [Slot -> Status], served : BOOLEAN]
Data == [range : Range, cells : [Slot -> Status]]
Popup == [kind : {"info"}] \union [kind : {"book"}, slots : (SUBSET Slot) \ {{}}, tab : Tab]
Save == [slots : (SUBSET Slot) \ {{}}, step : {"asked", "made"}]

Grid ==
    [from  : Picked \union {None}, to : Picked \union {None},   \* the custom range
     page  : Pages,                                          \* pageOffset
     data  : Data \union {None}, loading : BOOLEAN, loads : SUBSET Load,
     held  : Pos \union {None},                              \* a touch before its long press
     drag  : [anchor : Pos, current : Pos] \union {None},
     popup : Popup \union {None},
     calculating : BOOLEAN,
     price : Nat \union {None}, edited : BOOLEAN,            \* in hours of the pitch's price
     timers : SUBSET Nat,                                    \* price timers not fired yet
     save  : Save \union {None}]                             \* saving

GridTypeOK ==
    /\ slot \in [Slot -> Status] /\ changes \in 0..MaxChanges
    /\ grid.from \in Picked \union {None} /\ grid.to \in Picked \union {None} /\ grid.page \in Pages
    /\ grid.data # None => grid.data.range \in Range
    /\ grid.loading \in BOOLEAN /\ Cardinality(grid.loads) <= MaxLoads
    /\ grid.popup # None /\ grid.popup.kind = "book" => grid.popup.slots \subseteq Slot
    /\ grid.save # None => grid.save \in Save

-----------------------------------------------------------------------------
(* The window and its loads. *)

\* effectiveRange: the custom range in either order, one day of it, or the
\* default window moved by the arrows.
EffectiveRange(g) ==
    IF g.from # None
    THEN CASE g.to = None -> <<g.from, g.from>>
           [] g.to # None /\ g.from <= g.to -> <<g.from, g.to>>
           [] g.to # None /\ g.from > g.to  -> <<g.to, g.from>>
    ELSE <<g.page * PageStep, g.page * PageStep + WindowDays - 1>>

FreeLoad(g) == {n \in 1..MaxLoads : \A l \in g.loads : l.n # n}

\* load(): one more request, with the range of the render that made it.
Loading(g) ==
    [g EXCEPT !.loading = TRUE,
              !.loads = @ \union {[n |-> CHOOSE n \in FreeLoad(g) : TRUE, range |-> EffectiveRange(g),
                                   cells |-> slot, served |-> FALSE]}]

\* A change of the filters: the effect loads again when the range is another one.
Filters(g) ==
    /\ grid.popup = None /\ FreeLoad(grid) # {}
    /\ grid' = IF EffectiveRange(g) # EffectiveRange(grid) THEN Loading(g) ELSE g
    /\ UNCHANGED <<slot, changes>>

EmptyGrid ==
    [from |-> None, to |-> None, page |-> 0, data |-> None, loading |-> TRUE, loads |-> {},
     held |-> None, drag |-> None, popup |-> None, calculating |-> FALSE, price |-> None,
     edited |-> FALSE, timers |-> {}, save |-> None]

GridInit ==
    /\ slot = [s \in Slot |-> "free"]
    /\ changes = 0
    /\ grid = Loading(EmptyGrid)

OnlyGrid == UNCHANGED <<slot, changes>>

\* The selects of the filter bar; without a first day the second has no effect.
PickFrom(d) == Filters([grid EXCEPT !.from = d])
PickTo(d) == Filters([grid EXCEPT !.to = d])

\* The name and hour filters: another question about the same days.
Refilter == grid.popup = None /\ FreeLoad(grid) # {} /\ grid' = Loading(grid) /\ OnlyGrid

\* goPrevDays and goNextDays: off while the grid loads or a range is picked.
TurnPage(step) ==
    /\ grid.from = None /\ ~grid.loading
    /\ grid.page + step \in Pages
    /\ Filters([grid EXCEPT !.page = @ + step])

HandleClear == Filters([grid EXCEPT !.from = None, !.to = None, !.page = 0])

ServeGrid(l) ==
    /\ ~l.served
    /\ grid' = [grid EXCEPT !.loads = (@ \ {l}) \union {[l EXCEPT !.served = TRUE, !.cells = slot]}]
    /\ OnlyGrid

\* setData with whatever load comes; a failed one empties the grid.
GridArrives(l) ==
    /\ l.served
    /\ grid' = [grid EXCEPT !.loads = @ \ {l}, !.loading = FALSE,
                            !.data = [range |-> l.range, cells |-> l.cells]]
    /\ OnlyGrid

GridFails(l) ==
    /\ grid' = [grid EXCEPT !.loads = @ \ {l}, !.loading = FALSE, !.data = None]
    /\ OnlyGrid

-----------------------------------------------------------------------------
(* Dragging. *)

\* The slot that a column and a row stand for in the grid shown now.
SlotAt(p) == <<grid.data.range[1] + p[1] - 1, p[2]>>
InGrid(p) == grid.data # None /\ SlotAt(p)[1] <= grid.data.range[2]
IsPastSlot(s) == s[1] < 0

\* isCellSelectable: shown free and not in the past.
Selectable(p) == InGrid(p) /\ grid.data.cells[SlotAt(p)] = "free" /\ ~IsPastSlot(SlotAt(p))

\* collectSlots: every selectable cell of the rectangle between two corners.
Between(a, b, x) == (a <= x /\ x <= b) \/ (b <= x /\ x <= a)
CollectSlots(a, b) ==
    {SlotAt(p) : p \in {q \in Pos : Between(a[1], b[1], q[1]) /\ Between(a[2], b[2], q[2]) /\ Selectable(q)}}

\* beginDrag: with the mouse at once ...
MouseDown(p) ==
    /\ grid.popup = None /\ grid.drag = None /\ grid.held = None /\ Selectable(p)
    /\ grid' = [grid EXCEPT !.drag = [anchor |-> p, current |-> p]]
    /\ OnlyGrid

\* ... with a finger after it was held; a finger that moves before is scrolling.
TouchStart(p) ==
    /\ grid.popup = None /\ grid.drag = None /\ grid.held = None /\ Selectable(p)
    /\ grid' = [grid EXCEPT !.held = p]
    /\ OnlyGrid

LongPress ==
    /\ grid.held # None
    /\ grid' = [grid EXCEPT !.held = None, !.drag = [anchor |-> grid.held, current |-> grid.held]]
    /\ OnlyGrid

LetGo == grid.held # None /\ grid' = [grid EXCEPT !.held = None] /\ OnlyGrid

\* tick(): the cell under the pointer is the other corner.
MoveTo(p) ==
    /\ grid.drag # None /\ p # grid.drag.current /\ InGrid(p)
    /\ grid' = [grid EXCEPT !.drag.current = p]
    /\ OnlyGrid

\* Escape, or a cancelled touch.
CancelDrag == grid.drag # None /\ grid' = [grid EXCEPT !.drag = None] /\ OnlyGrid

\* finishDrag: the rectangle is read in the grid shown by now; the popup opens
\* with an empty price and the shimmer until its timer fires.
FinishDrag ==
    LET slots == CollectSlots(grid.drag.anchor, grid.drag.current) IN
    /\ grid.drag # None
    /\ grid' = IF slots = {} THEN [grid EXCEPT !.drag = None]
               ELSE [grid EXCEPT !.drag = None, !.price = None, !.edited = FALSE, !.calculating = TRUE,
                       !.popup = [kind |-> "book", slots |-> slots, tab |-> "book"],
                       !.timers = @ \union {Cardinality(slots)}]
    /\ OnlyGrid

-----------------------------------------------------------------------------
(* The popup. *)

\* onInfoCellClick of a booked or closed cell.
OpenInfo(p) ==
    /\ grid.popup = None /\ grid.drag = None /\ InGrid(p) /\ grid.data.cells[SlotAt(p)] # "free"
    /\ grid' = [grid EXCEPT !.popup = [kind |-> "info"]]
    /\ OnlyGrid

\* Mutant: the effect that starts the timer returns no cleanup.
PopupClosedTimerOn(g) == [g EXCEPT !.popup = None, !.calculating = FALSE]

\* closePopup; the effect's cleanup stops the timer of the popup that goes.
PopupClosed(g) == [g EXCEPT !.popup = None, !.calculating = FALSE, !.timers = {}]

\* The backdrop closes it at any time, also while it saves.
ClosePopup == grid.popup # None /\ grid' = PopupClosed(grid) /\ OnlyGrid

FormShown == grid.popup # None /\ grid.popup.kind = "book" /\ ~grid.calculating

\* The timer writes the total into the price field and ends the shimmer.
PriceTimer(n) ==
    /\ n \in grid.timers
    /\ grid' = [grid EXCEPT !.timers = @ \ {n}, !.price = n, !.edited = FALSE, !.calculating = FALSE]
    /\ OnlyGrid

EditPrice == FormShown /\ grid' = [grid EXCEPT !.edited = TRUE] /\ OnlyGrid

SwitchTab ==
    /\ FormShown
    /\ grid' = [grid EXCEPT !.popup.tab = IF @ = "book" THEN "close" ELSE "book"]
    /\ OnlyGrid

\* submitBooking and submitClose with a valid form: disabled while one is saved.
SubmitForm ==
    /\ FormShown /\ grid.save = None
    /\ grid' = [grid EXCEPT !.save = [slots |-> grid.popup.slots, step |-> "asked"]]
    /\ OnlyGrid

\* The server takes all of the slots, or none.
With(cells, s) == [c \in Slot |-> IF c \in s.slots THEN "taken" ELSE cells[c]]
DataWith(data, s) == IF data = None THEN None ELSE [data EXCEPT !.cells = With(@, s)]

ServeSave ==
    /\ grid.save # None /\ grid.save.step = "asked"
    /\ \A s \in grid.save.slots : slot[s] = "free"
    /\ changes < MaxChanges
    /\ changes' = changes + 1
    /\ slot' = With(slot, grid.save)
    /\ grid' = [grid EXCEPT !.save.step = "made"]

\* The cells of the answer are merged into the grid shown, and closePopup closes
\* the popup that is open by now.
SaveArrives ==
    /\ grid.save # None /\ grid.save.step = "made"
    /\ grid' = [PopupClosed(grid) EXCEPT !.save = None, !.data = DataWith(@, grid.save)]
    /\ OnlyGrid

\* Refused or lost: an error is shown and the popup stays.
SaveFails ==
    /\ grid.save # None
    /\ grid' = [grid EXCEPT !.save = None]
    /\ OnlyGrid

\* Somebody else takes a slot.
OthersTake(s) ==
    /\ changes < MaxChanges /\ slot[s] = "free"
    /\ changes' = changes + 1
    /\ slot' = [slot EXCEPT ![s] = "taken"]
    /\ UNCHANGED grid

-----------------------------------------------------------------------------
GridLoadAnswer(n) == \E l \in grid.loads : l.n = n /\ (ServeGrid(l) \/ GridArrives(l) \/ GridFails(l))
GridSaveAnswer == ServeSave \/ SaveArrives \/ SaveFails

GridNext ==
    \/ \E d \in Picked \union {None} : PickFrom(d) \/ PickTo(d)
    \/ Refilter \/ HandleClear \/ \E step \in {-1, 1} : TurnPage(step)
    \/ \E n \in 1..MaxLoads : GridLoadAnswer(n)
    \/ \E p \in Pos : MouseDown(p) \/ TouchStart(p) \/ MoveTo(p) \/ OpenInfo(p)
    \/ LongPress \/ LetGo \/ CancelDrag \/ FinishDrag
    \/ ClosePopup \/ EditPrice \/ SwitchTab \/ SubmitForm
    \/ \E n \in grid.timers : PriceTimer(n)
    \/ GridSaveAnswer
    \/ \E s \in Slot : OthersTake(s)

GridSpec == GridInit /\ [][GridNext]_gridVars

-----------------------------------------------------------------------------
(* What the page promises. *)

\* The price the form proposes is the price of the cells it will book, however
\* fast popups are closed and opened again (BookingGrid.tsx:744-756).
ProposedPriceIsOfTheSlots ==
    FormShown /\ ~grid.edited => grid.price = Cardinality(grid.popup.slots)

\* The shimmers have a load and a timer behind them, however loads overlap and
\* popups come and go.
ShimmerHasCause == /\ grid.loading => grid.loads # {}
                   /\ grid.calculating => grid.timers # {}

=============================================================================
