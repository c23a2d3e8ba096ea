------------------------------ MODULE PitchWizard ------------------------------
(***************************************************************************)
(* The wizard in which an owner or an admin enters a pitch                  *)
(* (PitchWizardModal.tsx) and the page that submits it (Owner.tsx,          *)
(* Admin.tsx): four steps, a draft kept in the browser, the address that is *)
(* looked up for the place picked on the map, and the submission, which     *)
(* waits for the lookup and ends when the page has loaded its list again.   *)
(* The photos stand for what "Next" checks in the steps before the last     *)
(* one, the location; prices, amenities and slots are left out.             *)
(***************************************************************************)
EXTENDS Naturals, FiniteSets

CONSTANTS
    None,      \* no draft
    MaxPicks   \* bound: places picked on the map

VARIABLES
    draft,     \* what localStorage holds for this pitch
    wizard     \* the wizard

wizardVars == <<draft, wizard>>

\* A place is the pick that chose it, 0 the one the pitch had before.
Pick == 1..MaxPicks
Place == 0..MaxPicks
Typed == MaxPicks + 1    \* an address that was typed
Blank == MaxPicks + 2    \* no address

Step == {"details", "location"}
Form == [photos : BOOLEAN, place : Place, address : 0..Blank]
Draft == [form : Form, step : Step, reached : BOOLEAN]    \* maxStepReached is the location

\* none: not picked; timer: to be asked in 400 ms; cleared: another pick came first.
Lookup == {"none", "timer", "asked", "cleared", "answered"}

Wizard ==
    [mode : {"create", "edit"}, open : BOOLEAN, restored : BOOLEAN,
     step : Step, reached : BOOLEAN, form : Form, touched : BOOLEAN,
     picks : Place, lookups : [Pick -> Lookup], before : [Pick -> BOOLEAN],
     waiting : [Pick -> 0..2], calls : 0..2, reloading : BOOLEAN, submitting : BOOLEAN,
     doubled : BOOLEAN, crossed : BOOLEAN]    \* history, see the properties

WizardTypeOK == draft \in Draft \union {None} /\ wizard \in Wizard

\* buildBaseline: an empty form, or the pitch that is edited.
Baseline(mode) ==
    [photos |-> mode = "edit", place |-> 0,
     address |-> IF mode = "edit" THEN 0 ELSE Blank]

\* The draft may be of an earlier visit: of a pitch whose photos did not fit.
WizardInit ==
    /\ \E mode \in {"create", "edit"} :
          wizard = [mode |-> mode, open |-> FALSE, restored |-> FALSE, step |-> "details",
                    reached |-> FALSE, form |-> Baseline(mode), touched |-> mode = "edit",
                    picks |-> 0, lookups |-> [p \in Pick |-> "none"], before |-> [p \in Pick |-> FALSE],
                    waiting |-> [p \in Pick |-> 0], calls |-> 0, reloading |-> FALSE, submitting |-> FALSE,
                    doubled |-> FALSE, crossed |-> FALSE]
    /\ draft = None

OnWizard(w) == wizard' = w /\ UNCHANGED draft

\* isMeaningfulSnapshot
Meaningful(form) == form # Baseline(wizard.mode)

\* applyCreateDefaults, applyInitialData: the lookups and the submissions under
\* way are none of its business.
Reset(w) ==
    [w EXCEPT !.step = "details", !.reached = FALSE, !.restored = FALSE, !.form = Baseline(w.mode),
              !.touched = (w.mode = "edit")]

-----------------------------------------------------------------------------
(* Opening, closing and the draft. *)

\* applyDraft: a draft that says something is restored, another one removed.
\* (Its photos become files again first, which takes no time here.)
OpenWizard ==
    /\ ~wizard.open
    /\ IF draft # None /\ Meaningful(draft.form)
       THEN /\ wizard' = [wizard EXCEPT !.open = TRUE, !.restored = TRUE, !.step = draft.step,
                                        !.reached = draft.reached, !.form = draft.form,
                                        !.touched = (draft.form.address # Blank)]
            /\ UNCHANGED draft
       ELSE wizard' = [Reset(wizard) EXCEPT !.open = TRUE] /\ draft' = None

Closed(w) == [Reset(w) EXCEPT !.open = FALSE]

\* handleClose: the cross, Escape, the overlay, or "Cancel" on the first step.
CloseWizard == wizard.open /\ OnWizard(Closed(wizard))

\* discardDraft
StartOver == wizard.open /\ wizard.restored /\ draft' = None /\ wizard' = Reset(wizard)

Here == [form |-> wizard.form, step |-> wizard.step, reached |-> wizard.reached]

\* Half a second after a change.  New photos that do not fit are left out.
SaveDraft ==
    /\ wizard.open /\ draft # Here
    /\ IF Meaningful(wizard.form)
       THEN \E photos \in {wizard.form.photos, wizard.mode = "edit" /\ wizard.form.photos} :
                draft' = [Here EXCEPT !.form.photos = photos]
       ELSE draft' = None
    /\ UNCHANGED wizard

-----------------------------------------------------------------------------
(* The steps. *)

\* handleFilesSelected, removeImage
ChangePhotos == wizard.open /\ wizard.step = "details" /\ OnWizard([wizard EXCEPT !.form.photos = ~@])

\* validateStep
Valid(step, form) ==
    IF step = "details" THEN form.photos ELSE form.address # Blank

GoNext ==
    /\ wizard.open /\ wizard.step = "details" /\ Valid("details", wizard.form)
    /\ OnWizard([wizard EXCEPT !.step = "location", !.reached = TRUE])

GoBack == wizard.open /\ wizard.step = "location" /\ OnWizard([wizard EXCEPT !.step = "details"])

\* goToStep: the tab of a step that was reached, with nothing checked.
GoToStep ==
    /\ wizard.open /\ wizard.step = "details" /\ wizard.reached
    /\ OnWizard([wizard EXCEPT !.step = "location"])

-----------------------------------------------------------------------------
(* The place and its address. *)

\* handleAddressInput
TypeAddress ==
    /\ wizard.open /\ wizard.step = "location"
    /\ \E address \in {Typed, Blank} \ {wizard.form.address} :
          OnWizard([wizard EXCEPT !.form.address = address, !.touched = TRUE])

\* handleLocationSelected: the timer of the pick before it is cleared.
PickPlace ==
    /\ wizard.open /\ wizard.step = "location" /\ wizard.picks < MaxPicks
    /\ LET p == wizard.picks + 1
           cleared == [q \in Pick |-> IF wizard.lookups[q] = "timer" THEN "cleared" ELSE wizard.lookups[q]]
       IN OnWizard([wizard EXCEPT !.picks = p, !.form.place = p, !.before[p] = wizard.touched,
                                          !.lookups = [cleared EXCEPT ![p] = "timer"]])

AskAddress(p) == wizard.lookups[p] = "timer" /\ OnWizard([wizard EXCEPT !.lookups[p] = "asked"])

\* What the answer makes of the address: one that was typed before the place
\* was picked stays; one typed since does not.
\* Mutant: any address stays.
AddressKept(address, found, before, p) == IF address # Blank THEN address ELSE p

AddressAfter(address, found, before, p) ==
    IF found THEN IF before /\ address # Blank THEN address ELSE p
    ELSE IF before \/ address # Blank THEN address ELSE p

\* The answer, to a wizard that may be closed by now, or opened for the next
\* pitch.  What waited for it is submitted, as it was when "Create" was clicked.
AddressArrives(p) ==
    /\ wizard.lookups[p] = "asked" /\ wizard.calls + wizard.waiting[p] <= 2
    /\ \E found \in BOOLEAN :
          LET w == [wizard EXCEPT
                        !.form.address = AddressAfter(@, found, wizard.before[p], p),
                        !.lookups[p] = "answered", !.waiting[p] = 0,
                        !.calls = @ + wizard.waiting[p],
                        !.submitting = @ \/ wizard.waiting[p] > 0,
                        !.crossed = @ \/ ~found \/ p # wizard.form.place]
          IN OnWizard(w)

-----------------------------------------------------------------------------
(* The submission. *)

\* The button, which is disabled while a submission is under way.
CanFinish == wizard.open /\ wizard.step = "location" /\ ~wizard.submitting /\ Valid("location", wizard.form)

LookedUp == wizard.picks # 0 /\ wizard.lookups[wizard.picks] \in {"timer", "asked"}

\* finish: the last step is checked again, the others are not.  It waits for the
\* newest lookup first, and counts as submitting only after that.
Finish ==
    /\ CanFinish /\ wizard.calls < 2
    /\ IF LookedUp
       THEN /\ wizard.waiting[wizard.picks] < 2
            /\ OnWizard([wizard EXCEPT !.waiting[wizard.picks] = @ + 1,
                                       !.doubled = @ \/ \E p \in Pick : wizard.waiting[p] > 0])
       ELSE OnWizard([wizard EXCEPT !.calls = @ + 1, !.submitting = TRUE,
                                    !.doubled = @ \/ \E p \in Pick : wizard.waiting[p] > 0])

\* onSubmit of the page: the pitch is made, the wizard closed, and the list
\* loaded again before the wizard hears of it.
Submitted ==
    /\ wizard.calls > 0 /\ ~wizard.reloading
    /\ OnWizard([wizard EXCEPT !.calls = @ - 1, !.reloading = TRUE, !.open = FALSE])

\* The rest of finish: the draft is cleared, and the wizard is closed and reset,
\* also one that has been opened again meanwhile.
Finished ==
    /\ wizard.reloading
    /\ draft' = None
    /\ wizard' = [Closed(wizard) EXCEPT !.reloading = FALSE, !.submitting = FALSE]

SubmitFails == wizard.calls > 0 /\ OnWizard([wizard EXCEPT !.calls = @ - 1, !.submitting = FALSE])

-----------------------------------------------------------------------------
VisitNext ==
    \/ OpenWizard \/ CloseWizard \/ StartOver
    \/ ChangePhotos \/ GoNext \/ GoBack \/ GoToStep
    \/ TypeAddress \/ PickPlace \/ \E p \in Pick : AskAddress(p) \/ AddressArrives(p)
    \/ Finish \/ Submitted \/ Finished \/ SubmitFails

WizardNext == VisitNext \/ SaveDraft

WizardSpec == WizardInit /\ [][WizardNext]_wizardVars

-----------------------------------------------------------------------------
(* Properties *)

\* A pitch is submitted twice at a time only by a second click while the first
\* waits for the address: "submitting" is set after that wait (finish).
OneSubmissionUnlessWaiting == wizard.calls > 1 => wizard.doubled

\* An address that nobody typed is never that of another place than the one on
\* the map once no lookup is under way, unless a lookup failed or answered for a place that is no
\* longer the one on the map (handleLocationSelected).
AddressIsOfThePlace ==
    \/ ~wizard.open \/ wizard.touched \/ wizard.crossed
    \/ wizard.picks = 0 \/ wizard.form.place # wizard.picks \/ LookedUp
    \/ wizard.form.address \in {wizard.form.place, Blank}

=============================================================================
