------------------------------ MODULE ProfilePage ------------------------------
(***************************************************************************)
(* ProfilePage.tsx: one load of the user, then forms for the name, the     *)
(* e-mail and the password, an upload of a photo, the change of the phone  *)
(* number in two rounds, and the way out.  Each is saved on its own; what  *)
(* the page shows is whatever answer came last.                            *)
(***************************************************************************)
EXTENDS Integers, FiniteSets

CONSTANTS
    EditForm,     \* forms that are opened, saved and closed: name, email, password
    MaxSave,      \* bound: changes of the user on the server
    MaxPending,   \* bound: requests under way at once
    NoUser        \* nothing loaded

VARIABLES
    user,         \* the server: how often the user's record was changed
    session,      \* localStorage holds a session
    profile       \* the page

profileVars == <<user, session, profile>>

FormState == {"closed", "open", "saving"}
PhoneStage == {"closed", "form", "requesting", "otp", "verifying", "done"}
ProfileKind == EditForm \union {"me", "photo", "requestPhone", "confirmPhone", "logout"}

Profile ==
    [open      : BOOLEAN,                        \* the route is /profile
     loading   : BOOLEAN,
     shown     : (0..MaxSave) \union {NoUser},   \* the user shown
     forms     : [EditForm -> FormState],
     phone     : PhoneStage,
     uploading : (0..MaxSave) \union {NoUser},   \* the user shown when the upload began
     leaving   : BOOLEAN,                        \* loggingOut
     calls     : SUBSET ProfileKind]

ProfileTypeOK == user \in 0..MaxSave /\ session \in BOOLEAN /\ profile \in Profile

ProfileInit ==
    /\ user = 0
    /\ session = TRUE
    /\ profile = [open |-> TRUE, loading |-> TRUE, shown |-> NoUser,
                  forms |-> [f \in EditForm |-> "closed"], phone |-> "closed",
                  uploading |-> NoUser, leaving |-> FALSE, calls |-> {"me"}]

\* A request leaves the page; one of a kind is under way at most.
CanSend(k) == k \notin profile.calls /\ Cardinality(profile.calls) < MaxPending
Sent(page, k) == [page EXCEPT !.calls = @ \union {k}]
Answered(k) == [profile EXCEPT !.calls = @ \ {k}]

\* The skeleton, an error, or the page.
OnProfile == profile.open /\ ~profile.loading /\ profile.shown # NoUser

\* The rows of the profile open a form each; a form closes by its Cancel button
\* unless it is being saved.
ToggleForm(f) ==
    /\ OnProfile /\ profile.forms[f] # "saving"
    /\ profile' = [profile EXCEPT !.forms[f] = IF @ = "open" THEN "closed" ELSE "open"]
    /\ UNCHANGED <<user, session>>

\* handleSaveProfile, handleSaveEmail, handleChangePassword.
SaveForm(f) ==
    /\ OnProfile /\ profile.forms[f] = "open" /\ CanSend(f)
    /\ profile' = Sent([profile EXCEPT !.forms[f] = "saving"], f)
    /\ UNCHANGED <<user, session>>

\* handlePhotoChange: the closure keeps the user shown when the file was chosen.
UploadPhoto ==
    /\ OnProfile /\ profile.uploading = NoUser /\ CanSend("photo")
    /\ profile' = Sent([profile EXCEPT !.uploading = profile.shown], "photo")
    /\ UNCHANGED <<user, session>>

\* PhoneChangeSection: Change phone number and Cancel, Back, and the timer that
\* closes it after its success.
StepPhone(to) ==
    /\ OnProfile
    /\ <<profile.phone, to>> \in {<<"closed", "form">>, <<"form", "closed">>,
                                  <<"otp", "form">>, <<"done", "closed">>}
    /\ profile' = [profile EXCEPT !.phone = to]
    /\ UNCHANGED <<user, session>>

\* handleRequest of a valid number, and handleVerify of its code.
RequestPhone ==
    /\ OnProfile /\ profile.phone = "form" /\ CanSend("requestPhone")
    /\ profile' = Sent([profile EXCEPT !.phone = "requesting"], "requestPhone")
    /\ UNCHANGED <<user, session>>

ConfirmPhone ==
    /\ OnProfile /\ profile.phone = "otp" /\ CanSend("confirmPhone")
    /\ profile' = Sent([profile EXCEPT !.phone = "verifying"], "confirmPhone")
    /\ UNCHANGED <<user, session>>

\* handleLogout; the button is disabled meanwhile, the rest of the page is not.
Logout ==
    /\ OnProfile /\ ~profile.leaving /\ CanSend("logout")
    /\ profile' = Sent([profile EXCEPT !.leaving = TRUE], "logout")
    /\ UNCHANGED <<user, session>>

-----------------------------------------------------------------------------
(* The answers. *)

\* me(): the user is shown as the server has it, or an error instead of the page.
ProfileArrives(ok) ==
    /\ "me" \in profile.calls
    /\ profile' = [Answered("me") EXCEPT !.loading = FALSE, !.shown = IF ok THEN user ELSE NoUser]
    /\ UNCHANGED <<user, session>>

\* A change is made on the server, or the call is refused or lost.
Changed(ok) == IF ok THEN user < MaxSave /\ user' = user + 1 ELSE UNCHANGED user

\* A form is saved: the server's user is shown and the form closes. A form that
\* is not saved stays open with an error.
FormAnswered(f, ok) ==
    /\ f \in profile.calls
    /\ Changed(ok)
    /\ profile' = [Answered(f) EXCEPT
         !.forms[f] = IF ok THEN "closed" ELSE "open",
         !.shown = IF ok /\ f # "password" THEN user + 1 ELSE @]
    /\ UNCHANGED session

\* The photo is saved: what is shown is the old user with the new photo.
PhotoAnswered(ok) ==
    /\ "photo" \in profile.calls
    /\ Changed(ok)
    /\ profile' = [Answered("photo") EXCEPT !.uploading = NoUser,
                     !.shown = IF ok THEN profile.uploading ELSE @]
    /\ UNCHANGED session

\* The code for the new number was sent, or not.
PhoneRequested(ok) ==
    /\ "requestPhone" \in profile.calls
    /\ profile' = [Answered("requestPhone") EXCEPT !.phone = IF ok THEN "otp" ELSE "form"]
    /\ UNCHANGED <<user, session>>

\* The code was right, and the number changed; or the code is asked for again.
PhoneConfirmed(ok) ==
    /\ "confirmPhone" \in profile.calls
    /\ Changed(ok)
    /\ profile' = [Answered("confirmPhone") EXCEPT !.phone = IF ok THEN "done" ELSE "otp",
                     !.shown = IF ok THEN user + 1 ELSE @]
    /\ UNCHANGED session

\* logout() empties the storage in any case; only an accepted one leaves the page.
LoggedOut(ok) ==
    /\ "logout" \in profile.calls
    /\ session' = FALSE
    /\ profile' = [Answered("logout") EXCEPT !.leaving = FALSE, !.open = @ /\ ~ok]
    /\ UNCHANGED user

-----------------------------------------------------------------------------
ProfileAnswer(k) ==
    \E ok \in BOOLEAN :
        \/ k = "me" /\ ProfileArrives(ok)
        \/ k \in EditForm /\ FormAnswered(k, ok)
        \/ k = "photo" /\ PhotoAnswered(ok)
        \/ k = "requestPhone" /\ PhoneRequested(ok)
        \/ k = "confirmPhone" /\ PhoneConfirmed(ok)
        \/ k = "logout" /\ LoggedOut(ok)

ProfileNext ==
    \/ \E f \in EditForm : ToggleForm(f) \/ SaveForm(f)
    \/ UploadPhoto \/ RequestPhone \/ ConfirmPhone \/ Logout
    \/ \E s \in PhoneStage : StepPhone(s)
    \/ \E k \in ProfileKind : ProfileAnswer(k)

ProfileSpec == ProfileInit /\ [][ProfileNext]_profileVars

-----------------------------------------------------------------------------
(* What the page promises. *)

\* No part of the page is busy for nothing: every form that is being saved, the
\* upload, both rounds of the phone change and the way out have their call under
\* way, whatever the server answers and however the calls overlap.
BusyHasCall ==
    /\ \A f \in EditForm : profile.forms[f] = "saving" => f \in profile.calls
    /\ profile.phone = "requesting" => "requestPhone" \in profile.calls
    /\ profile.phone = "verifying" => "confirmPhone" \in profile.calls
    /\ profile.leaving => "logout" \in profile.calls
    /\ profile.uploading # NoUser => "photo" \in profile.calls

=============================================================================
