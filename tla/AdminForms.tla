------------------------------ MODULE AdminForms ------------------------------
(***************************************************************************)
(* The settings forms of the back office, one open at a time in a tab:     *)
(* each loads its part of a configuration row, is edited, and saves. The   *)
(* row belongs to every administrator. Answers find the form as it is by   *)
(* then, or find it left. A secret key of Stripe is tried before anything  *)
(* is saved with it. What the text of a field may be, and the stored       *)
(* object of a logo, are other modules' business.                          *)
(*                                                                         *)
(* Definitions no action refers to are mutated forms of their neighbours.  *)
(***************************************************************************)
EXTENDS Naturals, FiniteSets, Absence

CONSTANTS
    Values,    \* what a part of a row may hold
    Invalid,   \* machine limits with the minimum above the maximum: values of no other part
    Refused,   \* secret keys that Stripe refuses
    Defaults,  \* what a row is created with, and a form before its first answer
    Slots,     \* API calls under way
    MaxMoves,  \* bound: edits by other administrators, and calls that fail
    MaxOpened  \* bound: forms opened

ASSUME FormConstants ==
    /\ Defaults \in Values \ Invalid /\ None \notin Values /\ {MaxMoves, MaxOpened} \subseteq Nat
    /\ Refused \subseteq Values

VARIABLES
    row,      \* the configuration rows, by part
    brand,    \* BrandingService.business: the shell's copy of the business row
    form,     \* the form that is open
    requests, \* API calls under way, by slot
    typed,    \* history: what was typed last, unless it was discarded
    excused,  \* history: what the form shows, or lost, has a cause
    moves,    \* edits by others and failed calls so far
    opened    \* forms opened so far

formVars == <<row, brand, form, requests, typed, excused, moves, opened>>

Business == {"branding", "contact", "payments"}
Kinds == Business \union {"machine", "pricing"}
Parts == Kinds \union {"logo", "secret"}

Request(what, kind, v, k) ==
    [what |-> what, kind |-> kind, value |-> v, secret |-> k, file |-> FALSE, here |-> TRUE, phase |-> "sent",
     config |-> None]
NoRequest == [Request("none", None, None, None) EXCEPT !.here = FALSE, !.phase = "none"]

Blank(kind) ==
    [kind |-> kind, value |-> Defaults, original |-> Defaults, secret |-> None, file |-> FALSE,
     dirty |-> FALSE, saved |-> FALSE, checking |-> FALSE]

FormsInit ==
    /\ row = [p \in Parts |-> IF p \in {"logo", "secret"} THEN None ELSE Defaults]
    /\ brand = [p \in Business |-> Defaults]
    /\ form = Blank("away")
    /\ requests = [s \in Slots |-> NoRequest]
    /\ typed = None
    /\ excused = FALSE
    /\ moves = 0 /\ opened = 0

FreeSlot(s) == requests[s] = NoRequest /\ s = CHOOSE idle \in Slots : requests[idle] = NoRequest

Sent(s, what, v, k) ==
    /\ FreeSlot(s)
    /\ requests' = [requests EXCEPT ![s] = Request(what, form.kind, v, k)]

Mine(s) == requests[s].here
Waiting == {s \in Slots : Mine(s)}
Finished(s) == requests' = [requests EXCEPT ![s] = NoRequest]

-----------------------------------------------------------------------------
(* Opening and editing *)

\* The forms of the business row start from what the shell shows, the others from blanks.
OpenForm(s, kind) ==
    /\ opened < MaxOpened
    /\ opened' = opened + 1
    /\ form' = [Blank(kind) EXCEPT !.value = IF kind \in Business THEN brand[kind] ELSE Defaults]
    /\ FreeSlot(s)
    /\ requests' = [o \in Slots |->
                     CASE o = s -> Request("load", kind, None, None)
                       [] Mine(o) -> [requests[o] EXCEPT !.here = FALSE, !.file = form.file]
                       [] OTHER -> requests[o]]
    /\ typed' = None
    /\ excused' = FALSE
    /\ UNCHANGED <<row, brand, moves>>

\* What is typed while an answer is on its way is lost to it, or taken for saved. On the
\* payments form it also ends the check that keeps the button from a second save.
Edit(v) ==
    /\ form.kind # "away" /\ v # form.value
    /\ v \in Invalid => form.kind = "machine"
    /\ form' = [form EXCEPT !.value = v, !.dirty = TRUE, !.saved = FALSE, !.checking = FALSE]
    /\ typed' = v
    /\ excused' = (excused \/ Waiting # {})
    /\ UNCHANGED <<row, brand, requests, moves, opened>>

TypeSecret(k) ==
    /\ form.kind = "payments" /\ k # form.secret /\ k # Defaults
    /\ form' = [form EXCEPT !.secret = k, !.dirty = TRUE, !.saved = FALSE, !.checking = FALSE]
    /\ UNCHANGED <<row, brand, requests, typed, excused, moves, opened>>

ChooseLogo ==
    /\ form.kind = "branding" /\ ~form.file
    /\ form' = [form EXCEPT !.file = TRUE, !.dirty = TRUE, !.saved = FALSE]
    /\ UNCHANGED <<row, brand, requests, typed, excused, moves, opened>>

Reset ==
    /\ form.kind \in {"machine", "pricing"} /\ form.dirty
    /\ form' = [form EXCEPT !.value = form.original, !.dirty = FALSE, !.saved = FALSE]
    /\ typed' = None
    /\ UNCHANGED <<row, brand, requests, excused, moves, opened>>

\* The button takes a second save while the first is on its way, but on a payments form
\* that nobody has touched since.
Save(s) ==
    /\ form.dirty
    /\ form.kind = "payments" => ~form.checking
    /\ form.kind = "machine" => form.value \notin Invalid
    /\ Sent(s, "save", form.value, form.secret)
    /\ form' = [form EXCEPT !.checking = (form.kind = "payments")]
    /\ excused' = (excused \/ Waiting # {})
    /\ UNCHANGED <<row, brand, typed, moves, opened>>

-----------------------------------------------------------------------------
(* The server *)

ServeLoad(s) ==
    /\ requests[s].what = "load" /\ requests[s].phase = "sent"
    /\ requests' = [requests EXCEPT ![s].phase = "answered", ![s].value = row[requests[s].kind]]
    /\ UNCHANGED <<row, brand, form, typed, excused, moves, opened>>

Respond(s, phase) == requests' = [requests EXCEPT ![s].phase = phase]

\* A save of a form that was left counts as somebody else's.
Reached(s) == excused' = (excused \/ (~Mine(s) /\ requests[s].kind = form.kind))

PutPricing(s) ==
    /\ requests[s].what = "save" /\ requests[s].kind = "pricing" /\ requests[s].phase = "sent"
    /\ row' = [row EXCEPT !["pricing"] = requests[s].value]
    /\ Respond(s, "answered")
    /\ Reached(s)
    /\ UNCHANGED <<brand, form, typed, moves, opened>>

PutMachine(s) ==
    /\ requests[s].what = "save" /\ requests[s].kind = "machine" /\ requests[s].phase = "sent"
    /\ IF requests[s].value \in Invalid
       THEN Respond(s, "failed") /\ UNCHANGED row
       ELSE Respond(s, "answered") /\ row' = [row EXCEPT !["machine"] = requests[s].value]
    /\ Reached(s)
    /\ UNCHANGED <<brand, form, typed, moves, opened>>

\* The answer to a save of the business row, or to a logo, carries the whole row.
RespondConfig(s) ==
    requests' = [requests EXCEPT ![s].phase = "answered", ![s].config = [p \in Business |-> row'[p]]]

\* A new secret key is tried on Stripe first; the whole save is refused with it.
ProbeCredentials(s) ==
    /\ requests[s].what = "save" /\ requests[s].kind \in Business /\ requests[s].phase = "sent"
    /\ Respond(s, IF requests[s].secret \in Refused THEN "failed" ELSE "probed")
    /\ UNCHANGED <<row, brand, form, typed, excused, moves, opened>>

WithSecret(parts, k) == IF k = None THEN parts ELSE [parts EXCEPT !["secret"] = k]

\* Only the parts a form has are saved; a blank secret leaves the stored one alone.
UpdateBusiness(s) ==
    /\ requests[s].phase = "probed"
    /\ row' = WithSecret([row EXCEPT ![requests[s].kind] = requests[s].value], requests[s].secret)
    /\ RespondConfig(s)
    /\ Reached(s)
    /\ UNCHANGED <<brand, form, typed, moves, opened>>

UploadLogo(s) ==
    /\ requests[s].what = "logo" /\ requests[s].phase = "sent"
    /\ row' = [row EXCEPT !["logo"] = Defaults]
    /\ RespondConfig(s)
    /\ UNCHANGED <<brand, form, typed, excused, moves, opened>>

\* Another administrator's save of the part that is open here, through the same checks.
Elsewhere(p, v) ==
    /\ moves < MaxMoves
    /\ p = form.kind /\ row[p] # v
    /\ v \notin Invalid
    /\ moves' = moves + 1
    /\ row' = [row EXCEPT ![p] = v]
    /\ excused' = TRUE
    /\ UNCHANGED <<brand, form, requests, typed, opened>>

\* A call is refused or not delivered, or its answer is lost.
Lost(s) ==
    /\ requests[s].phase \in {"sent", "answered"}
    /\ moves < MaxMoves
    /\ moves' = moves + 1
    /\ Respond(s, "failed")
    /\ UNCHANGED <<row, brand, form, typed, excused, opened>>

-----------------------------------------------------------------------------
(* Answers *)

\* An answer to a form that was left changes what the shell shows, and nothing else.
LoadArrives(s) ==
    /\ requests[s].what = "load" /\ requests[s].phase = "answered"
    /\ form' = IF Mine(s)
               THEN [form EXCEPT !.value = requests[s].value, !.original = requests[s].value]
               ELSE form
    /\ Finished(s)
    /\ UNCHANGED <<row, brand, typed, excused, moves, opened>>

Branded(s) == IF requests[s].kind \in Business THEN requests[s].config ELSE brand

Clean == [form EXCEPT !.dirty = FALSE, !.saved = TRUE, !.checking = FALSE]

\* Machine, pricing and contact adopt what the server answers.
Adopted(s) == [Clean EXCEPT !.value = requests[s].value, !.original = requests[s].value]

SaveArrives(s) ==
    /\ requests[s].what = "save" /\ requests[s].phase = "answered"
    /\ requests[s].kind \in {"contact", "machine", "pricing"}
    /\ form' = IF Mine(s) THEN Adopted(s) ELSE form
    /\ brand' = Branded(s)
    /\ Finished(s)
    /\ UNCHANGED <<row, typed, excused, moves, opened>>

\* The payments form keeps what it shows, and forgets the secret.
PaymentsSaved(s) ==
    /\ requests[s].what = "save" /\ requests[s].phase = "answered"
    /\ requests[s].kind = "payments"
    /\ form' = IF Mine(s) THEN [Clean EXCEPT !.secret = None] ELSE form
    /\ brand' = Branded(s)
    /\ Finished(s)
    /\ UNCHANGED <<row, typed, excused, moves, opened>>

\* Branding is saved when the logo is, if one was chosen; the shell follows then.
BrandingSaved(s) ==
    /\ requests[s].what = "save" /\ requests[s].phase = "answered"
    /\ requests[s].kind = "branding"
    /\ IF (Mine(s) /\ form.file) \/ requests[s].file
       THEN requests' = [requests EXCEPT ![s].what = "logo", ![s].phase = "sent"]
            /\ UNCHANGED <<form, brand>>
       ELSE Finished(s) /\ brand' = Branded(s) /\ form' = IF Mine(s) THEN Clean ELSE form
    /\ UNCHANGED <<row, typed, excused, moves, opened>>

LogoSaved(s) ==
    /\ requests[s].what = "logo" /\ requests[s].phase = "answered"
    /\ form' = IF Mine(s) THEN [Clean EXCEPT !.file = FALSE] ELSE form
    /\ brand' = Branded(s)
    /\ Finished(s)
    /\ UNCHANGED <<row, typed, excused, moves, opened>>

FailsAsSaved(s) ==
    /\ requests[s].phase = "failed"
    /\ form' = IF Mine(s) THEN Clean ELSE form
    /\ Finished(s)
    /\ UNCHANGED <<row, brand, typed, excused, moves, opened>>

Fails(s) ==
    /\ requests[s].phase = "failed"
    /\ form' = IF Mine(s) THEN [form EXCEPT !.checking = FALSE] ELSE form
    /\ Finished(s)
    /\ UNCHANGED <<row, brand, typed, excused, moves, opened>>

FormsNext ==
    \/ \E s \in Slots :
         \/ (\E kind \in Kinds : OpenForm(s, kind)) \/ Save(s)
         \/ ServeLoad(s) \/ PutPricing(s) \/ PutMachine(s)
         \/ ProbeCredentials(s) \/ UpdateBusiness(s) \/ UploadLogo(s) \/ Lost(s)
         \/ LoadArrives(s) \/ SaveArrives(s) \/ PaymentsSaved(s) \/ BrandingSaved(s)
         \/ LogoSaved(s) \/ Fails(s)
    \/ \E v \in Values : Edit(v) \/ TypeSecret(v) \/ (\E p \in Kinds : Elsewhere(p, v))
    \/ ChooseLogo \/ Reset

FormsSpec == FormsInit /\ [][FormsNext]_formVars

-----------------------------------------------------------------------------
(* Properties *)

\* A form that says it is saved shows what the server holds, what was typed last stays in
\* the form until it is discarded, whichever calls fail, and no key is stored that Stripe
\* refused. The exceptions: something was typed or saved while a call of the form was under
\* way (a save before the row has been loaded writes the blanks of the form), or somebody
\* else saved the same part, be it this tab from a form it had left.
FormsAreHonest ==
    /\ form.saved /\ ~form.dirty /\ ~excused => row[form.kind] = form.value
    /\ typed # None /\ ~excused => form.value = typed
    /\ row["secret"] \notin Refused
=============================================================================
