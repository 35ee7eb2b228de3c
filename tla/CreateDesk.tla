----------------------------- MODULE CreateDesk -----------------------------
(***************************************************************************)
(* The page that creates markets (app/(app)/create-predic/page.tsx),       *)
(* rendered for wallets that the services list as creators.  Of the form   *)
(* only the expiry and whether the other fields are filled in right are    *)
(* kept.                                                                   *)
(***************************************************************************)
EXTENDS WebSession

CONSTANT MaxEdits      \* changes of the form, a bound

ASSUME CreateAssumption == MaxEdits \in Nat

VARIABLES
    draft,         \* the form
    edits,         \* how often it was changed
    fieldError,    \* the field that validate named
    feeReads,      \* reads of the creation fee under way, never cancelled
    creationFee,   \* whether the fee is known and shown
    creation,      \* the creation under way: who signs it, and its inputs
    created        \* the markets created from the page

createVars == <<draft, edits, fieldError, feeReads, creationFee, creation, created>>

\* The dates the picker offers: the past seconds of the day included.
Expiries == 0..MaxClock
NoExpiry == -1

EmptyDraft == [filled |-> FALSE, expiry |-> NoExpiry]
NoCreation == [account |-> NoAccount, draft |-> EmptyDraft]
Drafts == [filled : BOOLEAN, expiry : Expiries \cup {NoExpiry}]

CreateTypeOK ==
    /\ draft \in Drafts /\ edits \in 0..MaxEdits
    /\ fieldError \in {"none", "filled", "expiry"}
    /\ feeReads \subseteq Accounts /\ creationFee \in BOOLEAN
    /\ creation \in [account : MaybeAccount, draft : Drafts]
    /\ created \subseteq [account : Accounts, draft : Drafts, at : 0..MaxClock]

InitCreate ==
    /\ draft = EmptyDraft /\ edits = 0 /\ fieldError = "none"
    /\ feeReads = {} /\ creationFee = FALSE
    /\ creation = NoCreation /\ created = {}

\* The effect of a changed wallet reads the creation fee.
CreateReacts ==
    /\ feeReads' = IF address' \in {address, NoAccount} THEN feeReads ELSE feeReads \cup {address'}
    /\ UNCHANGED <<draft, edits, fieldError, creationFee, creation, created>>

FeeArrives ==
    /\ \E a \in feeReads : feeReads' = feeReads \ {a}
    /\ creationFee' \in BOOLEAN          \* a failed read shows no fee
    /\ UNCHANGED <<draft, edits, fieldError, creation, created>>

\* The fields stay open while a creation is under way.
Edit(d) ==
    /\ GateOpen("canCreate") /\ edits < MaxEdits
    /\ draft' = d /\ edits' = edits + 1
    /\ UNCHANGED <<fieldError, feeReads, creationFee, creation, created>>

EditFields == \E b \in BOOLEAN \ {draft.filled} : Edit([draft EXCEPT !.filled = b])
PickExpiry == \E e \in Expiries \ {draft.expiry} : Edit([draft EXCEPT !.expiry = e])

\* validate: the first field that is wrong.
validate ==
    CASE ~draft.filled -> "filled"
      [] draft.filled /\ draft.expiry <= clock -> "expiry"
      [] OTHER -> "none"

\* handleCreate: the values of the render that is clicked are used.
handleCreate ==
    /\ GateOpen("canCreate") /\ creation = NoCreation
    /\ fieldError' = validate
    /\ creation' = IF validate = "none" THEN [account |-> address, draft |-> draft] ELSE creation
    /\ UNCHANGED <<draft, edits, feeReads, creationFee, created>>

\* The factory takes an expiry that is still ahead (validate_config of the
\* registry); what else it asks for can only refuse more.
FactoryTakes(c) == kit = c.account /\ clock < c.draft.expiry

\* The market is created; the form is cleared, whatever was typed meanwhile.
CreationSucceeds ==
    /\ creation # NoCreation /\ FactoryTakes(creation)
    /\ created' = created \cup {[account |-> creation.account, draft |-> creation.draft, at |-> clock]}
    /\ creation' = NoCreation /\ draft' = EmptyDraft
    /\ UNCHANGED <<edits, fieldError, feeReads, creationFee>>

CreationFails ==
    /\ creation # NoCreation
    /\ creation' = NoCreation
    /\ UNCHANGED <<draft, edits, fieldError, feeReads, creationFee, created>>

CreateStep ==
    /\ UNCHANGED sessionVars
    /\ FeeArrives \/ EditFields \/ PickExpiry \/ handleCreate \/ CreationSucceeds \/ CreationFails

\* What was created was allowed when it was: by a listed creator, from a form
\* that was filled in right, with trading still to come.
CreationsAllowed ==
    \A c \in created :
      c.account \in lists["creator"] /\ c.draft.filled /\ c.at < c.draft.expiry
=============================================================================
