----------------------------- MODULE WebSession -----------------------------
(***************************************************************************)
(* The wallet session of dike-web (lib/contexts/wallet.tsx) over the       *)
(* browser wallet (lib/stellar/wallet.ts, external): what the pages take   *)
(* for the connected address, and the permissions fetched for it.          *)
(***************************************************************************)
EXTENDS Integers, FiniteSets

CONSTANTS
    Accounts, NoAccount,
    MaxMoves,            \* what the user does with the wallet, a bound
    MaxClock             \* the last second, a bound

ASSUME SessionAssumption == NoAccount \notin Accounts /\ {MaxMoves, MaxClock} \subseteq Nat

VARIABLES
    kit,          \* the account the wallet has selected
    moves,        \* what the user did with the wallet so far
    lists,        \* the accounts the services know for each role
    clock,        \* the time, of the browser and of the ledger
    address,      \* the address state of the WalletProvider
    stored,       \* sessionStorage
    restoring,    \* the restore on mount: the address wanted, the one the wallet gave
    connecting,   \* the account the wallet dialog returned, network not yet checked
    permFetch,    \* the address whose permissions are being fetched
    permissions   \* the permissions state: for whom, and what they allow

walletVars == <<kit, moves, lists, clock>>
sessionVars == <<kit, moves, lists, clock, address, stored, restoring, connecting, permFetch, permissions>>

MaybeAccount == Accounts \cup {NoAccount}
Roles == {"creator", "member", "admin"}

\* GET /authz: creators and members are on the approved lists, admins are named
\* by the manifest or the governance configuration.
authz(a) ==
    [address |-> a, canCreate |-> a \in lists["creator"], canResolve |-> a # NoAccount,
     canCouncil |-> a \in lists["member"], canAdmin |-> a \in lists["admin"]]

Gates == {"canCreate", "canResolve", "canCouncil", "canAdmin"}
NoPermissions == [address |-> NoAccount, canCreate |-> FALSE, canResolve |-> FALSE,
                  canCouncil |-> FALSE, canAdmin |-> FALSE]
NoRestore == [wanted |-> NoAccount, got |-> NoAccount]

SessionTypeOK ==
    /\ kit \in Accounts /\ moves \in 0..MaxMoves /\ clock \in 0..MaxClock
    /\ lists \in [Roles -> SUBSET Accounts]
    /\ {address, stored, connecting, permFetch} \subseteq MaybeAccount
    /\ restoring \in [wanted : MaybeAccount, got : MaybeAccount]
    /\ permissions.address \in MaybeAccount

\* A page is loaded; an address left in the session is about to be restored.
InitSession ==
    /\ kit \in Accounts /\ moves = 0 /\ clock = 0
    /\ lists \in [Roles -> SUBSET Accounts]
    /\ address = NoAccount
    /\ stored \in MaybeAccount
    /\ restoring = [wanted |-> stored, got |-> NoAccount]
    /\ connecting = NoAccount /\ permFetch = NoAccount
    /\ permissions = NoPermissions

Move == moves < MaxMoves /\ moves' = moves + 1

\* The wallet's owner picks another account in the wallet itself.
SwitchAccount ==
    /\ Move
    /\ kit' \in Accounts \ {kit}
    /\ UNCHANGED <<lists, clock, address, stored, restoring, connecting, permFetch, permissions>>

\* setAddress: when the address changes, the effect of the old one is cancelled
\* and the effect of the new one fetches its permissions.
SetAddress(a) ==
    /\ address' = a
    /\ permFetch' = IF a = address THEN permFetch ELSE a

\* The restore on mount asks the wallet for its address and network ...
RestoreReads ==
    /\ restoring.wanted # NoAccount /\ restoring.got = NoAccount
    /\ restoring' = [restoring EXCEPT !.got = kit]
    /\ UNCHANGED <<walletVars, address, stored, connecting, permFetch, permissions>>

\* ... then takes the address over if it is the one that was stored on mount,
\* whatever was connected meanwhile; another account, another network or an
\* error forgets the stored address.
RestoreApplies ==
    /\ restoring.got # NoAccount
    /\ restoring' = NoRestore
    /\ \/ restoring.got = restoring.wanted /\ SetAddress(restoring.got) /\ UNCHANGED stored
       \/ stored' = NoAccount /\ UNCHANGED <<address, permFetch>>
    /\ UNCHANGED <<walletVars, connecting, permissions>>

\* connect: the dialog returns an account, then the network is checked.
ConnectOpens ==
    /\ address = NoAccount /\ connecting = NoAccount
    /\ Move
    /\ connecting' = kit
    /\ UNCHANGED <<kit, lists, clock, address, stored, restoring, permFetch, permissions>>

ConnectEnds ==
    /\ connecting # NoAccount
    /\ connecting' = NoAccount
    /\ \/ SetAddress(connecting) /\ stored' = connecting
       \/ UNCHANGED <<address, permFetch, stored>>     \* wrong or unknown network
    /\ UNCHANGED <<walletVars, restoring, permissions>>

DisconnectWallet ==
    /\ address # NoAccount /\ Move
    /\ SetAddress(NoAccount)
    /\ stored' = NoAccount /\ permissions' = NoPermissions
    /\ UNCHANGED <<kit, lists, clock, restoring, connecting>>

\* fetchWalletPermissions answers, or fails.
PermissionsArrive ==
    /\ permFetch # NoAccount
    /\ permFetch' = NoAccount
    /\ \/ permissions' = authz(permFetch)
       \/ permissions' = NoPermissions
    /\ UNCHANGED <<walletVars, address, stored, restoring, connecting>>

\* A check that forgets whose permissions were loaded.
permissionsMissing == address # NoAccount /\ permissions.address = NoAccount

permissionsLoading == address # NoAccount /\ permissions.address # address

\* SectionGate: the page behind it is rendered.
GateOpen(gate) == address # NoAccount /\ ~permissionsLoading /\ permissions[gate]

Tick ==
    /\ clock < MaxClock
    /\ clock' = clock + 1
    /\ UNCHANGED <<kit, moves, lists, address, stored, restoring, connecting, permFetch, permissions>>

WalletStep ==
    \/ SwitchAccount \/ RestoreReads \/ RestoreApplies \/ ConnectOpens \/ ConnectEnds
    \/ DisconnectWallet
=============================================================================
