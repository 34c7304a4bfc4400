---------------------------- MODULE ProjectBudget ----------------------------
(***************************************************************************)
(* The budget and the wallet of a project.  A paid research request is     *)
(* checked against what the project has spent, makes sure the project has  *)
(* a wallet, runs for minutes, and adds its price only when it is done;    *)
(* plans and retries add theirs without a check.  The wallet is created at *)
(* a provider under the project's id and then bound to the project's row,  *)
(* by the request that created the project or by a paid one.  Whether the  *)
(* provider refuses a second wallet under an id is not for this code to    *)
(* say: the wallets are numbered, and MaxWallets = 1 is one that does.     *)
(*                                                                         *)
(* Any store call may fail: the check then lets the request pass, the      *)
(* charge is dropped, and the request goes on without a wallet.            *)
(***************************************************************************)
EXTENDS Integers, FiniteSets

CONSTANTS
    Paid,               \* requests of POST /research and /research/pro
    Free,               \* requests that are charged and not checked
    creator,            \* the request of POST /projects
    Price, MaxPrice, Cap,
    MaxWallets,         \* bound: wallets the provider makes under the project's id
    MaxExtra,           \* bound: charges without a check
    MaxGlitches,        \* bound: checks that fail open
    MaxMishaps,         \* bound: creations and bindings that go wrong
    MaxCrashes          \* bound: deaths of the process

Requests == Paid \union Free \union {creator}

ASSUME BudgetAssumption ==
    /\ IsFiniteSet(Paid) /\ Paid \cap Free = {} /\ creator \notin Paid \union Free
    /\ MaxPrice \in Nat /\ Price \in [Paid \union Free -> 1..MaxPrice]
    /\ Cap \in Nat \ {0} /\ MaxWallets \in Nat \ {0}
    /\ {MaxExtra, MaxGlitches, MaxMishaps, MaxCrashes} \subseteq Nat

VARIABLES
    at,             \* where each request is
    hand,           \* the wallet a request has created, 0 when there is none
    wallet,         \* the wallet in the project's row
    made,           \* wallets created at the provider so far
    shown,          \* the wallet the creator of the project was shown
    deleted,        \* the project was deleted
    spent,          \* projects.spent_usd
    extra, glitches, mishaps, crashes

requests == <<at, hand>>
purse == <<wallet, made, shown>>
faults == <<glitches, mishaps, crashes>>
vars == <<requests, purse, deleted, spent, extra, faults>>

Init ==
    /\ at = [r \in Requests |-> IF r = creator THEN "wallet" ELSE "idle"]
    /\ hand = [r \in Requests |-> 0]
    /\ wallet = 0 /\ made = 0 /\ shown = 0
    /\ deleted = FALSE
    /\ spent = 0 /\ extra = 0
    /\ glitches = 0 /\ mishaps = 0 /\ crashes = 0

Goto(r, p) == at' = [at EXCEPT ![r] = p]
Mishap == mishaps < MaxMishaps /\ mishaps' = mishaps + 1
------------------------------------------------------------------------------
(* check_project_budget.                                                    *)

\* Variant: the cap is compared with >.
CheckLate(r) ==
    /\ r \in Paid /\ at[r] = "idle"
    /\ \/ (deleted \/ spent <= Cap) /\ UNCHANGED glitches
       \/ glitches < MaxGlitches /\ glitches' = glitches + 1
    /\ Goto(r, "wallet")
    /\ UNCHANGED <<hand, purse, deleted, spent, extra, mishaps, crashes>>

\* A project at its cap is refused.  One that was deleted passes, and so does
\* one that cannot be read.
Check(r) ==
    /\ r \in Paid /\ at[r] = "idle"
    /\ \/ (deleted \/ spent < Cap) /\ UNCHANGED glitches
       \/ glitches < MaxGlitches /\ glitches' = glitches + 1
    /\ Goto(r, "wallet")
    /\ UNCHANGED <<hand, purse, deleted, spent, extra, mishaps, crashes>>
------------------------------------------------------------------------------
(* ensure_project_wallet: what it returns, the creator is shown; a paid     *)
(* request goes on with its work whatever it returns.                       *)

Ensured(r, w) ==
    /\ Goto(r, IF r = creator THEN "over" ELSE "run")
    /\ hand' = [hand EXCEPT ![r] = 0]
    /\ shown' = IF r = creator THEN w ELSE shown

\* Variant: a wallet is created for a project that has one.
LookBlind(r) ==
    /\ at[r] = "wallet"
    /\ \/ Ensured(r, 0)
       \/ ~deleted /\ Goto(r, "create") /\ UNCHANGED <<hand, shown>>
    /\ UNCHANGED <<wallet, made, deleted, spent, extra, faults>>

\* The row has a wallet, or cannot be read; otherwise one is to be created.
Look(r) ==
    /\ at[r] = "wallet"
    /\ \/ wallet # 0 /\ ~deleted /\ Ensured(r, wallet)
       \/ Ensured(r, 0)
       \/ wallet = 0 /\ ~deleted /\ Goto(r, "create") /\ UNCHANGED <<hand, shown>>
    /\ UNCHANGED <<wallet, made, deleted, spent, extra, faults>>

\* Variant: the wallet is returned and left unbound.
CreateOnly(r) ==
    /\ at[r] = "create"
    /\ made < MaxWallets /\ made' = made + 1 /\ Ensured(r, 0)
    /\ UNCHANGED <<wallet, deleted, spent, extra, faults>>

\* Variant: a creation that failed is bound like one that did not.
CreateAnyhow(r) ==
    /\ at[r] = "create"
    /\ Goto(r, "bind")
    /\ \/ /\ made < MaxWallets /\ made' = made + 1
          /\ hand' = [hand EXCEPT ![r] = made'] /\ UNCHANGED mishaps
       \/ Mishap /\ UNCHANGED <<made, hand>>
    /\ UNCHANGED <<wallet, shown, deleted, spent, extra, glitches, crashes>>

\* The provider makes a wallet, or refuses since there is one under the id,
\* which the request may not read in its answer.  The creation may fail,
\* before or after the wallet is there.
Create(r) ==
    /\ at[r] = "create"
    /\ \/ /\ made < MaxWallets /\ made' = made + 1
          /\ hand' = [hand EXCEPT ![r] = made'] /\ Goto(r, "bind")
          /\ UNCHANGED <<shown, mishaps>>
       \/ /\ made > 0
          /\ (Goto(r, "again") /\ UNCHANGED <<hand, shown>>) \/ Ensured(r, 0)
          /\ UNCHANGED <<made, mishaps>>
       \/ /\ Mishap /\ Ensured(r, 0)
          /\ made' \in {made, made + 1} \intersect 0..MaxWallets
    /\ UNCHANGED <<wallet, deleted, spent, extra, glitches, crashes>>

\* Another request was first: its wallet, if it has bound it by now.
Again(r) ==
    /\ at[r] = "again"
    /\ Ensured(r, IF deleted THEN 0 ELSE wallet)
    /\ UNCHANGED <<wallet, made, deleted, spent, extra, faults>>

\* Variant: the wallet is shown though the row could not be written.
BindShown(r) ==
    /\ at[r] = "bind"
    /\ \/ wallet' = hand[r] /\ UNCHANGED mishaps
       \/ Mishap /\ wallet' \in {wallet, hand[r]}
    /\ Ensured(r, hand[r])
    /\ UNCHANGED <<made, deleted, spent, extra, glitches, crashes>>

\* The row is written without a look at what it holds.  A write that fails
\* may have landed.
Bind(r) ==
    /\ at[r] = "bind"
    /\ \/ wallet' = hand[r] /\ Ensured(r, hand[r]) /\ UNCHANGED mishaps
       \/ Mishap /\ Ensured(r, 0) /\ wallet' \in {wallet, hand[r]}
    /\ UNCHANGED <<made, deleted, spent, extra, glitches, crashes>>
------------------------------------------------------------------------------
(* The work and the charge.                                                 *)

\* A plan, or a retry of a debate that was charged before.
Begin(r) ==
    /\ r \in Free /\ at[r] = "idle"
    /\ Goto(r, "run")
    /\ UNCHANGED <<hand, purse, deleted, spent, extra, faults>>

\* Only work that succeeds is charged.
Work(r) ==
    /\ at[r] = "run"
    /\ Goto(r, "charge") \/ Goto(r, "idle")
    /\ UNCHANGED <<hand, purse, deleted, spent, extra, faults>>

\* The price is added atomically, or the failure is swallowed; a deleted
\* project is not charged.
Charge(r) ==
    /\ at[r] = "charge"
    /\ Goto(r, "idle")
    /\ \/ /\ ~deleted /\ spent' = spent + Price[r]
          /\ IF r \in Free THEN extra < MaxExtra /\ extra' = extra + 1 ELSE UNCHANGED extra
       \/ UNCHANGED <<spent, extra>>
    /\ UNCHANGED <<hand, purse, deleted, faults>>

Delete ==
    /\ ~deleted /\ deleted' = TRUE
    /\ UNCHANGED <<requests, purse, spent, extra, faults>>

\* The process dies: no request it was working on goes on.
Crash ==
    /\ crashes < MaxCrashes /\ crashes' = crashes + 1
    /\ at' = [r \in Requests |-> IF r = creator THEN "over" ELSE "idle"]
    /\ hand' = [r \in Requests |-> 0]
    /\ UNCHANGED <<purse, deleted, spent, extra, glitches, mishaps>>
------------------------------------------------------------------------------
Next ==
    \/ \E r \in Requests :
          \/ Check(r) \/ Look(r) \/ Create(r) \/ Again(r) \/ Bind(r)
          \/ Begin(r) \/ Work(r) \/ Charge(r)
    \/ Delete \/ Crash

Spec == Init /\ [][Next]_vars
------------------------------------------------------------------------------
(* Properties.                                                              *)

\* The values each variable ranges over.
TypeOK ==
    /\ at \in [Requests -> {"idle", "wallet", "create", "again", "bind", "run", "charge", "over"}]
    /\ hand \in [Requests -> 0..made]
    /\ \A r \in Requests : at[r] = "bind" <=> hand[r] # 0
    /\ \A r \in Requests : at[r] \in {"run", "charge"} => r # creator
    /\ made \in 0..MaxWallets /\ wallet \in 0..made /\ shown \in 0..made
    /\ deleted \in BOOLEAN
    /\ spent \in Nat /\ extra \in 0..MaxExtra
    /\ glitches \in 0..MaxGlitches /\ mishaps \in 0..MaxMishaps /\ crashes \in 0..MaxCrashes

\* What a project has spent exceeds its cap by no more than the paid requests
\* that can be under way, each of which may have passed the check at the last
\* cent below it, the checks that failed open, and what is charged unchecked.
BudgetHeld ==
    spent <= Cap - 1 + MaxPrice * (Cardinality(Paid) + glitches + extra)

\* The requests that found the row without a wallet and are about to give it
\* one.
Provisioning == {r \in Requests : at[r] \in {"create", "bind"}}

\* The UPDATE that binds a wallet overwrites another only if the provider made
\* two, and only for a request that had found the row empty: once a project
\* has a wallet no further request provisions it, so that the wallet is final
\* when those under way are done, and from the first if there is but one.
WalletKept ==
    [][wallet # 0 =>
          /\ Provisioning' \subseteq Provisioning
          /\ wallet' # wallet =>
                made > 1 /\ \E r \in Provisioning : hand[r] = wallet']_vars

\* The address the creator was shown is the project's, or was until a second
\* wallet took its place.
AddressTruthful == shown # 0 => wallet = shown \/ (wallet # 0 /\ made > 1)

\* A wallet that exists at the provider is the project's, or about to be:
\* only a failed call or a crash leaves it outside the row.
WalletFound ==
    made > 0 /\ wallet = 0 /\ mishaps = 0 /\ crashes = 0
        => \E r \in Requests : at[r] = "bind"
==============================================================================
