-------------------------- MODULE XlmVaultTimeLock --------------------------
(***************************************************************************)
(* The contract implements TimeLock: the pool, the ids and the index of    *)
(* XlmVault behave as boxes that each hold their own money.                *)
(***************************************************************************)
EXTENDS XlmVault

Boxes ==
    [i \in DOMAIN vaults |->
        [holder |-> vaults[i].owner,   amount |-> vaults[i].balance,
         until  |-> vaults[i].unlock,  since  |-> vaults[i].created,
         open   |-> vaults[i].withdrawn]]

Wallets == [t \in Tokens |-> [o \in Owners |-> funds[t][o]]]

Promise == INSTANCE TimeLock WITH
    Holders <- Owners, Assets <- Tokens, NoAsset <- NoToken,
    Purses <- InitFunds, BoxIds <- Ids, MaxTime <- MaxTs,
    asset <- token, purse <- Wallets, box <- Boxes, time <- now

\* Every step of the contract is a step of the promise or none of its business:
\* money moves only as boxes of one holder would let it move.
ImplementsTimeLock == Promise!LockSpec

\* An owner who keeps submitting withdraw is paid out in the end, however often
\* the lock was extended: the pool never lacks the money (push never traps) and
\* no call can take the unlock timestamp out of reach.
EventuallyPaidOut == Promise!EveryBoxOpens
=============================================================================
