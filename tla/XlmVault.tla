------------------------------ MODULE XlmVault ------------------------------
(***************************************************************************)
(* The Soroban contract contracts/xlm_vault/src/lib.rs: a pool of tokens   *)
(* held by one contract address, split into time-locked vaults.            *)
(*                                                                         *)
(* One action per contract entry point.  A contract call is atomic: the    *)
(* host runs one transaction at a time and reverts every write of a call   *)
(* that returns Err or traps, so a failing call only changes `result'.     *)
(* The environment may let ledger time pass and move tokens the owners     *)
(* hold, including straight to the contract address (a donation).          *)
(*                                                                         *)
(* A vault's `name' is left out (no rule of the contract reads it).        *)
(***************************************************************************)
EXTENDS Integers, Sequences

CONSTANTS
    Owners,      \* addresses that authorise calls (require_auth)
    Contract,    \* the address of the contract itself
    Tokens,      \* token contracts that init may be given
    NoToken,     \* DataKey::Token is not set
    InitFunds,   \* what every owner holds of every token at the start
    AmountArgs,  \* the i128 amounts that calls are made with
    MaxAmount,   \* i128::MAX
    MaxTs,       \* u64::MAX, for ledger time and unlock timestamps
    MaxId        \* u64::MAX, for vault ids

ASSUME AddressAssumption == Contract \notin Owners
ASSUME TokenAssumption   == NoToken \notin Tokens
ASSUME FundsAssumption   == InitFunds \in [Tokens -> [Owners -> Nat]]
ASSUME WidthAssumption   == MaxAmount \in Nat /\ MaxTs \in Nat /\ MaxId \in Nat
ASSUME AmountAssumption  == AmountArgs \subseteq (-MaxAmount - 1)..MaxAmount

VARIABLES
    token,    \* instance storage: DataKey::Token
    nextId,   \* instance storage: DataKey::NextId
    vaults,   \* persistent storage: DataKey::Vault(id), as a partial function
    owned,    \* persistent storage: DataKey::Owned(owner)
    funds,    \* the ledgers of the token contracts
    now,      \* env.ledger().timestamp()
    result,   \* the last call: who made it, on which vault, what it returned
    donated   \* history: tokens sent to the contract outside pull()

vars == <<token, nextId, vaults, owned, funds, now, result, donated>>
store == <<token, nextId, vaults, owned, funds>>

Accounts == Owners \cup {Contract}
Vault == [owner: Owners, balance: 0..MaxAmount, unlock: 0..MaxTs,
          created: 0..MaxTs, withdrawn: BOOLEAN]
Outcomes == {"Ok", "Trap", "NotOwner", "StillLocked", "AlreadyWithdrawn",
             "ShortenForbidden", "VaultNotFound", "InvalidAmount",
             "InvalidTimestamp", "AlreadyInitialised"}
Calls == {"none", "init", "create_vault", "deposit", "extend_lock", "withdraw"}

Held == IF token = NoToken THEN 0 ELSE funds[token][Contract]

-----------------------------------------------------------------------------
(* Helpers of the contract and of the token it calls. *)

\* load(): Err(VaultNotFound) when the entry is absent.
Exists(id) == id \in DOMAIN vaults

\* TokenClient::transfer succeeds only with a configured token and cover.
CanTransfer(from, amount) == token # NoToken /\ funds[token][from] >= amount

Moved(t, from, to, amount) ==
    [funds EXCEPT ![t][from] = @ - amount, ![t][to] = @ + amount]

pull(from, amount) == funds' = Moved(token, from, Contract, amount)
push(to, amount)   == funds' = Moved(token, Contract, to, amount)

\* The host's view of a finished call; `value' is what it returned.
Returned(call, c, id, outcome, value) ==
    result' = [call |-> call, by |-> c, id |-> id,
               outcome |-> outcome, value |-> value]

\* Err or trap: every write of the call is rolled back.
Reverted(call, c, id, outcome) ==
    /\ outcome # "Ok"
    /\ Returned(call, c, id, outcome, 0)
    /\ UNCHANGED <<store, now, donated>>

-----------------------------------------------------------------------------
(* The outcome of each call, its checks in the order of the code. *)

InitOutcome_Again == "Ok"    \* mutant: no has(Token) check
InitOutcome == IF token # NoToken THEN "AlreadyInitialised" ELSE "Ok"

CreateOutcome_ZeroAmount(c, amount, unlock) ==    \* mutant: amount < 0
    IF amount < 0 THEN "InvalidAmount"
    ELSE IF unlock <= now THEN "InvalidTimestamp"
    ELSE IF ~CanTransfer(c, amount) THEN "Trap"
    ELSE IF nextId = MaxId THEN "InvalidAmount"
    ELSE "Ok"
CreateOutcome(c, amount, unlock) ==
    IF amount <= 0 THEN "InvalidAmount"
    ELSE IF unlock <= now THEN "InvalidTimestamp"
    ELSE IF ~CanTransfer(c, amount) THEN "Trap"
    ELSE IF nextId = MaxId THEN "InvalidAmount"    \* checked_add(1)
    ELSE "Ok"

\* The guards deposit, extend_lock and withdraw share.
AccessOutcome_WithdrawnToo(c, id) ==    \* mutant: no AlreadyWithdrawn check
    IF ~Exists(id) THEN "VaultNotFound"
    ELSE IF vaults[id].owner # c THEN "NotOwner"
    ELSE "Ok"
AccessOutcome(c, id) ==
    IF ~Exists(id) THEN "VaultNotFound"
    ELSE IF vaults[id].owner # c THEN "NotOwner"
    ELSE IF vaults[id].withdrawn THEN "AlreadyWithdrawn"
    ELSE "Ok"

DepositOutcome(c, id, amount) ==
    IF amount <= 0 THEN "InvalidAmount"
    ELSE IF AccessOutcome(c, id) # "Ok" THEN AccessOutcome(c, id)
    ELSE IF ~CanTransfer(c, amount) THEN "Trap"
    ELSE IF vaults[id].balance + amount > MaxAmount THEN "Trap"  \* overflow-checks
    ELSE "Ok"

ExtendOutcome_Unchecked(c, id, seconds) ==    \* mutant: no checked_add
    IF seconds = 0 THEN "ShortenForbidden" ELSE AccessOutcome(c, id)
ExtendOutcome(c, id, seconds) ==
    IF seconds = 0 THEN "ShortenForbidden"
    ELSE IF AccessOutcome(c, id) # "Ok" THEN AccessOutcome(c, id)
    ELSE IF vaults[id].unlock + seconds > MaxTs THEN "InvalidTimestamp"
    ELSE "Ok"

WithdrawOutcome_AnyTime(c, id) ==    \* mutant: no StillLocked check
    IF AccessOutcome(c, id) # "Ok" THEN AccessOutcome(c, id)
    ELSE IF ~CanTransfer(Contract, vaults[id].balance) THEN "Trap"
    ELSE "Ok"
WithdrawOutcome_LateBound(c, id) ==    \* mutant: now <= unlock is still locked
    IF AccessOutcome(c, id) # "Ok" THEN AccessOutcome(c, id)
    ELSE IF now <= vaults[id].unlock THEN "StillLocked"
    ELSE IF ~CanTransfer(Contract, vaults[id].balance) THEN "Trap"
    ELSE "Ok"
WithdrawOutcome(c, id) ==
    IF AccessOutcome(c, id) # "Ok" THEN AccessOutcome(c, id)
    ELSE IF now < vaults[id].unlock THEN "StillLocked"
    ELSE IF ~CanTransfer(Contract, vaults[id].balance) THEN "Trap"
    ELSE "Ok"

-----------------------------------------------------------------------------
(* The contract's entry points. *)

\* init() asks no authorisation: whoever calls it first picks the token.
init(c, t) ==
    \/ Reverted("init", c, 0, InitOutcome)
    \/ /\ InitOutcome = "Ok"
       /\ token' = t
       /\ nextId' = 0
       /\ Returned("init", c, 0, "Ok", 0)
       /\ UNCHANGED <<vaults, owned, funds, now, donated>>

NewVault(c, amount, unlock) ==
    [owner |-> c, balance |-> amount, unlock |-> unlock,
     created |-> now, withdrawn |-> FALSE]

create_vault_IndexNext(c, amount, unlock) ==    \* mutant: indexes next, not id
    /\ CreateOutcome(c, amount, unlock) = "Ok"
    /\ pull(c, amount)
    /\ nextId' = nextId + 1
    /\ vaults' = [i \in DOMAIN vaults \cup {nextId} |->
                     IF i = nextId THEN NewVault(c, amount, unlock)
                                   ELSE vaults[i]]
    /\ owned' = [owned EXCEPT ![c] = Append(@, nextId + 1)]
    /\ Returned("create_vault", c, nextId, "Ok", nextId)
    /\ UNCHANGED <<token, now, donated>>
create_vault(c, amount, unlock) ==
    \/ Reverted("create_vault", c, nextId, CreateOutcome(c, amount, unlock))
    \/ /\ CreateOutcome(c, amount, unlock) = "Ok"
       /\ pull(c, amount)
       /\ nextId' = nextId + 1
       /\ vaults' = [i \in DOMAIN vaults \cup {nextId} |->
                        IF i = nextId THEN NewVault(c, amount, unlock)
                                      ELSE vaults[i]]
       /\ owned' = [owned EXCEPT ![c] = Append(@, nextId)]
       /\ Returned("create_vault", c, nextId, "Ok", nextId)
       /\ UNCHANGED <<token, now, donated>>

deposit_NoPull(c, id, amount) ==    \* mutant: credits what it never pulled
    /\ DepositOutcome(c, id, amount) = "Ok"
    /\ vaults' = [vaults EXCEPT ![id].balance = @ + amount]
    /\ Returned("deposit", c, id, "Ok", amount)
    /\ UNCHANGED <<token, nextId, owned, funds, now, donated>>
deposit(c, id, amount) ==
    \/ Reverted("deposit", c, id, DepositOutcome(c, id, amount))
    \/ /\ DepositOutcome(c, id, amount) = "Ok"
       /\ pull(c, amount)
       /\ vaults' = [vaults EXCEPT ![id].balance = @ + amount]
       /\ Returned("deposit", c, id, "Ok", amount)
       /\ UNCHANGED <<token, nextId, owned, now, donated>>

extend_lock(c, id, seconds) ==
    \/ Reverted("extend_lock", c, id, ExtendOutcome(c, id, seconds))
    \/ /\ ExtendOutcome(c, id, seconds) = "Ok"
       /\ vaults' = [vaults EXCEPT ![id].unlock = @ + seconds]
       /\ Returned("extend_lock", c, id, "Ok", vaults[id].unlock + seconds)
       /\ UNCHANGED <<token, nextId, owned, funds, now, donated>>

withdraw_KeepsBalance(c, id) ==    \* mutant: the balance is not zeroed
    /\ WithdrawOutcome(c, id) = "Ok"
    /\ vaults' = [vaults EXCEPT ![id].withdrawn = TRUE]
    /\ push(c, vaults[id].balance)
    /\ Returned("withdraw", c, id, "Ok", vaults[id].balance)
    /\ UNCHANGED <<token, nextId, owned, now, donated>>
withdraw(c, id) ==
    \/ Reverted("withdraw", c, id, WithdrawOutcome(c, id))
    \/ /\ WithdrawOutcome(c, id) = "Ok"
       /\ vaults' = [vaults EXCEPT ![id].balance = 0, ![id].withdrawn = TRUE]
       /\ push(c, vaults[id].balance)
       /\ Returned("withdraw", c, id, "Ok", vaults[id].balance)
       /\ UNCHANGED <<token, nextId, owned, now, donated>>

-----------------------------------------------------------------------------
(* The environment: ledgers close, and owners pay each other or donate. *)

Tick ==
    /\ now < MaxTs
    /\ now' = now + 1
    /\ UNCHANGED <<store, result, donated>>

TokenPayment(t, from, to, amount) ==
    /\ from # to
    /\ amount > 0
    /\ funds[t][from] >= amount
    /\ funds' = Moved(t, from, to, amount)
    /\ donated' = [donated EXCEPT ![t] = IF to = Contract THEN @ + amount ELSE @]
    /\ UNCHANGED <<token, nextId, vaults, owned, now, result>>

-----------------------------------------------------------------------------

Init ==
    /\ token = NoToken
    /\ nextId = 0
    /\ vaults = [i \in {} |-> {}]
    /\ owned = [o \in Owners |-> <<>>]
    /\ funds = [t \in Tokens |-> [a \in Accounts |->
                    IF a = Contract THEN 0 ELSE InitFunds[t][a]]]
    /\ now = 0
    /\ result = [call |-> "none", by |-> Contract, id |-> 0,
                 outcome |-> "Ok", value |-> 0]
    /\ donated = [t \in Tokens |-> 0]

Ids == 0..MaxId    \* the ids calls name, the unused ones included

Next ==
    \/ \E c \in Owners :
        \/ \E t \in Tokens : init(c, t)
        \/ \E a \in AmountArgs, u \in 0..MaxTs : create_vault(c, a, u)
        \/ \E id \in Ids :
            \/ \E a \in AmountArgs : deposit(c, id, a)
            \/ \E s \in 0..MaxTs : extend_lock(c, id, s)
            \/ withdraw(c, id)
    \/ Tick
    \/ \E t \in Tokens, from \in Owners, to \in Accounts, a \in AmountArgs :
            TokenPayment(t, from, to, a)

Spec == Init /\ [][Next]_vars

(***************************************************************************)
(* Ledgers keep closing, and an owner who wants the money back keeps       *)
(* submitting withdraw: nothing else is promised by a chain or by a user.  *)
(***************************************************************************)
Fairness ==
    /\ WF_vars(Tick)
    /\ \A c \in Owners, id \in Ids : WF_vars(withdraw(c, id) /\ result'.outcome = "Ok")

FairSpec == Spec /\ Fairness

-----------------------------------------------------------------------------
(* Properties. *)

\* Type invariant of the contract's storage and of the token ledgers.
TypeOK ==
    /\ token \in Tokens \cup {NoToken}
    /\ nextId \in 0..MaxId
    /\ token = NoToken => nextId = 0
    /\ vaults \in [0..(nextId - 1) -> Vault]
    /\ owned \in [Owners -> Seq(0..MaxId)]
    /\ funds \in [Tokens -> [Accounts -> Nat]]
    /\ now \in 0..MaxTs
    /\ result \in [call: Calls, by: Accounts, id: Ids, outcome: Outcomes, value: Nat]
    /\ donated \in [Tokens -> Nat]

\* The running totals of n vault balances: sum[i] is what vaults 0..i-1 hold.
RunningTotal(sum, n, vs) ==
    /\ sum[0] = 0
    /\ \A i \in 0..(n - 1) : sum[i + 1] = sum[i] + vs[i].balance
    /\ \A i, j \in 0..n : i <= j => sum[i] <= sum[j]

\* The pool covers its vaults exactly: what the contract address holds of the
\* configured token is the sum of all vault balances plus what was donated, so
\* no vault can be paid out of another one's money and none of it is stranded;
\* of every other token it holds donations only.
Backed ==
    /\ \A t \in Tokens \ {token} : funds[t][Contract] = donated[t]
    /\ token # NoToken =>
        \E sum \in [0..nextId -> 0..Held] :
            RunningTotal(sum, nextId, vaults) /\ sum[nextId] + donated[token] = Held

\* A vault is emptied exactly when it is withdrawn (create and deposit refuse
\* amounts below 1, withdraw zeroes the balance), and starts locked.
EmptyIffWithdrawn ==
    \A id \in DOMAIN vaults :
        /\ vaults[id].withdrawn <=> vaults[id].balance = 0
        /\ vaults[id].unlock > vaults[id].created

\* list_owned: every owner's index names that owner's vaults, each once, in the
\* order of creation, and nothing else.
IndexMatchesVaults ==
    \A o \in Owners :
        /\ {owned[o][k] : k \in DOMAIN owned[o]}
             = {id \in DOMAIN vaults : vaults[id].owner = o}
        /\ \A j, k \in DOMAIN owned[o] : j < k => owned[o][j] < owned[o][k]

\* withdraw() never traps: once its checks have passed, the pool has the money
\* (the tests only withdraw from a pool that holds a single vault).
WithdrawNeverTraps ==
    result.call = "withdraw" => result.outcome # "Trap"

\* The pool's balance falls only when one unlocked, not yet withdrawn vault is
\* paid out, in full, to its owner.
PaysOnlyUnlockedOwner ==
    [][Held' < Held =>
          \E id \in DOMAIN vaults :
             /\ ~vaults[id].withdrawn /\ vaults'[id].withdrawn
             /\ vaults[id].unlock <= now
             /\ Held - Held' = vaults[id].balance
             /\ funds'[token][vaults[id].owner]
                  = funds[token][vaults[id].owner] + vaults[id].balance
      ]_vars

\* A vault is never removed or handed over, its lock never gets shorter, and
\* once withdrawn it never changes again ("ONLY ever be PUSHED FORWARD").
LockOnlyForward ==
    [][\A id \in DOMAIN vaults :
          /\ id \in DOMAIN vaults'
          /\ vaults'[id].owner = vaults[id].owner
          /\ vaults'[id].created = vaults[id].created
          /\ vaults'[id].unlock >= vaults[id].unlock
          /\ vaults[id].withdrawn => vaults'[id] = vaults[id]
      ]_vars
=============================================================================
