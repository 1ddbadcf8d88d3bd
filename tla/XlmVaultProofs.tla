--------------------------- MODULE XlmVaultProofs ---------------------------
(***************************************************************************)
(* Proofs, for any number of owners, tokens, vaults and any amounts, of    *)
(* the safety properties of XlmVault, of the promise it implements, and of *)
(* what EventReplay rebuilds from its events.                              *)
(***************************************************************************)
EXTENDS XlmVaultTimeLock, EventReplay, TLAPS

USE AddressAssumption, TokenAssumption, FundsAssumption,
    AmountAssumption, WidthAssumption

-----------------------------------------------------------------------------
(* What a token transfer does to the token's ledger. *)

\* A covered transfer between two accounts keeps every balance a natural number
\* and changes the two accounts only (TokenClient::transfer).
LEMMA MovedLemma ==
    ASSUME funds \in [Tokens -> [Accounts -> Nat]],
           NEW t \in Tokens, NEW from \in Accounts, NEW to \in Accounts, from # to,
           NEW amount \in Nat, funds[t][from] >= amount
    PROVE  /\ Moved(t, from, to, amount) \in [Tokens -> [Accounts -> Nat]]
           /\ Moved(t, from, to, amount)[t][from] = funds[t][from] - amount
           /\ Moved(t, from, to, amount)[t][to] = funds[t][to] + amount
           /\ \A a \in Accounts : a # from /\ a # to =>
                Moved(t, from, to, amount)[t][a] = funds[t][a]
           /\ \A s \in Tokens : s # t => Moved(t, from, to, amount)[s] = funds[s]
  BY DEF Moved

-----------------------------------------------------------------------------
(* Type correctness. *)

\* Every call ends in "Ok", in a trap or in one of the contract's errors.
LEMMA OutcomeLemma ==
    ASSUME NEW c, NEW id, NEW a, NEW u
    PROVE  /\ InitOutcome \in Outcomes
           /\ CreateOutcome(c, a, u) \in Outcomes
           /\ DepositOutcome(c, id, a) \in Outcomes
           /\ ExtendOutcome(c, id, u) \in Outcomes
           /\ WithdrawOutcome(c, id) \in Outcomes
  BY DEF InitOutcome, CreateOutcome, DepositOutcome, ExtendOutcome,
         WithdrawOutcome, AccessOutcome, Outcomes

\* A failing call keeps the types: it only records its outcome.
LEMMA RevertedType ==
    ASSUME TypeOK, NEW call \in Calls, NEW c \in Accounts, NEW id \in Ids,
           NEW o \in Outcomes, Reverted(call, c, id, o)
    PROVE  TypeOK'
  BY DEF TypeOK, Reverted, Returned, store

\* Whoever calls init first, the counter starts at 0 with no vault stored.
LEMMA InitType ==
    ASSUME TypeOK, NEW c \in Owners, NEW t \in Tokens, init(c, t)
    PROVE  TypeOK'
  <1>1. CASE Reverted("init", c, 0, InitOutcome)
    BY <1>1, OutcomeLemma, RevertedType DEF Calls, Accounts, Ids
  <1>2. CASE InitOutcome = "Ok" /\ ~Reverted("init", c, 0, InitOutcome)
    <2>1. /\ token = NoToken
          /\ token' = t /\ nextId' = 0
          /\ UNCHANGED <<vaults, owned, funds, now, donated>>
          /\ Returned("init", c, 0, "Ok", 0)
      BY <1>2 DEF init, InitOutcome
    <2>2. nextId = 0
      BY <2>1 DEF TypeOK
    <2>3. result' \in [call: Calls, by: Accounts, id: Ids, outcome: Outcomes, value: Nat]
      BY <2>1 DEF Returned, Calls, Accounts, Ids, Outcomes
    <2>. QED  BY <2>1, <2>2, <2>3 DEF TypeOK, Ids
  <1>. QED  BY <1>1, <1>2 DEF init

\* What a successful create_vault has checked and done.
LEMMA CreateFacts ==
    ASSUME TypeOK, NEW c \in Owners, NEW a \in AmountArgs, NEW u \in 0..MaxTs,
           CreateOutcome(c, a, u) = "Ok", create_vault(c, a, u)
    PROVE  /\ token \in Tokens
           /\ a \in 1..MaxAmount /\ now < u
           /\ funds[token][c] >= a
           /\ nextId < MaxId /\ nextId' = nextId + 1
           /\ funds' = Moved(token, c, Contract, a)
           /\ vaults' = [i \in 0..nextId |-> IF i = nextId THEN NewVault(c, a, u)
                                                        ELSE vaults[i]]
           /\ owned' = [owned EXCEPT ![c] = Append(@, nextId)]
           /\ result' = [call |-> "create_vault", by |-> c, id |-> nextId,
                         outcome |-> "Ok", value |-> nextId]
           /\ UNCHANGED <<token, now, donated>>
  <1>1. /\ a > 0 /\ u > now /\ CanTransfer(c, a) /\ nextId # MaxId
    BY DEF CreateOutcome, TypeOK
  <1>2. ~Reverted("create_vault", c, nextId, CreateOutcome(c, a, u))
    BY DEF Reverted
  <1>3. DOMAIN vaults \cup {nextId} = 0..nextId
    BY DEF TypeOK
  <1>4. /\ pull(c, a) /\ nextId' = nextId + 1
        /\ vaults' = [i \in DOMAIN vaults \cup {nextId} |->
                        IF i = nextId THEN NewVault(c, a, u) ELSE vaults[i]]
        /\ owned' = [owned EXCEPT ![c] = Append(@, nextId)]
        /\ Returned("create_vault", c, nextId, "Ok", nextId)
        /\ UNCHANGED <<token, now, donated>>
    BY <1>2 DEF create_vault
  <1>5. /\ token \in Tokens /\ funds[token][c] >= a
        /\ a \in 1..MaxAmount /\ nextId < MaxId
    BY <1>1 DEF CanTransfer, TypeOK
  <1>. QED  BY <1>1, <1>3, <1>4, <1>5 DEF pull, Returned

\* A new vault is a vault, and its id joins its owner's index.
LEMMA CreateType ==
    ASSUME TypeOK, NEW c \in Owners, NEW a \in AmountArgs, NEW u \in 0..MaxTs,
           create_vault(c, a, u)
    PROVE  TypeOK'
  <1>1. CASE CreateOutcome(c, a, u) # "Ok"
    <2>1. Reverted("create_vault", c, nextId, CreateOutcome(c, a, u))
      BY <1>1 DEF create_vault
    <2>2. nextId \in Ids
      BY DEF TypeOK, Ids
    <2>. QED  BY <2>1, <2>2, OutcomeLemma, RevertedType DEF Calls, Accounts
  <1>2. CASE CreateOutcome(c, a, u) = "Ok"
    <2>0. /\ token \in Tokens /\ c \in Accounts /\ Contract \in Accounts /\ c # Contract
          /\ a \in 1..MaxAmount /\ a \in Nat /\ now < u /\ now \in 0..MaxTs
          /\ funds[token][c] >= a /\ funds' = Moved(token, c, Contract, a)
      <3>1. /\ token \in Tokens /\ a \in 1..MaxAmount /\ now < u
            /\ funds[token][c] >= a /\ funds' = Moved(token, c, Contract, a)
        BY <1>2, CreateFacts
      <3>2. c \in Accounts /\ Contract \in Accounts /\ c # Contract
        BY DEF Accounts
      <3>. QED  BY <3>1, <3>2 DEF TypeOK
    <2>1. funds' \in [Tokens -> [Accounts -> Nat]]
      <3>1. funds \in [Tokens -> [Accounts -> Nat]]
        BY DEF TypeOK
      <3>. QED  BY <2>0, <3>1, MovedLemma
    <2>2. NewVault(c, a, u) \in Vault
      BY <2>0 DEF NewVault, Vault
    <2>3. vaults' \in [0..nextId -> Vault]
      BY <1>2, <2>2, CreateFacts DEF TypeOK
    <2>4. owned' \in [Owners -> Seq(0..MaxId)]
      <3>1. owned' = [owned EXCEPT ![c] = Append(@, nextId)]
        BY <1>2, CreateFacts
      <3>2. Append(owned[c], nextId) \in Seq(0..MaxId)
        BY DEF TypeOK
      <3>. QED  BY <3>1, <3>2 DEF TypeOK
    <2>5. result' \in [call: Calls, by: Accounts, id: Ids, outcome: Outcomes, value: Nat]
      <3>1. result' = [call |-> "create_vault", by |-> c, id |-> nextId,
                       outcome |-> "Ok", value |-> nextId]
        BY <1>2, CreateFacts
      <3>. QED  BY <2>0, <3>1 DEF TypeOK, Calls, Ids, Outcomes
    <2>6. nextId' \in 0..MaxId /\ nextId' - 1 = nextId
      BY <1>2, CreateFacts DEF TypeOK
    <2>7. token' \in Tokens /\ token' # NoToken
      BY <1>2, CreateFacts
    <2>. QED  BY <1>2, <2>1, <2>3, <2>4, <2>5, <2>6, <2>7, CreateFacts DEF TypeOK, Ids
  <1>. QED  BY <1>1, <1>2

\* What a successful deposit, extend_lock or withdraw has checked.
LEMMA AccessFacts ==
    ASSUME TypeOK, NEW c \in Owners, NEW id \in Ids, AccessOutcome(c, id) = "Ok"
    PROVE  /\ id \in 0..(nextId - 1) /\ id \in DOMAIN vaults
           /\ token \in Tokens
           /\ vaults[id] \in Vault
           /\ vaults[id].owner = c /\ ~vaults[id].withdrawn
  <1>1. id \in DOMAIN vaults /\ vaults[id].owner = c /\ ~vaults[id].withdrawn
    BY DEF AccessOutcome, Exists
  <1>2. id \in 0..(nextId - 1) /\ vaults[id] \in Vault
    BY <1>1 DEF TypeOK
  <1>3. token # NoToken
    BY <1>2 DEF TypeOK
  <1>. QED  BY <1>1, <1>2, <1>3 DEF TypeOK

\* What a successful deposit has checked and done.
LEMMA DepositFacts ==
    ASSUME TypeOK, NEW c \in Owners, NEW id \in Ids, NEW a \in AmountArgs,
           DepositOutcome(c, id, a) = "Ok", deposit(c, id, a)
    PROVE  /\ AccessOutcome(c, id) = "Ok"
           /\ a \in 1..MaxAmount /\ funds[token][c] >= a
           /\ vaults[id].balance + a <= MaxAmount
           /\ funds' = Moved(token, c, Contract, a)
           /\ vaults' = [vaults EXCEPT ![id].balance = @ + a]
           /\ result' = [call |-> "deposit", by |-> c, id |-> id,
                         outcome |-> "Ok", value |-> a]
           /\ UNCHANGED <<token, nextId, owned, now, donated>>
  <1>1. ~(a <= 0) /\ AccessOutcome(c, id) = "Ok" /\ CanTransfer(c, a)
    BY DEF DepositOutcome
  <1>2. vaults[id] \in Vault /\ token \in Tokens
    BY <1>1, AccessFacts
  <1>3. a \in 1..MaxAmount /\ vaults[id].balance \in 0..MaxAmount
    BY <1>1, <1>2 DEF Vault
  <1>4. vaults[id].balance + a <= MaxAmount /\ funds[token][c] >= a
    BY <1>1, <1>3 DEF DepositOutcome, CanTransfer
  <1>5. ~Reverted("deposit", c, id, DepositOutcome(c, id, a))
    BY DEF Reverted
  <1>. QED  BY <1>1, <1>3, <1>4, <1>5 DEF deposit, pull, Returned

\* What a successful extend_lock has checked and done.
LEMMA ExtendFacts ==
    ASSUME TypeOK, NEW c \in Owners, NEW id \in Ids, NEW s \in 0..MaxTs,
           ExtendOutcome(c, id, s) = "Ok", extend_lock(c, id, s)
    PROVE  /\ AccessOutcome(c, id) = "Ok"
           /\ s > 0 /\ vaults[id].unlock + s \in 0..MaxTs
           /\ vaults' = [vaults EXCEPT ![id].unlock = @ + s]
           /\ result' = [call |-> "extend_lock", by |-> c, id |-> id,
                         outcome |-> "Ok", value |-> vaults[id].unlock + s]
           /\ UNCHANGED <<token, nextId, owned, funds, now, donated>>
  <1>1. s # 0 /\ AccessOutcome(c, id) = "Ok" /\ ~(vaults[id].unlock + s > MaxTs)
    BY DEF ExtendOutcome
  <1>2. vaults[id].unlock \in 0..MaxTs
    BY <1>1, AccessFacts DEF Vault
  <1>3. s > 0 /\ vaults[id].unlock + s \in 0..MaxTs
    BY <1>1, <1>2
  <1>4. ~Reverted("extend_lock", c, id, ExtendOutcome(c, id, s))
    BY DEF Reverted
  <1>. QED  BY <1>1, <1>3, <1>4 DEF extend_lock, Returned

\* What a successful withdraw has checked and done.
LEMMA WithdrawFacts ==
    ASSUME TypeOK, NEW c \in Owners, NEW id \in Ids,
           WithdrawOutcome(c, id) = "Ok", withdraw(c, id)
    PROVE  /\ AccessOutcome(c, id) = "Ok"
           /\ vaults[id].unlock <= now
           /\ funds[token][Contract] >= vaults[id].balance
           /\ funds' = Moved(token, Contract, c, vaults[id].balance)
           /\ vaults' = [vaults EXCEPT ![id].balance = 0, ![id].withdrawn = TRUE]
           /\ result' = [call |-> "withdraw", by |-> c, id |-> id,
                         outcome |-> "Ok", value |-> vaults[id].balance]
           /\ UNCHANGED <<token, nextId, owned, now, donated>>
  <1>1. /\ AccessOutcome(c, id) = "Ok" /\ ~(now < vaults[id].unlock)
        /\ CanTransfer(Contract, vaults[id].balance)
    BY DEF WithdrawOutcome
  <1>2. vaults[id].unlock \in 0..MaxTs /\ now \in 0..MaxTs
    BY <1>1, AccessFacts DEF Vault, TypeOK
  <1>3. ~Reverted("withdraw", c, id, WithdrawOutcome(c, id))
    BY DEF Reverted
  <1>. QED  BY <1>1, <1>2, <1>3 DEF withdraw, push, Returned, CanTransfer

\* A covered transfer between an owner and the pool, either way, keeps the
\* token ledgers well typed.
LEMMA PoolTransferType ==
    ASSUME TypeOK, NEW t \in Tokens, NEW c \in Owners, NEW n \in Nat
    PROVE  /\ funds[t][c] >= n =>
                Moved(t, c, Contract, n) \in [Tokens -> [Accounts -> Nat]]
           /\ funds[t][Contract] >= n =>
                Moved(t, Contract, c, n) \in [Tokens -> [Accounts -> Nat]]
  <1>1. c \in Accounts /\ Contract \in Accounts /\ c # Contract
    BY DEF Accounts
  <1>2. funds \in [Tokens -> [Accounts -> Nat]]
    BY DEF TypeOK
  <1>. QED  BY <1>1, <1>2, MovedLemma

\* The amount deposit pulls is the amount it credits; the sum still fits.
LEMMA DepositType ==
    ASSUME TypeOK, NEW c \in Owners, NEW id \in Ids, NEW a \in AmountArgs,
           deposit(c, id, a)
    PROVE  TypeOK'
  <1>1. CASE DepositOutcome(c, id, a) # "Ok"
    BY <1>1, OutcomeLemma, RevertedType DEF deposit, Calls, Accounts
  <1>2. CASE DepositOutcome(c, id, a) = "Ok"
    <2>1. /\ id \in DOMAIN vaults /\ vaults[id] \in Vault /\ token \in Tokens
          /\ a \in 1..MaxAmount /\ a \in Nat /\ funds[token][c] >= a
          /\ funds' = Moved(token, c, Contract, a)
      BY <1>2, DepositFacts, AccessFacts
    <2>2. funds' \in [Tokens -> [Accounts -> Nat]]
      BY <2>1, PoolTransferType
    <2>3. vaults' \in [0..(nextId - 1) -> Vault]
      <3>1. vaults[id].balance + a \in 0..MaxAmount
        BY <1>2, <2>1, DepositFacts DEF Vault
      <3>2. [vaults[id] EXCEPT !.balance = @ + a] \in Vault
        BY <2>1, <3>1 DEF Vault
      <3>3. vaults' = [vaults EXCEPT ![id].balance = @ + a]
        BY <1>2, DepositFacts
      <3>. QED  BY <2>1, <3>2, <3>3 DEF TypeOK
    <2>4. result' \in [call: Calls, by: Accounts, id: Ids, outcome: Outcomes, value: Nat]
      BY <1>2, <2>1, DepositFacts DEF Calls, Accounts, Outcomes
    <2>. QED  BY <1>2, <2>2, <2>3, <2>4, DepositFacts DEF TypeOK
  <1>. QED  BY <1>1, <1>2

\* The pushed-forward unlock timestamp still fits.
LEMMA ExtendType ==
    ASSUME TypeOK, NEW c \in Owners, NEW id \in Ids, NEW s \in 0..MaxTs,
           extend_lock(c, id, s)
    PROVE  TypeOK'
  <1>1. CASE ExtendOutcome(c, id, s) # "Ok"
    BY <1>1, OutcomeLemma, RevertedType DEF extend_lock, Calls, Accounts
  <1>2. CASE ExtendOutcome(c, id, s) = "Ok"
    <2>1. id \in DOMAIN vaults /\ vaults[id] \in Vault
      BY <1>2, ExtendFacts, AccessFacts
    <2>2. vaults' \in [0..(nextId - 1) -> Vault]
      <3>1. vaults[id].unlock + s \in 0..MaxTs
        BY <1>2, ExtendFacts
      <3>2. [vaults[id] EXCEPT !.unlock = @ + s] \in Vault
        BY <2>1, <3>1 DEF Vault
      <3>3. vaults' = [vaults EXCEPT ![id].unlock = @ + s]
        BY <1>2, ExtendFacts
      <3>. QED  BY <2>1, <3>2, <3>3 DEF TypeOK
    <2>3. result' \in [call: Calls, by: Accounts, id: Ids, outcome: Outcomes, value: Nat]
      BY <1>2, ExtendFacts DEF Calls, Accounts, Outcomes
    <2>. QED  BY <1>2, <2>2, <2>3, ExtendFacts DEF TypeOK
  <1>. QED  BY <1>1, <1>2

\* The pool is debited by what it holds for the vault, never below zero.
LEMMA WithdrawType ==
    ASSUME TypeOK, NEW c \in Owners, NEW id \in Ids, withdraw(c, id)
    PROVE  TypeOK'
  <1>1. CASE WithdrawOutcome(c, id) # "Ok"
    BY <1>1, OutcomeLemma, RevertedType DEF withdraw, Calls, Accounts
  <1>2. CASE WithdrawOutcome(c, id) = "Ok"
    <2>1. /\ id \in DOMAIN vaults /\ vaults[id] \in Vault /\ token \in Tokens
          /\ funds[token][Contract] >= vaults[id].balance
          /\ funds' = Moved(token, Contract, c, vaults[id].balance)
      BY <1>2, WithdrawFacts, AccessFacts
    <2>2. vaults[id].balance \in Nat
      BY <2>1 DEF Vault
    <2>3. funds' \in [Tokens -> [Accounts -> Nat]]
      BY <2>1, <2>2, PoolTransferType
    <2>4. vaults' \in [0..(nextId - 1) -> Vault]
      <3>1. [vaults[id] EXCEPT !.balance = 0, !.withdrawn = TRUE] \in Vault
        <4>1. [vaults[id] EXCEPT !.balance = 0] \in Vault
          BY <2>1 DEF Vault
        <4>. QED  BY <2>1, <4>1 DEF Vault
      <3>2. vaults' = [vaults EXCEPT ![id].balance = 0, ![id].withdrawn = TRUE]
        BY <1>2, WithdrawFacts
      <3>. QED  BY <2>1, <3>1, <3>2 DEF TypeOK
    <2>5. result' \in [call: Calls, by: Accounts, id: Ids, outcome: Outcomes, value: Nat]
      <3>1. result' = [call |-> "withdraw", by |-> c, id |-> id,
                       outcome |-> "Ok", value |-> vaults[id].balance]
        BY <1>2, WithdrawFacts
      <3>. QED  BY <2>2, <3>1 DEF Calls, Accounts, Outcomes
    <2>. QED  BY <1>2, <2>3, <2>4, <2>5, WithdrawFacts DEF TypeOK
  <1>. QED  BY <1>1, <1>2

\* The environment moves tokens between accounts and lets time pass.
LEMMA EnvironmentType ==
    ASSUME TypeOK,
           \/ Tick
           \/ \E t \in Tokens, from \in Owners, to \in Accounts, a \in AmountArgs :
                TokenPayment(t, from, to, a)
    PROVE  TypeOK'
  <1>1. CASE Tick
    BY <1>1 DEF Tick, store, TypeOK
  <1>2. ASSUME NEW t \in Tokens, NEW from \in Owners, NEW to \in Accounts,
               NEW a \in AmountArgs, TokenPayment(t, from, to, a)
        PROVE  TypeOK'
    <2>1. /\ from \in Accounts /\ from # to /\ a \in Nat /\ funds[t][from] >= a
          /\ funds' = Moved(t, from, to, a)
      BY <1>2 DEF TokenPayment, Accounts
    <2>2. funds' \in [Tokens -> [Accounts -> Nat]]
      BY <2>1, MovedLemma DEF TypeOK
    <2>3. donated' \in [Tokens -> Nat]
      BY <1>2, <2>1 DEF TokenPayment, TypeOK
    <2>. QED  BY <1>2, <2>2, <2>3 DEF TokenPayment, TypeOK
  <1>. QED  BY <1>1, <1>2

\* The contract's storage, the ledgers and the recorded outcome keep their types.
THEOREM TypeCorrect == Spec => []TypeOK
  <1>1. Init => TypeOK
    <2>. SUFFICES ASSUME Init PROVE TypeOK
      OBVIOUS
    <2>1. vaults \in [0..(nextId - 1) -> Vault]
      BY DEF Init
    <2>2. owned \in [Owners -> Seq(0..MaxId)]
      BY DEF Init
    <2>3. result \in [call: Calls, by: Accounts, id: Ids, outcome: Outcomes, value: Nat]
      BY DEF Init, Calls, Accounts, Ids, Outcomes
    <2>4. funds \in [Tokens -> [Accounts -> Nat]] /\ donated \in [Tokens -> Nat]
      BY DEF Init, Accounts
    <2>. QED  BY <2>1, <2>2, <2>3, <2>4 DEF Init, TypeOK
  <1>2. TypeOK /\ [Next]_vars => TypeOK'
    <2>1. TypeOK /\ UNCHANGED vars => TypeOK'
      BY DEF TypeOK, vars
    <2>. QED  BY <2>1, InitType, CreateType, DepositType, ExtendType, WithdrawType,
                 EnvironmentType DEF Next
  <1>. QED  BY <1>1, <1>2, PTL DEF Spec

-----------------------------------------------------------------------------
(***************************************************************************)
(* The pool covers its vaults.  A sum over the vaults would need induction *)
(* over their number; the running totals that Backed asks for are instead  *)
(* rebuilt at each step from those of the state before.                    *)
(***************************************************************************)

\* The running totals a state needs, with the pool's holdings named.
Covered(sum, held) ==
    /\ sum \in [0..nextId -> 0..held]
    /\ RunningTotal(sum, nextId, vaults)
    /\ sum[nextId] + donated[token] = held

\* A step that leaves the vaults and the contract's holdings alone.
LEMMA BackedUnchanged ==
    ASSUME Backed, UNCHANGED <<token, nextId, vaults, funds, donated>>
    PROVE  Backed'
  BY DEF Backed, RunningTotal, Held

\* init: no vault exists yet, and all the contract may hold was donated.
LEMMA BackedInit ==
    ASSUME TypeOK, Backed, NEW c \in Owners, NEW t \in Tokens, init(c, t)
    PROVE  Backed'
  <1>1. CASE Reverted("init", c, 0, InitOutcome)
    BY <1>1, BackedUnchanged DEF Reverted, store
  <1>2. CASE ~Reverted("init", c, 0, InitOutcome)
    <2>1. /\ token = NoToken /\ token' = t /\ nextId' = 0
          /\ UNCHANGED <<vaults, funds, donated>>
      BY <1>2 DEF init, InitOutcome
    <2>2. \A s \in Tokens : funds[s][Contract] = donated[s]
      BY <2>1 DEF Backed
    <2>3. Held' = donated'[token'] /\ Held' \in Nat
      BY <2>1, <2>2 DEF Held, TypeOK
    <2>4. \E sum \in [0..nextId' -> 0..Held'] :
             RunningTotal(sum, nextId', vaults') /\ sum[nextId'] + donated'[token'] = Held'
      <3>. DEFINE zero == [i \in 0..nextId' |-> 0]
      <3>1. zero \in [0..nextId' -> 0..Held']
        BY <2>1, <2>3
      <3>2. RunningTotal(zero, nextId', vaults')
        BY <2>1 DEF RunningTotal
      <3>3. zero[nextId'] + donated'[token'] = Held'
        BY <2>1, <2>3
      <3>. QED  BY <3>1, <3>2, <3>3
    <2>. QED  BY <2>1, <2>2, <2>4 DEF Backed
  <1>. QED  BY <1>1, <1>2

\* create_vault appends one running total.
LEMMA BackedCreate ==
    ASSUME TypeOK, Backed, NEW c \in Owners, NEW a \in AmountArgs,
           NEW u \in 0..MaxTs, create_vault(c, a, u)
    PROVE  Backed'
  <1>1. CASE CreateOutcome(c, a, u) # "Ok"
    BY <1>1, BackedUnchanged DEF create_vault, Reverted, store
  <1>2. CASE CreateOutcome(c, a, u) = "Ok"
    <2>1. /\ token \in Tokens /\ a \in 1..MaxAmount /\ a \in Nat
          /\ funds[token][c] >= a /\ funds' = Moved(token, c, Contract, a)
          /\ nextId' = nextId + 1 /\ UNCHANGED <<token, donated>>
      BY <1>2, CreateFacts
    <2>2. vaults' = [i \in 0..nextId |-> IF i = nextId THEN NewVault(c, a, u)
                                                      ELSE vaults[i]]
      BY <1>2, CreateFacts
    <2>3. /\ nextId \in Nat /\ token # NoToken
          /\ Held = funds[token][Contract] /\ Held \in Nat
      BY <2>1 DEF Held, TypeOK, Accounts
    <2>4. /\ Held' = Held + a
          /\ \A s \in Tokens \ {token} : funds'[s][Contract] = funds[s][Contract]
      <3>1. c \in Accounts /\ Contract \in Accounts /\ c # Contract
        BY DEF Accounts
      <3>2. funds \in [Tokens -> [Accounts -> Nat]]
        BY DEF TypeOK
      <3>. QED  BY <2>1, <2>3, <3>1, <3>2, MovedLemma DEF Held
    <2>5. PICK sum : Covered(sum, Held)
      BY <2>3 DEF Backed, Covered
    <2>. DEFINE new == [i \in 0..nextId' |-> IF i = nextId + 1 THEN sum[nextId] + a
                                                           ELSE sum[i]]
    <2>6. new \in [0..nextId' -> 0..Held']
      BY <2>1, <2>3, <2>4, <2>5 DEF Covered
    <2>7. RunningTotal(new, nextId', vaults')
      <3>1. /\ \A k \in 0..nextId : new[k] = sum[k] /\ sum[k] \in Nat
            /\ new[nextId + 1] = sum[nextId] + a
            /\ nextId' - 1 = nextId
        <4>1. sum \in [0..nextId -> 0..Held] /\ Held \in Nat /\ nextId \in Nat
          BY <2>3, <2>5 DEF Covered
        <4>2. nextId' = nextId + 1
          BY <2>1
        <4>. QED  BY <4>1, <4>2
      <3>. HIDE DEF new
      <3>2. new[0] = 0
        <4>1. sum[0] = 0 /\ 0 \in 0..nextId
          BY <2>3, <2>5 DEF Covered, RunningTotal
        <4>. QED  BY <3>1, <4>1
      <3>3. \A i \in 0..(nextId' - 1) : new[i + 1] = new[i] + vaults'[i].balance
        <4>. SUFFICES ASSUME NEW i \in 0..nextId
                      PROVE  new[i + 1] = new[i] + vaults'[i].balance
          BY <3>1
        <4>1. CASE i = nextId
          <5>1. vaults'[i].balance = a
            BY <4>1, <2>2, <2>3 DEF NewVault
          <5>. QED  BY <4>1, <5>1, <3>1, <2>3
        <4>2. CASE i \in 0..(nextId - 1)
          <5>1. vaults'[i] = vaults[i]
            BY <4>2, <2>2, <2>3
          <5>2. sum[i + 1] = sum[i] + vaults[i].balance
            BY <4>2, <2>5 DEF Covered, RunningTotal
          <5>3. i \in 0..nextId /\ i + 1 \in 0..nextId
            BY <4>2, <2>3
          <5>. QED  BY <5>1, <5>2, <5>3, <3>1
        <4>. QED  BY <4>1, <4>2, <2>3
      <3>4. \A i, j \in 0..nextId' : i <= j => new[i] <= new[j]
        <4>. SUFFICES ASSUME NEW i \in 0..(nextId + 1), NEW j \in 0..(nextId + 1), i <= j
                      PROVE  new[i] <= new[j]
          BY <2>1
        <4>1. CASE j \in 0..nextId
          <5>1. i \in 0..nextId /\ sum[i] <= sum[j]
            BY <4>1, <2>3, <2>5 DEF Covered, RunningTotal
          <5>. QED  BY <4>1, <5>1, <3>1
        <4>2. CASE j = nextId + 1 /\ i \in 0..nextId
          <5>1. sum[i] <= sum[nextId]
            BY <4>2, <2>3, <2>5 DEF Covered, RunningTotal
          <5>. QED  BY <4>2, <5>1, <3>1, <2>1, <2>3
        <4>3. CASE j = nextId + 1 /\ i = nextId + 1
          BY <4>3, <3>1, <2>1, <2>3
        <4>. QED  BY <4>1, <4>2, <4>3, <2>3
      <3>. QED  BY <3>2, <3>3, <3>4 DEF RunningTotal
    <2>8. new[nextId'] + donated'[token'] = Held'
      <3>1. sum[nextId] \in Nat /\ donated[token] \in Nat
        BY <2>1, <2>3, <2>5 DEF Covered, TypeOK
      <3>. QED  BY <3>1, <2>1, <2>3, <2>4, <2>5 DEF Covered
    <2>. QED  BY <2>1, <2>4, <2>6, <2>7, <2>8 DEF Backed
  <1>. QED  BY <1>1, <1>2

\* Of n vaults with running totals sum, all covered by h, the one at id gains or
\* loses d: vs are the vaults before and ws those after.
OneVaultMoves(n, h, d, vs, ws, id, sum) ==
    /\ h + d \in Nat
    /\ \A i \in 0..(n - 1) : vs[i].balance \in Nat
    /\ \A i \in 0..(n - 1) : i # id => ws[i].balance = vs[i].balance
    /\ ws[id].balance = vs[id].balance + d
    /\ ws[id].balance \in Nat
    /\ sum \in [0..n -> 0..h]
    /\ RunningTotal(sum, n, vs)

\* Holdings h cover n vaults that sum up to total.
Covers(h, n, vs, total) ==
    \E sum \in [0..n -> 0..h] : RunningTotal(sum, n, vs) /\ sum[n] = total

\* The totals up to that vault stay, those above it move by d, and a pool that
\* holds d more (or less) still covers them all.
LEMMA ShiftedTotals ==
    ASSUME NEW n \in Nat, NEW h \in Nat, NEW d \in Int, NEW id \in 0..(n - 1),
           NEW vs, NEW ws, NEW sum,
           OneVaultMoves(n, h, d, vs, ws, id, sum)
    PROVE  Covers(h + d, n, ws, sum[n] + d)
  <1>. DEFINE new == [i \in 0..n |-> IF i <= id THEN sum[i] ELSE sum[i] + d]
  <1>1. /\ sum \in [0..n -> 0..h] /\ RunningTotal(sum, n, vs)
        /\ \A i \in 0..(n - 1) : vs[i].balance \in Nat
        /\ \A i \in 0..(n - 1) : i # id => ws[i].balance = vs[i].balance
        /\ ws[id].balance = vs[id].balance + d /\ ws[id].balance \in Nat
    BY DEF OneVaultMoves
  <1>2. \A i \in 0..n : sum[i] \in Int /\ 0 <= sum[i] /\ sum[i] <= h
    <2>1. ASSUME NEW i \in 0..n PROVE sum[i] \in 0..h
      BY <1>1
    <2>. QED  BY <2>1
  <1>3. /\ \A i, j \in 0..n : i <= j => sum[i] <= sum[j]
        /\ \A i \in 0..(n - 1) : sum[i + 1] = sum[i] + vs[i].balance
        /\ sum[0] = 0
    BY <1>1 DEF RunningTotal
  <1>4. /\ id \in 0..n /\ id + 1 \in 0..n /\ id \in Int
        /\ sum[id + 1] = sum[id] + vs[id].balance
        /\ vs[id].balance \in Int /\ vs[id].balance >= 0 /\ vs[id].balance + d >= 0
    <2>1. id \in 0..n /\ id + 1 \in 0..n /\ id \in Int
      OBVIOUS
    <2>2. sum[id + 1] = sum[id] + vs[id].balance
      BY <1>3
    <2>3. vs[id].balance \in Nat /\ vs[id].balance + d \in Nat
      BY <1>1
    <2>. QED  BY <2>1, <2>2, <2>3
  <1>5. /\ \A i \in 0..n : i <= id => new[i] = sum[i]
        /\ \A i \in 0..n : i > id => new[i] = sum[i] + d
    OBVIOUS
  <1>6. ASSUME NEW i \in 0..n
        PROVE  /\ i <= id => sum[i] <= sum[id]
               /\ i > id => sum[id + 1] <= sum[i]
    <2>1. i > id => id + 1 <= i
      BY <1>4
    <2>. QED  BY <1>3, <1>4, <2>1
  <1>7. ASSUME NEW i \in 0..n PROVE new[i] \in 0..(h + d)
    <2>1. /\ sum[i] \in Int /\ 0 <= sum[i] /\ sum[i] <= h
          /\ sum[id] \in Int /\ 0 <= sum[id]
          /\ sum[id + 1] \in Int /\ sum[id + 1] <= h
      BY <1>2, <1>4
    <2>. HIDE DEF new
    <2>2. CASE i <= id
      <3>1. new[i] = sum[i] /\ sum[i] <= sum[id]
        BY <1>5, <1>6, <2>2
      <3>. QED  BY <1>4, <2>1, <3>1
    <2>3. CASE i > id
      <3>1. new[i] = sum[i] + d /\ sum[id + 1] <= sum[i]
        BY <1>5, <1>6, <2>3
      <3>. QED  BY <1>4, <2>1, <3>1
    <2>. QED  BY <1>4, <2>2, <2>3
  <1>8. new \in [0..n -> 0..(h + d)]
    BY <1>7
  <1>. HIDE DEF new
  <1>9. new[0] = 0 /\ new[n] = sum[n] + d
    <2>1. 0 \in 0..n /\ n \in 0..n /\ 0 <= id /\ n > id
      OBVIOUS
    <2>. QED  BY <1>3, <1>5, <2>1
  <1>10. ASSUME NEW i \in 0..(n - 1) PROVE new[i + 1] = new[i] + ws[i].balance
    <2>1. i \in 0..n /\ i + 1 \in 0..n /\ i \in Int
      OBVIOUS
    <2>2. /\ sum[i + 1] = sum[i] + vs[i].balance
          /\ sum[i] \in Int /\ vs[i].balance \in Int
      <3>1. vs[i].balance \in Int
        BY <1>1
      <3>. QED  BY <1>2, <1>3, <2>1, <3>1
    <2>3. CASE i < id
      <3>1. i <= id /\ i + 1 <= id /\ i # id
        BY <1>4, <2>1, <2>3
      <3>2. new[i] = sum[i] /\ new[i + 1] = sum[i + 1]
        BY <1>5, <2>1, <3>1
      <3>3. ws[i].balance = vs[i].balance
        BY <1>1, <3>1
      <3>. QED  BY <2>2, <3>2, <3>3
    <2>4. CASE i = id
      <3>1. i <= id /\ i + 1 > id
        BY <1>4, <2>1, <2>4
      <3>2. new[i] = sum[i] /\ new[i + 1] = sum[i + 1] + d
        BY <1>5, <2>1, <3>1
      <3>3. ws[i].balance = vs[i].balance + d
        BY <1>1, <2>4
      <3>. QED  BY <2>2, <3>2, <3>3
    <2>5. CASE i > id
      <3>1. i > id /\ i + 1 > id /\ i # id
        BY <1>4, <2>1, <2>5
      <3>2. new[i] = sum[i] + d /\ new[i + 1] = sum[i + 1] + d
        BY <1>5, <2>1, <3>1
      <3>3. ws[i].balance = vs[i].balance
        BY <1>1, <3>1
      <3>. QED  BY <2>2, <3>2, <3>3
    <2>. QED  BY <1>4, <2>1, <2>3, <2>4, <2>5
  <1>11. ASSUME NEW i \in 0..n, NEW j \in 0..n, i <= j PROVE new[i] <= new[j]
    <2>1. i \in Int /\ j \in Int
      OBVIOUS
    <2>2. sum[i] <= sum[j] /\ sum[i] \in Int /\ sum[j] \in Int
      BY <1>2, <1>3, <1>11
    <2>3. CASE j <= id
      <3>1. i <= id
        BY <1>4, <1>11, <2>1, <2>3
      <3>. QED  BY <1>5, <2>2, <2>3, <3>1
    <2>4. CASE i > id
      <3>1. j > id
        BY <1>4, <1>11, <2>1, <2>4
      <3>2. new[i] = sum[i] + d /\ new[j] = sum[j] + d
        BY <1>5, <2>4, <3>1
      <3>. QED  BY <2>2, <3>2
    <2>5. CASE i <= id /\ j > id
      <3>1. new[i] = sum[i] /\ new[j] = sum[j] + d
        BY <1>5, <2>5
      <3>2. sum[i] <= sum[id] /\ sum[id + 1] <= sum[j]
        BY <1>6, <2>5
      <3>3. sum[id] \in Int /\ sum[id + 1] \in Int
        BY <1>2, <1>4
      <3>. QED  BY <1>4, <2>2, <3>1, <3>2, <3>3
    <2>. QED  BY <1>4, <2>1, <2>3, <2>4, <2>5
  <1>12. RunningTotal(new, n, ws)
    BY <1>9, <1>10, <1>11 DEF RunningTotal
  <1>. QED  BY <1>8, <1>9, <1>12 DEF Covers

\* Every vault balance is a natural number, and Held is the pool once init ran.
LEMMA PoolFacts ==
    ASSUME TypeOK, token \in Tokens
    PROVE  /\ \A i \in 0..(nextId - 1) : vaults[i].balance \in Nat
           /\ Held = funds[token][Contract] /\ Held \in Nat
           /\ nextId \in Nat /\ donated[token] \in Nat
  <1>1. ASSUME NEW i \in 0..(nextId - 1) PROVE vaults[i].balance \in Nat
    <2>1. vaults[i] \in Vault
      BY DEF TypeOK
    <2>. QED  BY <2>1 DEF Vault
  <1>2. Held = funds[token][Contract] /\ Held \in Nat
    BY DEF TypeOK, Held, Accounts
  <1>3. nextId \in Nat /\ donated[token] \in Nat
    BY DEF TypeOK
  <1>. QED  BY <1>1, <1>2, <1>3

\* One vault's balance moves by d, and the pool's holdings follow.
PoolShifts(id, d) ==
    /\ vaults'[id].balance = vaults[id].balance + d
    /\ \A i \in 0..(nextId - 1) : i # id => vaults'[i].balance = vaults[i].balance
    /\ Held' = Held + d
    /\ \A s \in Tokens \ {token} : funds'[s][Contract] = funds[s][Contract]
    /\ UNCHANGED <<token, nextId, donated>>

\* Such a change keeps the pool backed.
LEMMA BackedShift ==
    ASSUME TypeOK, TypeOK', Backed, token \in Tokens,
           NEW id \in 0..(nextId - 1), NEW d \in Int, PoolShifts(id, d)
    PROVE  Backed'
  <1>1. PICK sum :
           /\ sum \in [0..nextId -> 0..Held]
           /\ RunningTotal(sum, nextId, vaults) /\ sum[nextId] + donated[token] = Held
    BY DEF Backed
  <1>2. /\ Held \in Nat /\ Held + d \in Nat /\ nextId \in Nat /\ donated[token] \in Nat
        /\ \A i \in 0..(nextId - 1) : vaults[i].balance \in Nat
        /\ vaults'[id].balance \in Nat
    <2>1. Held' \in Nat /\ Held' = Held + d
      BY DEF TypeOK, Held, Accounts, PoolShifts
    <2>2. vaults'[id] \in Vault
      BY DEF TypeOK, PoolShifts
    <2>3. vaults'[id].balance \in Nat
      BY <2>2 DEF Vault
    <2>. QED  BY <2>1, <2>3, PoolFacts
  <1>3. PICK new :
           /\ new \in [0..nextId -> 0..(Held + d)]
           /\ RunningTotal(new, nextId, vaults') /\ new[nextId] = sum[nextId] + d
    <2>1. OneVaultMoves(nextId, Held, d, vaults, vaults', id, sum)
      BY <1>1, <1>2 DEF OneVaultMoves, PoolShifts
    <2>2. Covers(Held + d, nextId, vaults', sum[nextId] + d)
      BY <1>2, <2>1, ShiftedTotals
    <2>. QED  BY <2>2 DEF Covers
  <1>4. new[nextId] + donated[token] = Held + d
    <2>1. sum[nextId] \in 0..Held
      BY <1>1, <1>2
    <2>2. sum[nextId] \in Int /\ Held \in Int /\ donated[token] \in Int
      BY <1>2, <2>1
    <2>3. sum[nextId] + donated[token] = Held /\ new[nextId] = sum[nextId] + d
      BY <1>1, <1>3
    <2>. QED  BY <2>2, <2>3
  <1>. QED  BY <1>3, <1>4 DEF Backed, PoolShifts

\* deposit: pulls what it credits.
LEMMA BackedDeposit ==
    ASSUME TypeOK, TypeOK', Backed, NEW c \in Owners, NEW id \in Ids,
           NEW a \in AmountArgs, deposit(c, id, a)
    PROVE  Backed'
  <1>1. CASE DepositOutcome(c, id, a) # "Ok"
    BY <1>1, BackedUnchanged DEF deposit, Reverted, store
  <1>2. CASE DepositOutcome(c, id, a) = "Ok"
    <2>1. /\ id \in 0..(nextId - 1) /\ token \in Tokens /\ a \in Nat
          /\ funds[token][c] >= a /\ funds' = Moved(token, c, Contract, a)
          /\ UNCHANGED <<token, nextId, donated>>
      BY <1>2, DepositFacts, AccessFacts
    <2>2. vaults' = [vaults EXCEPT ![id].balance = @ + a]
      BY <1>2, DepositFacts
    <2>3. /\ vaults'[id].balance = vaults[id].balance + a
          /\ \A i \in 0..(nextId - 1) : i # id => vaults'[i].balance = vaults[i].balance
      BY <2>1, <2>2 DEF TypeOK, Vault
    <2>4. /\ Held' = Held + a
          /\ \A s \in Tokens \ {token} : funds'[s][Contract] = funds[s][Contract]
      <3>1. c \in Accounts /\ Contract \in Accounts /\ c # Contract
        BY DEF Accounts
      <3>2. funds \in [Tokens -> [Accounts -> Nat]] /\ token # NoToken
        BY <2>1 DEF TypeOK
      <3>. QED  BY <2>1, <3>1, <3>2, MovedLemma DEF Held
    <2>5. PoolShifts(id, a)
      BY <2>1, <2>3, <2>4 DEF PoolShifts
    <2>. QED  BY <2>1, <2>5, BackedShift
  <1>. QED  BY <1>1, <1>2

\* withdraw: pays out what the vault held, and the vault holds it no longer.
LEMMA BackedWithdraw ==
    ASSUME TypeOK, TypeOK', Backed, NEW c \in Owners, NEW id \in Ids, withdraw(c, id)
    PROVE  Backed'
  <1>1. CASE WithdrawOutcome(c, id) # "Ok"
    BY <1>1, BackedUnchanged DEF withdraw, Reverted, store
  <1>2. CASE WithdrawOutcome(c, id) = "Ok"
    <2>. DEFINE n == vaults[id].balance
    <2>1. /\ id \in 0..(nextId - 1) /\ token \in Tokens
          /\ funds[token][Contract] >= n /\ funds' = Moved(token, Contract, c, n)
          /\ UNCHANGED <<token, nextId, donated>>
      BY <1>2, WithdrawFacts, AccessFacts
    <2>2. vaults' = [vaults EXCEPT ![id].balance = 0, ![id].withdrawn = TRUE]
      BY <1>2, WithdrawFacts
    <2>3. n \in Nat /\ -n \in Int
      BY <2>1, PoolFacts
    <2>4. /\ vaults'[id].balance = n + (-n)
          /\ \A i \in 0..(nextId - 1) : i # id => vaults'[i].balance = vaults[i].balance
      <3>1. vaults' = [vaults EXCEPT ![id] =
                         [vaults[id] EXCEPT !.balance = 0, !.withdrawn = TRUE]]
        BY <2>1, <2>2 DEF TypeOK
      <3>2. vaults[id] \in Vault
        BY <2>1 DEF TypeOK
      <3>3. vaults'[id].balance = 0
        BY <2>1, <3>1, <3>2 DEF TypeOK, Vault
      <3>4. \A i \in 0..(nextId - 1) : i # id => vaults'[i] = vaults[i]
        BY <2>1, <3>1 DEF TypeOK
      <3>. QED  BY <2>3, <3>3, <3>4
    <2>5. /\ Held' = Held + (-n)
          /\ \A s \in Tokens \ {token} : funds'[s][Contract] = funds[s][Contract]
      <3>1. c \in Accounts /\ Contract \in Accounts /\ c # Contract
        BY DEF Accounts
      <3>2. funds \in [Tokens -> [Accounts -> Nat]] /\ token # NoToken
        BY <2>1 DEF TypeOK
      <3>3. /\ Moved(token, Contract, c, n)[token][Contract] = funds[token][Contract] - n
            /\ \A s \in Tokens : s # token => Moved(token, Contract, c, n)[s] = funds[s]
        BY <2>1, <2>3, <3>1, <3>2, MovedLemma
      <3>4. funds[token][Contract] \in Nat
        BY <2>1, <3>1, <3>2
      <3>. QED  BY <2>1, <2>3, <3>2, <3>3, <3>4 DEF Held
    <2>6. PoolShifts(id, -n)
      BY <2>1, <2>4, <2>5 DEF PoolShifts
    <2>. HIDE DEF n
    <2>. QED  BY <2>1, <2>3, <2>6, BackedShift
  <1>. QED  BY <1>1, <1>2

\* extend_lock moves no money.
LEMMA BackedExtend ==
    ASSUME TypeOK, Backed, NEW c \in Owners, NEW id \in Ids, NEW s \in 0..MaxTs,
           extend_lock(c, id, s)
    PROVE  Backed'
  <1>1. CASE ExtendOutcome(c, id, s) # "Ok"
    BY <1>1, BackedUnchanged DEF extend_lock, Reverted, store
  <1>2. CASE ExtendOutcome(c, id, s) = "Ok"
    <2>1. /\ vaults' = [vaults EXCEPT ![id].unlock = @ + s]
          /\ id \in 0..(nextId - 1)
          /\ UNCHANGED <<token, nextId, funds, donated>>
      BY <1>2, ExtendFacts, AccessFacts
    <2>2. \A i \in 0..(nextId - 1) : vaults'[i].balance = vaults[i].balance
      BY <2>1 DEF TypeOK, Vault
    <2>3. \A sum : RunningTotal(sum, nextId, vaults) => RunningTotal(sum, nextId, vaults')
      BY <2>2 DEF RunningTotal
    <2>4. Held' = Held
      BY <2>1 DEF Held
    <2>. QED  BY <2>1, <2>3, <2>4 DEF Backed
  <1>. QED  BY <1>1, <1>2

\* A payment to the contract is a donation; one between owners misses the pool.
LEMMA BackedPayment ==
    ASSUME TypeOK, Backed, NEW t \in Tokens, NEW from \in Owners, NEW to \in Accounts,
           NEW a \in AmountArgs, TokenPayment(t, from, to, a)
    PROVE  Backed'
  <1>1. /\ from \in Accounts /\ from # to /\ from # Contract /\ Contract \in Accounts
        /\ a \in Nat /\ funds[t][from] >= a /\ funds' = Moved(t, from, to, a)
        /\ UNCHANGED <<token, nextId, vaults>>
    BY DEF TokenPayment, Accounts
  <1>2. /\ \A s \in Tokens : s # t => funds'[s] = funds[s] /\ donated'[s] = donated[s]
        /\ to = Contract => /\ funds'[t][Contract] = funds[t][Contract] + a
                           /\ donated'[t] = donated[t] + a
        /\ to # Contract => /\ funds'[t][Contract] = funds[t][Contract]
                           /\ donated'[t] = donated[t]
    <2>1. funds \in [Tokens -> [Accounts -> Nat]] /\ donated \in [Tokens -> Nat]
      BY DEF TypeOK
    <2>2. /\ Moved(t, from, to, a)[t][to] = funds[t][to] + a
          /\ \A b \in Accounts : b # from /\ b # to => Moved(t, from, to, a)[t][b] = funds[t][b]
          /\ \A s \in Tokens : s # t => Moved(t, from, to, a)[s] = funds[s]
      BY <1>1, <2>1, MovedLemma
    <2>3. donated' = [donated EXCEPT ![t] = IF to = Contract THEN @ + a ELSE @]
      BY DEF TokenPayment
    <2>. QED  BY <1>1, <2>1, <2>2, <2>3
  <1>3. \A s \in Tokens \ {token} : funds'[s][Contract] = donated'[s]
    BY <1>1, <1>2 DEF Backed
  <1>4. CASE token = NoToken
    BY <1>1, <1>3, <1>4 DEF Backed
  <1>5. CASE token \in Tokens
    <2>1. PICK sum \in [0..nextId -> 0..Held] :
             RunningTotal(sum, nextId, vaults) /\ sum[nextId] + donated[token] = Held
      BY <1>5 DEF Backed
    <2>2. PICK d \in Nat : Held' = Held + d /\ donated'[token] = donated[token] + d
      <3>1. Held' = funds'[token][Contract] /\ Held = funds[token][Contract] /\ Held \in Nat
            /\ donated[token] \in Nat
        BY <1>1, <1>5, PoolFacts DEF Held
      <3>2. CASE to = Contract /\ t = token
        <4>1. Held' = Held + a /\ donated'[token] = donated[token] + a
          BY <1>2, <3>1, <3>2
        <4>. QED  BY <1>1, <4>1
      <3>3. CASE to # Contract \/ t # token
        <4>1. Held' = Held + 0 /\ donated'[token] = donated[token] + 0
          BY <1>2, <1>5, <3>1, <3>3
        <4>. QED  BY <4>1
      <3>. QED  BY <3>2, <3>3
    <2>3. Held \in Nat /\ donated[token] \in Nat /\ nextId \in Nat
      BY <1>5, PoolFacts
    <2>4. sum \in [0..nextId -> 0..(Held + d)]
      <3>1. \A i \in 0..nextId : sum[i] \in 0..(Held + d)
        BY <2>1, <2>2, <2>3
      <3>. QED  BY <2>1, <3>1
    <2>5. sum[nextId] + (donated[token] + d) = Held + d
      <3>1. sum[nextId] \in 0..Held /\ sum[nextId] + donated[token] = Held
        BY <2>1, <2>3
      <3>2. sum[nextId] \in Int /\ Held \in Int /\ donated[token] \in Int /\ d \in Int
        BY <2>2, <2>3, <3>1
      <3>3. \A x, y, h, e \in Int : x + y = h => x + (y + e) = h + e
        OBVIOUS
      <3>. QED  BY ONLY <3>1, <3>2, <3>3
    <2>. QED  BY <1>1, <1>3, <2>1, <2>2, <2>4, <2>5 DEF Backed
  <1>. QED  BY <1>4, <1>5 DEF TypeOK

\* The pool holds exactly what its vaults and the donations add up to, for any
\* number of owners and vaults: no vault is paid out of another one's money.
THEOREM PoolBacked == Spec => []Backed
  <1>1. Init => Backed
    <2>. SUFFICES ASSUME Init PROVE Backed
      OBVIOUS
    <2>1. \A t \in Tokens : funds[t][Contract] = 0 /\ donated[t] = 0
      BY DEF Init, Accounts
    <2>. QED  BY <2>1 DEF Init, Backed
  <1>2. TypeOK /\ TypeOK' /\ Backed /\ [Next]_vars => Backed'
    <2>1. Backed /\ (UNCHANGED vars \/ Tick) => Backed'
      BY BackedUnchanged DEF vars, Tick, store
    <2>. QED  BY <2>1, BackedInit, BackedCreate, BackedDeposit, BackedWithdraw,
                 BackedPayment, BackedExtend DEF Next
  <1>. QED  BY <1>1, <1>2, TypeCorrect, PTL DEF Spec

-----------------------------------------------------------------------------
(* Withdrawals always find their money. *)

\* The pool holds at least what any one vault holds.
LEMMA PoolCoversVault ==
    ASSUME TypeOK, Backed, token \in Tokens, NEW id \in 0..(nextId - 1)
    PROVE  funds[token][Contract] >= vaults[id].balance
  <1>1. PICK sum \in [0..nextId -> 0..Held] : RunningTotal(sum, nextId, vaults)
    BY DEF Backed
  <1>2. Held = funds[token][Contract] /\ Held \in Nat /\ vaults[id].balance \in Nat
    BY PoolFacts
  <1>3. sum[id] \in 0..Held /\ sum[id + 1] \in 0..Held
    <2>1. id \in 0..nextId /\ id + 1 \in 0..nextId
      BY PoolFacts
    <2>. QED  BY <1>1, <2>1
  <1>4. sum[id + 1] = sum[id] + vaults[id].balance
    BY <1>1 DEF RunningTotal
  <1>. QED  BY ONLY <1>2, <1>3, <1>4

\* withdraw never traps: the transfer it makes is always covered, whatever the
\* other owners did, so a valid withdrawal of an unlocked vault succeeds.
THEOREM WithdrawAlwaysCovered == Spec => []WithdrawNeverTraps
  <1>1. Init => WithdrawNeverTraps
    BY DEF Init, WithdrawNeverTraps
  <1>2. TypeOK /\ Backed /\ WithdrawNeverTraps /\ [Next]_vars => WithdrawNeverTraps'
    <2>. SUFFICES ASSUME TypeOK, Backed, WithdrawNeverTraps, [Next]_vars
                  PROVE  WithdrawNeverTraps'
      OBVIOUS
    <2>1. ASSUME NEW c \in Owners, NEW id \in Ids, withdraw(c, id)
          PROVE  WithdrawNeverTraps'
      <3>1. WithdrawOutcome(c, id) # "Trap"
        <4>1. CASE AccessOutcome(c, id) # "Ok"
          BY <4>1 DEF WithdrawOutcome, AccessOutcome
        <4>2. CASE AccessOutcome(c, id) = "Ok"
          <5>1. token \in Tokens /\ id \in 0..(nextId - 1)
            BY <4>2, AccessFacts
          <5>2. CanTransfer(Contract, vaults[id].balance)
            BY <5>1, PoolCoversVault DEF CanTransfer
          <5>. QED  BY <4>2, <5>2 DEF WithdrawOutcome
        <4>. QED  BY <4>1, <4>2
      <3>2. result'.outcome # "Trap"
        BY <2>1, <3>1 DEF withdraw, Reverted, Returned
      <3>. QED  BY <3>2 DEF WithdrawNeverTraps
    <2>2. CASE UNCHANGED result
      BY <2>2 DEF WithdrawNeverTraps
    <2>3. CASE result'.call # "withdraw"
      BY <2>3 DEF WithdrawNeverTraps
    <2>4. CASE \E c \in Owners, t \in Tokens : init(c, t)
      BY <2>3, <2>4 DEF init, Reverted, Returned
    <2>5. CASE \E c \in Owners, a \in AmountArgs, u \in 0..MaxTs : create_vault(c, a, u)
      BY <2>3, <2>5 DEF create_vault, Reverted, Returned
    <2>6. CASE \E c \in Owners, id \in Ids, a \in AmountArgs : deposit(c, id, a)
      BY <2>3, <2>6 DEF deposit, Reverted, Returned
    <2>7. CASE \E c \in Owners, id \in Ids, s \in 0..MaxTs : extend_lock(c, id, s)
      BY <2>3, <2>7 DEF extend_lock, Reverted, Returned
    <2>. QED  BY <2>1, <2>2, <2>4, <2>5, <2>6, <2>7
              DEF Next, Tick, TokenPayment, vars
  <1>. QED  BY <1>1, <1>2, TypeCorrect, PoolBacked, PTL DEF Spec

-----------------------------------------------------------------------------
(* What a step may never do. *)

\* create_vault adds one vault, locked and not empty, under the next id.
VaultAdded ==
    \E v \in Vault :
        /\ nextId' = nextId + 1
        /\ v.created = now /\ v.unlock > now /\ v.balance > 0 /\ ~v.withdrawn
        /\ vaults' = [i \in 0..nextId |-> IF i = nextId THEN v ELSE vaults[i]]

\* deposit, extend_lock and withdraw rewrite one vault that is not withdrawn.
VaultRewritten ==
    \E id \in DOMAIN vaults :
        /\ ~vaults[id].withdrawn
        /\ \/ \E n \in Nat \ {0} : vaults' = [vaults EXCEPT ![id].balance = @ + n]
           \/ \E n \in Nat : vaults' = [vaults EXCEPT ![id].unlock = @ + n]
           \/ vaults' = [vaults EXCEPT ![id].balance = 0, ![id].withdrawn = TRUE]

\* Nothing else ever changes a vault.
LEMMA VaultSteps ==
    ASSUME TypeOK, [Next]_vars
    PROVE  vaults' = vaults \/ VaultAdded \/ VaultRewritten
  <1>1. ASSUME NEW c \in Owners, NEW t \in Tokens, init(c, t) PROVE vaults' = vaults
    BY <1>1 DEF init, Reverted, store
  <1>2. ASSUME NEW c \in Owners, NEW a \in AmountArgs, NEW u \in 0..MaxTs,
               create_vault(c, a, u), vaults' # vaults
        PROVE  VaultAdded
    <2>1. CreateOutcome(c, a, u) = "Ok"
      BY <1>2 DEF create_vault, Reverted, store
    <2>2. /\ a \in 1..MaxAmount /\ now < u /\ nextId' = nextId + 1
          /\ vaults' = [i \in 0..nextId |-> IF i = nextId THEN NewVault(c, a, u) ELSE vaults[i]]
      BY <1>2, <2>1, CreateFacts
    <2>3. now \in 0..MaxTs
      BY DEF TypeOK
    <2>4. /\ NewVault(c, a, u) \in Vault
          /\ NewVault(c, a, u).created = now /\ NewVault(c, a, u).unlock > now
          /\ NewVault(c, a, u).balance > 0 /\ ~NewVault(c, a, u).withdrawn
      BY <2>2, <2>3 DEF NewVault, Vault
    <2>. QED  BY <2>2, <2>4 DEF VaultAdded
  <1>3. ASSUME NEW c \in Owners, NEW id \in Ids, NEW a \in AmountArgs,
               deposit(c, id, a), vaults' # vaults
        PROVE  /\ id \in DOMAIN vaults /\ ~vaults[id].withdrawn
               /\ a \in Nat \ {0} /\ vaults' = [vaults EXCEPT ![id].balance = @ + a]
    <2>1. DepositOutcome(c, id, a) = "Ok"
      BY <1>3 DEF deposit, Reverted, store
    <2>. QED  BY <1>3, <2>1, DepositFacts, AccessFacts
  <1>4. ASSUME NEW c \in Owners, NEW id \in Ids, NEW s \in 0..MaxTs,
               extend_lock(c, id, s), vaults' # vaults
        PROVE  /\ id \in DOMAIN vaults /\ ~vaults[id].withdrawn
               /\ s \in Nat /\ vaults' = [vaults EXCEPT ![id].unlock = @ + s]
    <2>1. ExtendOutcome(c, id, s) = "Ok"
      BY <1>4 DEF extend_lock, Reverted, store
    <2>. QED  BY <1>4, <2>1, ExtendFacts, AccessFacts
  <1>5. ASSUME NEW c \in Owners, NEW id \in Ids, withdraw(c, id), vaults' # vaults
        PROVE  /\ id \in DOMAIN vaults /\ ~vaults[id].withdrawn
               /\ vaults' = [vaults EXCEPT ![id].balance = 0, ![id].withdrawn = TRUE]
    <2>1. WithdrawOutcome(c, id) = "Ok"
      BY <1>5 DEF withdraw, Reverted, store
    <2>. QED  BY <1>5, <2>1, WithdrawFacts, AccessFacts
  <1>6. ASSUME UNCHANGED vars \/ Tick \/ \E t \in Tokens, from \in Owners, to \in Accounts,
                  a \in AmountArgs : TokenPayment(t, from, to, a)
        PROVE  vaults' = vaults
    BY <1>6 DEF vars, Tick, store, TokenPayment
  <1>. QED  BY <1>1, <1>2, <1>3, <1>4, <1>5, <1>6 DEF Next, VaultRewritten

\* No step removes a vault, hands it over, shortens its lock, or touches it once
\* it is withdrawn ("it can only ever be PUSHED FORWARD via extend_lock").
THEOREM LocksOnlyMoveForward == Spec => LockOnlyForward
  <1>. DEFINE A == \A id \in DOMAIN vaults :
          /\ id \in DOMAIN vaults'
          /\ vaults'[id].owner = vaults[id].owner
          /\ vaults'[id].created = vaults[id].created
          /\ vaults'[id].unlock >= vaults[id].unlock
          /\ vaults[id].withdrawn => vaults'[id] = vaults[id]
  <1>1. TypeOK /\ [Next]_vars => A
    <2>. SUFFICES ASSUME TypeOK, [Next]_vars, NEW i \in DOMAIN vaults
                  PROVE  /\ i \in DOMAIN vaults'
                         /\ vaults'[i].owner = vaults[i].owner
                         /\ vaults'[i].created = vaults[i].created
                         /\ vaults'[i].unlock >= vaults[i].unlock
                         /\ vaults[i].withdrawn => vaults'[i] = vaults[i]
      OBVIOUS
    <2>. DEFINE keeps == /\ i \in DOMAIN vaults'
                         /\ vaults'[i].owner = vaults[i].owner
                         /\ vaults'[i].created = vaults[i].created
                         /\ vaults'[i].unlock >= vaults[i].unlock
                         /\ vaults[i].withdrawn => vaults'[i] = vaults[i]
    <2>1. /\ DOMAIN vaults = 0..(nextId - 1) /\ nextId \in Nat
          /\ vaults[i] \in Vault /\ vaults[i].unlock \in Nat
      BY DEF TypeOK, Vault
    <2>2. ASSUME vaults' = vaults
          PROVE  keeps
      BY <2>1, <2>2
    <2>3. ASSUME NEW v \in Vault,
                 vaults' = [j \in 0..nextId |-> IF j = nextId THEN v ELSE vaults[j]]
          PROVE  keeps
      BY <2>1, <2>3
    <2>4. ASSUME NEW id \in DOMAIN vaults, ~vaults[id].withdrawn, NEW n \in Nat \ {0},
                 vaults' = [vaults EXCEPT ![id].balance = @ + n]
          PROVE  keeps
      BY <2>1, <2>4 DEF Vault
    <2>5. ASSUME NEW id \in DOMAIN vaults, ~vaults[id].withdrawn, NEW n \in Nat,
                 vaults' = [vaults EXCEPT ![id].unlock = @ + n]
          PROVE  keeps
      BY <2>1, <2>5 DEF Vault
    <2>6. ASSUME NEW id \in DOMAIN vaults, ~vaults[id].withdrawn,
                 vaults' = [vaults EXCEPT ![id].balance = 0, ![id].withdrawn = TRUE]
          PROVE  keeps
      BY <2>1, <2>6 DEF Vault
    <2>. HIDE DEF keeps
    <2>7. keeps
      <3>1. CASE VaultAdded
        BY <2>3, <3>1 DEF VaultAdded
      <3>2. CASE VaultRewritten
        BY <2>4, <2>5, <2>6, <3>2 DEF VaultRewritten
      <3>3. vaults' = vaults \/ VaultAdded \/ VaultRewritten
        BY VaultSteps
      <3>. QED  BY <2>2, <3>1, <3>2, <3>3
    <2>. QED  BY <2>7 DEF keeps
  <1>2. TypeOK /\ [Next]_vars => [A]_vars
    BY <1>1
  <1>. QED  BY <1>2, TypeCorrect, PTL DEF Spec, LockOnlyForward, A

\* A vault is empty exactly when it was withdrawn, and starts locked.
THEOREM EmptyOnlyWhenWithdrawn == Spec => []EmptyIffWithdrawn
  <1>1. Init => EmptyIffWithdrawn
    BY DEF Init, EmptyIffWithdrawn
  <1>2. TypeOK /\ EmptyIffWithdrawn /\ [Next]_vars => EmptyIffWithdrawn'
    <2>. SUFFICES ASSUME TypeOK, EmptyIffWithdrawn, [Next]_vars,
                         NEW i \in DOMAIN vaults'
                  PROVE  /\ vaults'[i].withdrawn <=> vaults'[i].balance = 0
                         /\ vaults'[i].unlock > vaults'[i].created
      BY DEF EmptyIffWithdrawn
    <2>1. /\ DOMAIN vaults = 0..(nextId - 1) /\ nextId \in Nat
          /\ \A j \in DOMAIN vaults : vaults[j] \in Vault
      BY DEF TypeOK
    <2>. DEFINE good(v) == (v.withdrawn <=> v.balance = 0) /\ v.unlock > v.created
    <2>2. \A j \in DOMAIN vaults : good(vaults[j])
      BY DEF EmptyIffWithdrawn
    <2>3. CASE vaults' = vaults
      BY <2>2, <2>3
    <2>4. ASSUME NEW v \in Vault, v.created = now, v.unlock > now, v.balance > 0, ~v.withdrawn,
                 vaults' = [j \in 0..nextId |-> IF j = nextId THEN v ELSE vaults[j]]
          PROVE  good(vaults'[i])
      <3>1. CASE i = nextId
        BY <2>1, <2>4, <3>1 DEF Vault
      <3>2. CASE i # nextId
        BY <2>1, <2>2, <2>4, <3>2
      <3>. QED  BY <3>1, <3>2
    <2>5. ASSUME NEW id \in DOMAIN vaults, ~vaults[id].withdrawn, NEW n \in Nat \ {0},
                 vaults' = [vaults EXCEPT ![id].balance = @ + n]
          PROVE  good(vaults'[i])
      BY <2>1, <2>2, <2>5 DEF Vault
    <2>6. ASSUME NEW id \in DOMAIN vaults, NEW n \in Nat,
                 vaults' = [vaults EXCEPT ![id].unlock = @ + n]
          PROVE  good(vaults'[i])
      BY <2>1, <2>2, <2>6 DEF Vault
    <2>7. ASSUME NEW id \in DOMAIN vaults,
                 vaults' = [vaults EXCEPT ![id].balance = 0, ![id].withdrawn = TRUE]
          PROVE  good(vaults'[i])
      BY <2>1, <2>2, <2>7 DEF Vault
    <2>8. CASE VaultAdded
      BY <2>4, <2>8 DEF VaultAdded
    <2>9. CASE VaultRewritten
      BY <2>5, <2>6, <2>7, <2>9 DEF VaultRewritten
    <2>. QED  BY <2>3, <2>8, <2>9, VaultSteps
  <1>. QED  BY <1>1, <1>2, TypeCorrect, PTL DEF Spec

\* Whenever the pool's balance falls, one unlocked vault is being paid out, in
\* full, to its owner: withdraw's checks guard every token that leaves.
THEOREM PaysOutOnlyUnlocked == Spec => PaysOnlyUnlockedOwner
  <1>. DEFINE A == Held' < Held =>
                    \E id \in DOMAIN vaults :
                       /\ ~vaults[id].withdrawn /\ vaults'[id].withdrawn
                       /\ vaults[id].unlock <= now
                       /\ Held - Held' = vaults[id].balance
                       /\ funds'[token][vaults[id].owner]
                            = funds[token][vaults[id].owner] + vaults[id].balance
  <1>1. TypeOK /\ TypeOK' /\ [Next]_vars => A
    <2>. SUFFICES ASSUME TypeOK, TypeOK', [Next]_vars, Held' < Held PROVE A
      OBVIOUS
    <2>0. /\ Held \in Nat /\ Held' \in Nat
          /\ funds \in [Tokens -> [Accounts -> Nat]]
          /\ \A c \in Owners : c \in Accounts /\ c # Contract
          /\ Contract \in Accounts
      <3>1. Contract \in Accounts /\ \A c \in Owners : c \in Accounts /\ c # Contract
        BY DEF Accounts
      <3>2. Held \in Nat /\ funds \in [Tokens -> [Accounts -> Nat]]
        BY <3>1 DEF TypeOK, Held
      <3>3. Held' \in Nat
        BY <3>1 DEF TypeOK, Held
      <3>. QED  BY <3>1, <3>2, <3>3
    <2>1. ASSUME UNCHANGED <<token, funds>> PROVE FALSE
      BY <2>0, <2>1 DEF Held
    <2>2. ASSUME NEW c \in Owners, NEW t \in Tokens, init(c, t) PROVE FALSE
      <3>1. token = NoToken \/ UNCHANGED <<token, funds>>
        BY <2>2 DEF init, InitOutcome, Reverted, store
      <3>. QED  BY <2>0, <2>1, <3>1 DEF Held
    <2>3. ASSUME NEW t \in Tokens, NEW c \in Owners, NEW n \in Nat, NEW to \in Accounts,
                 to # c, funds[t][c] >= n, funds' = Moved(t, c, to, n), token' = token
          PROVE  FALSE
      <3>1. /\ Moved(t, c, to, n)[t][to] = funds[t][to] + n
            /\ \A b \in Accounts : b # c /\ b # to => Moved(t, c, to, n)[t][b] = funds[t][b]
            /\ \A s \in Tokens : s # t => Moved(t, c, to, n)[s] = funds[s]
        BY <2>0, <2>3, MovedLemma
      <3>2. \A s \in Tokens : funds'[s][Contract] >= funds[s][Contract]
        <4>. SUFFICES ASSUME NEW s \in Tokens
                      PROVE  funds'[s][Contract] >= funds[s][Contract]
          OBVIOUS
        <4>1. funds[s][Contract] \in Nat /\ funds[t][Contract] \in Nat
          BY <2>0
        <4>2. CASE s # t
          BY <2>3, <3>1, <4>1, <4>2
        <4>3. CASE s = t
          BY <2>0, <2>3, <3>1, <4>1, <4>3
        <4>. QED  BY <4>2, <4>3
      <3>3. token = NoToken \/ token \in Tokens
        BY DEF TypeOK
      <3>4. CASE token = NoToken
        BY <2>0, <2>3, <3>4 DEF Held
      <3>5. CASE token \in Tokens
        <4>1. Held' = funds'[token][Contract] /\ Held = funds[token][Contract]
          BY <2>3, <3>5 DEF Held
        <4>2. Held' >= Held
          BY <3>2, <3>5, <4>1
        <4>. QED  BY <2>0, <4>2
      <3>. QED  BY <3>3, <3>4, <3>5
    <2>4. ASSUME NEW c \in Owners, NEW a \in AmountArgs, NEW u \in 0..MaxTs,
                 create_vault(c, a, u)
          PROVE  FALSE
      <3>1. CreateOutcome(c, a, u) = "Ok"
        BY <2>1, <2>4 DEF create_vault, Reverted, store
      <3>2. /\ token \in Tokens /\ a \in Nat /\ funds[token][c] >= a
            /\ funds' = Moved(token, c, Contract, a) /\ token' = token
        BY <2>4, <3>1, CreateFacts
      <3>. QED  BY <2>0, <2>3, <3>2
    <2>5. ASSUME NEW c \in Owners, NEW id \in Ids, NEW a \in AmountArgs, deposit(c, id, a)
          PROVE  FALSE
      <3>1. DepositOutcome(c, id, a) = "Ok"
        BY <2>1, <2>5 DEF deposit, Reverted, store
      <3>2. AccessOutcome(c, id) = "Ok"
        BY <2>5, <3>1, DepositFacts
      <3>3. token \in Tokens
        BY <3>2, AccessFacts
      <3>4. /\ a \in Nat /\ funds[token][c] >= a
            /\ funds' = Moved(token, c, Contract, a) /\ token' = token
        BY <2>5, <3>1, DepositFacts
      <3>. QED  BY <2>0, <2>3, <3>3, <3>4
    <2>6. ASSUME NEW c \in Owners, NEW id \in Ids, NEW s \in 0..MaxTs, extend_lock(c, id, s)
          PROVE  FALSE
      BY <2>1, <2>6 DEF extend_lock, Reverted, store
    <2>7. ASSUME NEW t \in Tokens, NEW from \in Owners, NEW to \in Accounts,
                 NEW a \in AmountArgs, TokenPayment(t, from, to, a)
          PROVE  FALSE
      <3>1. /\ a \in Nat /\ to # from /\ funds[t][from] >= a
            /\ funds' = Moved(t, from, to, a) /\ token' = token
        BY <2>7 DEF TokenPayment
      <3>. QED  BY <2>3, <3>1
    <2>8. ASSUME NEW c \in Owners, NEW id \in Ids, withdraw(c, id)
          PROVE  A
      <3>1. WithdrawOutcome(c, id) = "Ok"
        BY <2>1, <2>8 DEF withdraw, Reverted, store
      <3>. DEFINE n == vaults[id].balance
      <3>2. /\ AccessOutcome(c, id) = "Ok" /\ vaults[id].unlock <= now
            /\ funds[token][Contract] >= n /\ funds' = Moved(token, Contract, c, n)
            /\ vaults' = [vaults EXCEPT ![id].balance = 0, ![id].withdrawn = TRUE]
            /\ token' = token
        BY <2>8, <3>1, WithdrawFacts
      <3>3. /\ id \in DOMAIN vaults /\ vaults[id] \in Vault /\ vaults[id].owner = c
            /\ ~vaults[id].withdrawn /\ token \in Tokens /\ token # NoToken
        BY <3>2, AccessFacts
      <3>4. n \in Nat
        BY <3>3 DEF Vault
      <3>5. /\ Moved(token, Contract, c, n)[token][Contract] = funds[token][Contract] - n
            /\ Moved(token, Contract, c, n)[token][c] = funds[token][c] + n
        BY <2>0, <3>2, <3>3, <3>4, MovedLemma
      <3>6. Held - Held' = n
        BY <2>0, <3>2, <3>3, <3>4, <3>5 DEF Held
      <3>7. vaults'[id].withdrawn
        BY <3>2, <3>3 DEF TypeOK, Vault
      <3>. QED  BY <3>2, <3>3, <3>5, <3>6, <3>7
    <2>. QED  BY <2>1, <2>2, <2>4, <2>5, <2>6, <2>7, <2>8 DEF Next, vars, Tick, store
  <1>2. TypeOK /\ TypeOK' /\ [Next]_vars => [A]_vars
    BY <1>1
  <1>. QED  BY <1>2, TypeCorrect, PTL DEF Spec, PaysOnlyUnlockedOwner, A

-----------------------------------------------------------------------------
(* The index of an owner's vaults. *)

\* A call that creates no vault leaves every index right: no vault changes hands.
LEMMA IndexKept ==
    ASSUME IndexMatchesVaults, UNCHANGED owned, DOMAIN vaults' = DOMAIN vaults,
           \A id \in DOMAIN vaults : vaults'[id].owner = vaults[id].owner
    PROVE  IndexMatchesVaults'
  BY DEF IndexMatchesVaults

\* create_vault appends the id it has just used, larger than any id before it.
LEMMA IndexCreate ==
    ASSUME TypeOK, IndexMatchesVaults, NEW c \in Owners, NEW a \in AmountArgs,
           NEW u \in 0..MaxTs, CreateOutcome(c, a, u) = "Ok", create_vault(c, a, u)
    PROVE  IndexMatchesVaults'
  <1>1. /\ vaults' = [i \in 0..nextId |-> IF i = nextId THEN NewVault(c, a, u)
                                                     ELSE vaults[i]]
        /\ owned' = [owned EXCEPT ![c] = Append(@, nextId)]
    BY CreateFacts
  <1>2. /\ DOMAIN vaults = 0..(nextId - 1) /\ nextId \in Nat /\ DOMAIN vaults' = 0..nextId
        /\ owned \in [Owners -> Seq(0..MaxId)] /\ nextId \in 0..MaxId
    BY <1>1 DEF TypeOK
  <1>3. NewVault(c, a, u).owner = c
    BY DEF NewVault
  <1>. SUFFICES ASSUME NEW o \in Owners
                PROVE  /\ {owned'[o][k] : k \in DOMAIN owned'[o]}
                            = {id \in DOMAIN vaults' : vaults'[id].owner = o}
                       /\ \A j, k \in DOMAIN owned'[o] : j < k => owned'[o][j] < owned'[o][k]
    BY DEF IndexMatchesVaults
  <1>4. /\ {owned[o][k] : k \in DOMAIN owned[o]} = {id \in DOMAIN vaults : vaults[id].owner = o}
        /\ \A j, k \in DOMAIN owned[o] : j < k => owned[o][j] < owned[o][k]
    BY DEF IndexMatchesVaults
  <1>5. CASE o # c
    <2>1. owned'[o] = owned[o]
      BY <1>1, <1>2, <1>5
    <2>2. {id \in DOMAIN vaults' : vaults'[id].owner = o}
            = {id \in DOMAIN vaults : vaults[id].owner = o}
      BY <1>1, <1>2, <1>3, <1>5
    <2>. QED  BY <1>4, <2>1, <2>2
  <1>6. CASE o = c
    <2>. DEFINE s == owned[c]
                n == Len(owned[c])
    <2>1. s \in Seq(0..MaxId) /\ n \in Nat /\ DOMAIN s = 1..n
      BY <1>2
    <2>2. owned'[o] = Append(s, nextId)
      BY <1>1, <1>2, <1>6
    <2>3. /\ DOMAIN owned'[o] = 1..(n + 1)
          /\ \A k \in 1..n : owned'[o][k] = s[k]
          /\ owned'[o][n + 1] = nextId
      BY <1>2, <2>1, <2>2
    <2>4. \A k \in 1..n : s[k] \in 0..(nextId - 1) /\ vaults[s[k]].owner = c
      BY <1>2, <1>4, <1>6, <2>1
    <2>. HIDE DEF s, n
    <2>5. {owned'[o][k] : k \in DOMAIN owned'[o]} = {s[k] : k \in 1..n} \cup {nextId}
      <3>1. \A k \in 1..(n + 1) : k \in 1..n \/ k = n + 1
        BY <2>1
      <3>2. n + 1 \in 1..(n + 1) /\ 1..n \subseteq 1..(n + 1)
        BY <2>1
      <3>. QED  BY ONLY <2>3, <3>1, <3>2
    <2>6. {id \in DOMAIN vaults' : vaults'[id].owner = o}
            = {id \in DOMAIN vaults : vaults[id].owner = c} \cup {nextId}
      BY <1>1, <1>2, <1>3, <1>6
    <2>7. \A j, k \in 1..(n + 1) : j < k => owned'[o][j] < owned'[o][k]
      <3>. SUFFICES ASSUME NEW j \in 1..(n + 1), NEW k \in 1..(n + 1), j < k
                    PROVE  owned'[o][j] < owned'[o][k]
        OBVIOUS
      <3>1. CASE k \in 1..n
        <4>1. j \in 1..n
          BY <2>1, <3>1
        <4>. QED  BY <1>4, <1>6, <2>1, <2>3, <3>1, <4>1 DEF s
      <3>2. CASE k = n + 1
        <4>1. j \in 1..n
          BY <2>1, <3>2
        <4>2. s[j] < nextId
          BY <1>2, <2>4, <4>1
        <4>. QED  BY <2>3, <3>2, <4>1, <4>2
      <3>. QED  BY <2>1, <3>1, <3>2
    <2>8. {s[k] : k \in 1..n} = {id \in DOMAIN vaults : vaults[id].owner = c}
      BY <1>4, <1>6, <2>1 DEF s
    <2>. QED  BY <2>3, <2>5, <2>6, <2>7, <2>8
  <1>. QED  BY <1>5, <1>6

\* list_owned names every vault of an owner once, in the order of creation: only
\* create_vault writes an index, and no call hands a vault over.
THEOREM IndexIsComplete == Spec => []IndexMatchesVaults
  <1>1. Init => IndexMatchesVaults
    <2>. SUFFICES ASSUME Init, NEW o \in Owners
                  PROVE  /\ {owned[o][k] : k \in DOMAIN owned[o]}
                              = {id \in DOMAIN vaults : vaults[id].owner = o}
                         /\ \A j, k \in DOMAIN owned[o] : j < k => owned[o][j] < owned[o][k]
      BY DEF IndexMatchesVaults
    <2>1. owned[o] = <<>> /\ DOMAIN vaults = {}
      BY DEF Init
    <2>2. DOMAIN owned[o] = {}
      BY <2>1
    <2>. QED  BY <2>1, <2>2
  <1>2. TypeOK /\ IndexMatchesVaults /\ [Next]_vars => IndexMatchesVaults'
    <2>. SUFFICES ASSUME TypeOK, IndexMatchesVaults, [Next]_vars
                  PROVE  IndexMatchesVaults'
      OBVIOUS
    <2>1. ASSUME UNCHANGED <<vaults, owned>> PROVE IndexMatchesVaults'
      BY <2>1, IndexKept
    <2>2. ASSUME NEW c \in Owners, NEW a \in AmountArgs, NEW u \in 0..MaxTs,
                 create_vault(c, a, u)
          PROVE  IndexMatchesVaults'
      <3>1. CASE CreateOutcome(c, a, u) = "Ok"
        BY <2>2, <3>1, IndexCreate
      <3>2. CASE CreateOutcome(c, a, u) # "Ok"
        BY <2>1, <2>2, <3>2 DEF create_vault, Reverted, store
      <3>. QED  BY <3>1, <3>2
    <2>3. ASSUME NEW id \in Ids, id \in DOMAIN vaults, UNCHANGED owned,
                 \/ \E n \in Nat : vaults' = [vaults EXCEPT ![id].balance = @ + n]
                 \/ \E n \in Nat : vaults' = [vaults EXCEPT ![id].unlock = @ + n]
                 \/ vaults' = [vaults EXCEPT ![id].balance = 0, ![id].withdrawn = TRUE]
          PROVE  IndexMatchesVaults'
      <3>1. /\ DOMAIN vaults' = DOMAIN vaults
            /\ \A i \in DOMAIN vaults : vaults'[i].owner = vaults[i].owner
        <4>0. \A i \in DOMAIN vaults : vaults[i] \in Vault
          BY DEF TypeOK
        <4>1. CASE \E n \in Nat : vaults' = [vaults EXCEPT ![id].balance = @ + n]
          BY <2>3, <4>0, <4>1 DEF Vault
        <4>2. CASE \E n \in Nat : vaults' = [vaults EXCEPT ![id].unlock = @ + n]
          BY <2>3, <4>0, <4>2 DEF Vault
        <4>3. CASE vaults' = [vaults EXCEPT ![id].balance = 0, ![id].withdrawn = TRUE]
          BY <2>3, <4>0, <4>3 DEF Vault
        <4>. QED  BY <2>3, <4>1, <4>2, <4>3
      <3>. QED  BY <2>3, <3>1, IndexKept
    <2>4. ASSUME NEW c \in Owners, NEW id \in Ids, NEW a \in AmountArgs, deposit(c, id, a)
          PROVE  IndexMatchesVaults'
      <3>1. CASE DepositOutcome(c, id, a) = "Ok"
        <4>1. /\ AccessOutcome(c, id) = "Ok" /\ a \in Nat /\ UNCHANGED owned
              /\ vaults' = [vaults EXCEPT ![id].balance = @ + a]
          BY <2>4, <3>1, DepositFacts
        <4>. QED  BY <2>3, <4>1, AccessFacts
      <3>2. CASE DepositOutcome(c, id, a) # "Ok"
        BY <2>1, <2>4, <3>2 DEF deposit, Reverted, store
      <3>. QED  BY <3>1, <3>2
    <2>5. ASSUME NEW c \in Owners, NEW id \in Ids, NEW s \in 0..MaxTs, extend_lock(c, id, s)
          PROVE  IndexMatchesVaults'
      <3>1. CASE ExtendOutcome(c, id, s) = "Ok"
        <4>1. /\ AccessOutcome(c, id) = "Ok" /\ s \in Nat /\ UNCHANGED owned
              /\ vaults' = [vaults EXCEPT ![id].unlock = @ + s]
          BY <2>5, <3>1, ExtendFacts
        <4>. QED  BY <2>3, <4>1, AccessFacts
      <3>2. CASE ExtendOutcome(c, id, s) # "Ok"
        BY <2>1, <2>5, <3>2 DEF extend_lock, Reverted, store
      <3>. QED  BY <3>1, <3>2
    <2>6. ASSUME NEW c \in Owners, NEW id \in Ids, withdraw(c, id)
          PROVE  IndexMatchesVaults'
      <3>1. CASE WithdrawOutcome(c, id) = "Ok"
        <4>1. /\ AccessOutcome(c, id) = "Ok" /\ UNCHANGED owned
              /\ vaults' = [vaults EXCEPT ![id].balance = 0, ![id].withdrawn = TRUE]
          BY <2>6, <3>1, WithdrawFacts
        <4>. QED  BY <2>3, <4>1, AccessFacts
      <3>2. CASE WithdrawOutcome(c, id) # "Ok"
        BY <2>1, <2>6, <3>2 DEF withdraw, Reverted, store
      <3>. QED  BY <3>1, <3>2
    <2>7. CASE \E c \in Owners, t \in Tokens : init(c, t)
      BY <2>1, <2>7 DEF init, Reverted, store
    <2>. QED  BY <2>1, <2>2, <2>4, <2>5, <2>6, <2>7
              DEF Next, Tick, TokenPayment, vars, store
  <1>. QED  BY <1>1, <1>2, TypeCorrect, PTL DEF Spec

-----------------------------------------------------------------------------
(***************************************************************************)
(* The refinement of TimeLock: a call that succeeds is one step of the     *)
(* boxes, a call that fails and the index are none of their business.      *)
(***************************************************************************)

\* Owners and the contract have different accounts, and no account is overdrawn.
LEMMA LedgersOfAll ==
    ASSUME TypeOK
    PROVE  /\ funds \in [Tokens -> [Accounts -> Nat]]
           /\ Contract \in Accounts
           /\ \A o \in Owners : o \in Accounts /\ o # Contract
           /\ \A t \in Tokens : \A a \in Accounts : funds[t][a] \in Nat
  <1>1. Contract \in Accounts /\ \A o \in Owners : o \in Accounts /\ o # Contract
    BY DEF Accounts
  <1>2. funds \in [Tokens -> [Accounts -> Nat]]
    BY DEF TypeOK
  <1>. QED  BY <1>1, <1>2

\* What an owner pays into the pool leaves that owner's wallet and no other.
LEMMA WalletPays ==
    ASSUME TypeOK, NEW t \in Tokens, NEW c \in Owners, NEW n \in Nat,
           funds[t][c] >= n, funds' = Moved(t, c, Contract, n)
    PROVE  Wallets' = [Wallets EXCEPT ![t][c] = @ - n]
  <1>1. /\ funds'[t][c] = funds[t][c] - n
        /\ \A a \in Owners : a # c => funds'[t][a] = funds[t][a]
        /\ \A s \in Tokens : s # t => funds'[s] = funds[s]
    BY LedgersOfAll, MovedLemma
  <1>2. [Wallets EXCEPT ![t][c] = @ - n] =
          [s \in Tokens |-> [o \in Owners |->
              IF s = t /\ o = c THEN funds[s][o] - n ELSE funds[s][o]]]
    BY DEF Wallets
  <1>3. ASSUME NEW s \in Tokens, NEW o \in Owners
        PROVE  funds'[s][o] = IF s = t /\ o = c THEN funds[s][o] - n ELSE funds[s][o]
    BY <1>1
  <1>. QED  BY <1>2, <1>3 DEF Wallets

\* What the pool pays out arrives in the owner's wallet and in no other.
LEMMA WalletIsPaid ==
    ASSUME TypeOK, NEW t \in Tokens, NEW c \in Owners, NEW n \in Nat,
           funds[t][Contract] >= n, funds' = Moved(t, Contract, c, n)
    PROVE  Wallets' = [Wallets EXCEPT ![t][c] = @ + n]
  <1>1. /\ funds'[t][c] = funds[t][c] + n
        /\ \A a \in Owners : a # c => funds'[t][a] = funds[t][a]
        /\ \A s \in Tokens : s # t => funds'[s] = funds[s]
    BY LedgersOfAll, MovedLemma
  <1>2. [Wallets EXCEPT ![t][c] = @ + n] =
          [s \in Tokens |-> [o \in Owners |->
              IF s = t /\ o = c THEN funds[s][o] + n ELSE funds[s][o]]]
    BY DEF Wallets
  <1>3. ASSUME NEW s \in Tokens, NEW o \in Owners
        PROVE  funds'[s][o] = IF s = t /\ o = c THEN funds[s][o] + n ELSE funds[s][o]
    BY <1>1
  <1>. QED  BY <1>2, <1>3 DEF Wallets

\* A payment between two owners moves money from one wallet to the other.
LEMMA WalletsTrade ==
    ASSUME TypeOK, NEW t \in Tokens, NEW c \in Owners, NEW d \in Owners, c # d,
           NEW n \in Nat, funds[t][c] >= n, funds' = Moved(t, c, d, n)
    PROVE  Wallets' = [Wallets EXCEPT ![t][c] = @ - n, ![t][d] = @ + n]
  <1>1. /\ funds'[t][c] = funds[t][c] - n /\ funds'[t][d] = funds[t][d] + n
        /\ \A a \in Owners : a # c /\ a # d => funds'[t][a] = funds[t][a]
        /\ \A s \in Tokens : s # t => funds'[s] = funds[s]
    BY LedgersOfAll, MovedLemma
  <1>2. [Wallets EXCEPT ![t][c] = @ - n, ![t][d] = @ + n] =
          [s \in Tokens |-> [o \in Owners |->
              IF s = t /\ o = c THEN funds[s][o] - n
              ELSE IF s = t /\ o = d THEN funds[s][o] + n ELSE funds[s][o]]]
    <2>. DEFINE both == [Wallets EXCEPT ![t][c] = @ - n, ![t][d] = @ + n]
                goal == [s \in Tokens |-> [o \in Owners |->
                           IF s = t /\ o = c THEN funds[s][o] - n
                           ELSE IF s = t /\ o = d THEN funds[s][o] + n ELSE funds[s][o]]]
    <2>1. /\ Wallets = [s \in Tokens |-> Wallets[s]]
          /\ \A s \in Tokens : Wallets[s] = [o \in Owners |-> funds[s][o]]
      BY DEF Wallets
    <2>2. /\ both = [s \in Tokens |-> both[s]]
          /\ \A s \in Tokens : s # t => both[s] = Wallets[s]
          /\ both[t] = [Wallets[t] EXCEPT ![c] = @ - n, ![d] = @ + n]
      BY <2>1
    <2>3. both[t] = goal[t]
      <3>. DEFINE w == Wallets[t]
      <3>1. w = [o \in Owners |-> funds[t][o]]
        BY <2>1
      <3>2. [w EXCEPT ![c] = @ - n, ![d] = @ + n] =
              [o \in Owners |-> IF o = c THEN funds[t][o] - n
                                ELSE IF o = d THEN funds[t][o] + n ELSE funds[t][o]]
        <4>. HIDE DEF w
        <4>. QED  BY <3>1
      <3>. QED  BY <2>2, <3>2
    <2>4. \A s \in Tokens : s # t => both[s] = goal[s]
      BY <2>1, <2>2
    <2>. HIDE DEF both
    <2>5. both = goal
      BY <2>2, <2>3, <2>4
    <2>. QED  BY <2>5 DEF both
  <1>3. ASSUME NEW s \in Tokens, NEW o \in Owners
        PROVE  funds'[s][o] = IF s = t /\ o = c THEN funds[s][o] - n
                              ELSE IF s = t /\ o = d THEN funds[s][o] + n ELSE funds[s][o]
    BY <1>1
  <1>. QED  BY <1>2, <1>3 DEF Wallets

\* A call that leaves storage and ledgers alone leaves the boxes alone.
LEMMA QuietStep ==
    ASSUME UNCHANGED <<token, vaults, funds, now>>
    PROVE  UNCHANGED Promise!lockVars
  BY DEF Promise!lockVars, Wallets, Boxes

\* init settles, once, which asset the boxes are filled with.
LEMMA InitIsChoose ==
    ASSUME NEW c \in Owners, NEW t \in Tokens, init(c, t)
    PROVE  UNCHANGED Promise!lockVars \/ Promise!Choose(t)
  <1>1. CASE Reverted("init", c, 0, InitOutcome)
    BY <1>1, QuietStep DEF Reverted, store
  <1>2. CASE ~Reverted("init", c, 0, InitOutcome)
    BY <1>2 DEF init, InitOutcome, Promise!Choose, Wallets, Boxes
  <1>. QED  BY <1>1, <1>2

\* create_vault makes a box around the money it pulled, under a fresh id.
LEMMA CreateIsLock ==
    ASSUME TypeOK, NEW c \in Owners, NEW a \in AmountArgs, NEW u \in 0..MaxTs,
           create_vault(c, a, u), CreateOutcome(c, a, u) = "Ok"
    PROVE  Promise!LockNext
  <1>1. /\ token \in Tokens /\ a \in 1..MaxAmount /\ now < u
        /\ funds[token][c] >= a /\ funds' = Moved(token, c, Contract, a)
        /\ vaults' = [i \in 0..nextId |-> IF i = nextId THEN NewVault(c, a, u)
                                                     ELSE vaults[i]]
        /\ UNCHANGED <<token, now>>
    BY CreateFacts
  <1>2. /\ DOMAIN vaults = 0..(nextId - 1) /\ nextId \in Nat /\ nextId \in Ids
        /\ a \in Nat /\ token # NoToken /\ funds[token][c] \in Nat
    <2>1. DOMAIN vaults = 0..(nextId - 1) /\ nextId \in 0..MaxId
      BY DEF TypeOK
    <2>. QED  BY <1>1, <2>1, LedgersOfAll DEF Ids
  <1>3. /\ Wallets' = [Wallets EXCEPT ![token][c] = @ - a]
        /\ Wallets[token][c] = funds[token][c]
    <2>1. Wallets' = [Wallets EXCEPT ![token][c] = @ - a]
      BY <1>1, <1>2, WalletPays
    <2>2. Wallets[token][c] = funds[token][c]
      BY <1>1, <1>2 DEF Wallets
    <2>. QED  BY <2>1, <2>2
  <1>4. /\ DOMAIN Boxes = 0..(nextId - 1) /\ DOMAIN Boxes \cup {nextId} = 0..nextId
        /\ nextId \notin DOMAIN Boxes
    BY <1>2 DEF Boxes
  <1>5. Boxes' = [i \in 0..nextId |->
                    IF i = nextId THEN [holder |-> c, amount |-> a, until |-> u,
                                        since |-> now, open |-> FALSE]
                                  ELSE Boxes[i]]
    <2>1. DOMAIN vaults' = 0..nextId /\ vaults'[nextId] = NewVault(c, a, u)
      BY <1>1, <1>2
    <2>2. \A i \in 0..(nextId - 1) : vaults'[i] = vaults[i]
      BY <1>1, <1>2
    <2>3. \A i \in 0..nextId : i = nextId \/ i \in 0..(nextId - 1)
      BY <1>2
    <2>. DEFINE new == [holder |-> c, amount |-> a, until |-> u, since |-> now,
                        open |-> FALSE]
    <2>4. Boxes'[nextId] = new /\ DOMAIN Boxes' = 0..nextId
      <3>1. nextId \in 0..nextId /\ DOMAIN Boxes' = 0..nextId
        BY <1>2, <2>1 DEF Boxes
      <3>2. /\ vaults'[nextId].owner = c /\ vaults'[nextId].balance = a
            /\ vaults'[nextId].unlock = u /\ vaults'[nextId].created = now
            /\ vaults'[nextId].withdrawn = FALSE
        BY <2>1 DEF NewVault
      <3>. QED  BY <2>1, <3>1, <3>2 DEF Boxes
    <2>5. \A i \in 0..(nextId - 1) : Boxes'[i] = Boxes[i]
      BY <1>2, <2>1, <2>2, <2>3 DEF Boxes
    <2>6. Boxes' = [i \in 0..nextId |-> Boxes'[i]]
      BY <2>4 DEF Boxes
    <2>. HIDE DEF new
    <2>7. \A i \in 0..nextId : Boxes'[i] = IF i = nextId THEN new ELSE Boxes[i]
      BY <2>3, <2>4, <2>5
    <2>. QED  BY <2>6, <2>7 DEF new
  <1>6. a \in 1..Wallets[token][c]
    BY <1>1, <1>2, <1>3
  <1>7. Promise!Lock(c, nextId, a, u)
    BY <1>1, <1>2, <1>3, <1>4, <1>5, <1>6 DEF Promise!Lock, Promise!Pay
  <1>. QED  BY <1>2, <1>6, <1>7 DEF Promise!LockNext

\* deposit tops up a box that is not open, from its own holder's purse.
LEMMA DepositIsTopUp ==
    ASSUME TypeOK, NEW c \in Owners, NEW id \in Ids, NEW a \in AmountArgs,
           deposit(c, id, a), DepositOutcome(c, id, a) = "Ok"
    PROVE  Promise!LockNext
  <1>1. /\ AccessOutcome(c, id) = "Ok" /\ a \in 1..MaxAmount /\ a \in Nat
        /\ funds[token][c] >= a /\ funds' = Moved(token, c, Contract, a)
        /\ vaults' = [vaults EXCEPT ![id].balance = @ + a]
        /\ UNCHANGED <<token, now>>
    BY DepositFacts
  <1>2. /\ id \in DOMAIN vaults /\ token \in Tokens
        /\ vaults[id].owner = c /\ ~vaults[id].withdrawn
        /\ funds[token][c] \in Nat /\ \A i \in DOMAIN vaults : vaults[i] \in Vault
    <2>1. \A i \in DOMAIN vaults : vaults[i] \in Vault
      BY DEF TypeOK
    <2>. QED  BY <1>1, <2>1, AccessFacts, LedgersOfAll
  <1>3. /\ Wallets' = [Wallets EXCEPT ![token][c] = @ - a]
        /\ Wallets[token][c] = funds[token][c]
    <2>1. Wallets' = [Wallets EXCEPT ![token][c] = @ - a]
      BY <1>1, <1>2, WalletPays
    <2>2. Wallets[token][c] = funds[token][c]
      BY <1>1, <1>2 DEF Wallets
    <2>. QED  BY <2>1, <2>2
  <1>4. /\ id \in DOMAIN Boxes /\ Boxes[id].holder = c /\ ~Boxes[id].open
        /\ Boxes' = [Boxes EXCEPT ![id].amount = @ + a]
    BY <1>1, <1>2 DEF Boxes, Vault
  <1>5. a \in 1..Wallets[token][Boxes[id].holder]
    BY <1>1, <1>2, <1>3, <1>4
  <1>6. Promise!TopUp(id, a)
    BY <1>1, <1>3, <1>4, <1>5 DEF Promise!TopUp, Promise!Pay
  <1>. QED  BY <1>4, <1>5, <1>6 DEF Promise!LockNext

\* extend_lock moves a box's time forward, never back.
LEMMA ExtendIsProlong ==
    ASSUME TypeOK, NEW c \in Owners, NEW id \in Ids, NEW s \in 0..MaxTs,
           extend_lock(c, id, s), ExtendOutcome(c, id, s) = "Ok"
    PROVE  Promise!LockNext
  <1>1. /\ AccessOutcome(c, id) = "Ok" /\ s > 0 /\ vaults[id].unlock + s \in 0..MaxTs
        /\ vaults' = [vaults EXCEPT ![id].unlock = @ + s]
        /\ UNCHANGED <<token, funds, now>>
    BY ExtendFacts
  <1>2. /\ id \in DOMAIN vaults /\ ~vaults[id].withdrawn /\ vaults[id].unlock \in Nat
        /\ \A i \in DOMAIN vaults : vaults[i] \in Vault
    BY <1>1, AccessFacts DEF TypeOK, Vault
  <1>. DEFINE t == vaults[id].unlock + s
  <1>3. /\ id \in DOMAIN Boxes /\ ~Boxes[id].open /\ t > Boxes[id].until
        /\ Boxes' = [Boxes EXCEPT ![id].until = t]
    <2>1. id \in DOMAIN Boxes /\ ~Boxes[id].open /\ Boxes[id].until = vaults[id].unlock
      BY <1>2 DEF Boxes
    <2>2. Boxes' = [Boxes EXCEPT ![id].until = t]
      BY <1>1, <1>2 DEF Boxes, Vault
    <2>. QED  BY <1>1, <1>2, <2>1, <2>2
  <1>4. Promise!Prolong(id, t)
    BY <1>1, <1>3 DEF Promise!Prolong, Wallets
  <1>. QED  BY <1>1, <1>3, <1>4 DEF Promise!LockNext

\* withdraw opens a box whose time has come and pays out what it holds.
LEMMA WithdrawIsOpen ==
    ASSUME TypeOK, NEW c \in Owners, NEW id \in Ids,
           withdraw(c, id), WithdrawOutcome(c, id) = "Ok"
    PROVE  Promise!LockNext
  <1>1. /\ AccessOutcome(c, id) = "Ok" /\ vaults[id].unlock <= now
        /\ funds[token][Contract] >= vaults[id].balance
        /\ funds' = Moved(token, Contract, c, vaults[id].balance)
        /\ vaults' = [vaults EXCEPT ![id].balance = 0, ![id].withdrawn = TRUE]
        /\ UNCHANGED <<token, now>>
    BY WithdrawFacts
  <1>2. /\ id \in DOMAIN vaults /\ token \in Tokens
        /\ vaults[id].owner = c /\ ~vaults[id].withdrawn /\ vaults[id].balance \in Nat
        /\ vaults[id].unlock \in Nat /\ now \in Nat
        /\ \A i \in DOMAIN vaults : vaults[i] \in Vault
    BY <1>1, AccessFacts DEF TypeOK, Vault
  <1>3. Wallets' = [Wallets EXCEPT ![token][c] = @ + vaults[id].balance]
    BY <1>1, <1>2, WalletIsPaid
  <1>4. /\ id \in DOMAIN Boxes /\ Boxes[id].holder = c /\ ~Boxes[id].open
        /\ Boxes[id].amount = vaults[id].balance /\ Boxes[id].until = vaults[id].unlock
    BY <1>2 DEF Boxes
  <1>5. Boxes' = [Boxes EXCEPT ![id].open = TRUE, ![id].amount = 0]
    BY <1>1, <1>2 DEF Boxes, Vault
  <1>6. Promise!Open(id)
    BY <1>1, <1>2, <1>3, <1>4, <1>5 DEF Promise!Open
  <1>. QED  BY <1>4, <1>6 DEF Promise!LockNext

\* A payment between owners, or to the pool as a donation, is money spent.
LEMMA PaymentIsSpend ==
    ASSUME TypeOK, NEW t \in Tokens, NEW from \in Owners, NEW to \in Accounts,
           NEW a \in AmountArgs, TokenPayment(t, from, to, a)
    PROVE  Promise!LockNext
  <1>1. /\ from # to /\ a \in Nat /\ a > 0 /\ funds[t][from] >= a
        /\ funds' = Moved(t, from, to, a) /\ UNCHANGED <<token, vaults, now>>
    BY DEF TokenPayment
  <1>2. Wallets[t][from] = funds[t][from] /\ funds[t][from] \in Nat
    BY LedgersOfAll DEF Wallets
  <1>3. UNCHANGED Boxes
    BY <1>1 DEF Boxes
  <1>4. \/ Wallets' = [Wallets EXCEPT ![t][from] = @ - a]
        \/ \E g \in Owners \ {from} :
             Wallets' = [Wallets EXCEPT ![t][from] = @ - a, ![t][g] = @ + a]
    <2>1. CASE to = Contract
      BY <1>1, <2>1, WalletPays
    <2>2. CASE to \in Owners
      BY <1>1, <2>2, WalletsTrade
    <2>. QED  BY <2>1, <2>2 DEF Accounts
  <1>5. Promise!Spend(t, from, a)
    BY <1>1, <1>3, <1>4 DEF Promise!Spend
  <1>6. a \in 1..Wallets[t][from]
    BY <1>1, <1>2
  <1>. QED  BY <1>5, <1>6 DEF Promise!LockNext

\* The contract keeps the promise of TimeLock: whatever the calls and whoever
\* makes them, the shared pool behaves as boxes that hold their own money.
THEOREM ContractKeepsPromise == Spec => ImplementsTimeLock
  <1>1. Init => Promise!LockInit
    <2>. SUFFICES ASSUME Init PROVE Promise!LockInit
      OBVIOUS
    <2>1. Boxes = [i \in {} |-> {}]
      BY DEF Init, Boxes
    <2>2. Wallets = InitFunds
      <3>1. /\ \A t \in Tokens : \A o \in Owners : funds[t][o] = InitFunds[t][o]
            /\ InitFunds \in [Tokens -> [Owners -> Nat]]
        BY DEF Init, Accounts
      <3>2. \A t \in Tokens : InitFunds[t] = [o \in Owners |-> InitFunds[t][o]]
        BY <3>1
      <3>. QED  BY <3>1, <3>2 DEF Wallets
    <2>. QED  BY <2>1, <2>2 DEF Init, Promise!LockInit
  <1>2. TypeOK /\ [Next]_vars => [Promise!LockNext]_(Promise!lockVars)
    <2>. SUFFICES ASSUME TypeOK, [Next]_vars
                  PROVE  Promise!LockNext \/ UNCHANGED Promise!lockVars
      OBVIOUS
    <2>1. ASSUME UNCHANGED <<token, vaults, funds, now>>
          PROVE  UNCHANGED Promise!lockVars
      BY <2>1, QuietStep
    <2>2. ASSUME NEW c \in Owners, NEW t \in Tokens, init(c, t)
          PROVE  Promise!LockNext \/ UNCHANGED Promise!lockVars
      BY <2>2, InitIsChoose DEF Promise!LockNext
    <2>3. ASSUME NEW c \in Owners, NEW a \in AmountArgs, NEW u \in 0..MaxTs,
                 create_vault(c, a, u)
          PROVE  Promise!LockNext \/ UNCHANGED Promise!lockVars
      <3>1. CASE CreateOutcome(c, a, u) # "Ok"
        BY <2>1, <2>3, <3>1 DEF create_vault, Reverted, store
      <3>. QED  BY <2>3, <3>1, CreateIsLock
    <2>4. ASSUME NEW c \in Owners, NEW id \in Ids, NEW a \in AmountArgs, deposit(c, id, a)
          PROVE  Promise!LockNext \/ UNCHANGED Promise!lockVars
      <3>1. CASE DepositOutcome(c, id, a) # "Ok"
        BY <2>1, <2>4, <3>1 DEF deposit, Reverted, store
      <3>. QED  BY <2>4, <3>1, DepositIsTopUp
    <2>5. ASSUME NEW c \in Owners, NEW id \in Ids, NEW s \in 0..MaxTs, extend_lock(c, id, s)
          PROVE  Promise!LockNext \/ UNCHANGED Promise!lockVars
      <3>1. CASE ExtendOutcome(c, id, s) # "Ok"
        BY <2>1, <2>5, <3>1 DEF extend_lock, Reverted, store
      <3>. QED  BY <2>5, <3>1, ExtendIsProlong
    <2>6. ASSUME NEW c \in Owners, NEW id \in Ids, withdraw(c, id)
          PROVE  Promise!LockNext \/ UNCHANGED Promise!lockVars
      <3>1. CASE WithdrawOutcome(c, id) # "Ok"
        BY <2>1, <2>6, <3>1 DEF withdraw, Reverted, store
      <3>. QED  BY <2>6, <3>1, WithdrawIsOpen
    <2>7. CASE Tick
      <3>1. Promise!Pass
        BY <2>7 DEF Tick, store, Promise!Pass, Wallets, Boxes
      <3>. QED  BY <3>1 DEF Promise!LockNext
    <2>8. ASSUME NEW t \in Tokens, NEW from \in Owners, NEW to \in Accounts,
                 NEW a \in AmountArgs, TokenPayment(t, from, to, a)
          PROVE  Promise!LockNext
      BY <2>8, PaymentIsSpend
    <2>. QED  BY <2>1, <2>2, <2>3, <2>4, <2>5, <2>6, <2>7, <2>8 DEF Next, vars
  <1>. QED  BY <1>1, <1>2, TypeCorrect, PTL
            DEF Spec, ImplementsTimeLock, Promise!LockSpec

-----------------------------------------------------------------------------
(* The events of the contract, and the app's replay of them. *)

\* The contract publishes while it runs as before: what EventReplay explores is the
\* contract of XlmVault, with a log.
LEMMA PublisherIsContract == ReplaySpec => Spec
  <1>1. [ReplayNext]_replayVars => [Next]_vars
    <2>. SUFFICES ASSUME [ReplayNext]_replayVars PROVE [Next]_vars
      OBVIOUS
    <2>1. ASSUME NEW c \in Owners, Publish(c) PROVE Next
      BY <2>1 DEF Publish, Next, Ids
    <2>2. ASSUME NEW c \in Owners, NEW t \in Tokens, init(c, t) PROVE Next
      BY <2>2 DEF Next
    <2>3. CASE Tick
      BY <2>3 DEF Next
    <2>4. CASE UNCHANGED replayVars
      BY <2>4 DEF replayVars
    <2>. QED  BY <2>1, <2>2, <2>3, <2>4 DEF ReplayNext
  <1>. QED  BY <1>1, PTL DEF ReplaySpec, Spec

\* What a step that publishes did: one of the four calls, with its event.
Created(c, e) ==
    \E a \in 1..MaxAmount, u \in 0..MaxTs :
        /\ now < u /\ nextId \in Ids
        /\ vaults' = [i \in 0..nextId |-> IF i = nextId THEN NewVault(c, a, u) ELSE vaults[i]]
        /\ e.kind = "create" /\ e.id = nextId /\ e.amount = a /\ e.unlock = u

Changed(c, e) ==
    /\ e.id \in DOMAIN vaults /\ vaults[e.id].owner = c
    /\ \/ /\ e.kind = "deposit" /\ e.amount \in Nat
          /\ vaults' = [vaults EXCEPT ![e.id].balance = @ + e.amount]
       \/ /\ e.kind = "extend" /\ e.unlock > vaults[e.id].unlock
          /\ vaults' = [vaults EXCEPT ![e.id].unlock = e.unlock]
       \/ /\ e.kind = "withdraw"
          /\ vaults' = [vaults EXCEPT ![e.id].balance = 0, ![e.id].withdrawn = TRUE]

EventType == [kind: {"create", "deposit", "extend", "withdraw"}, owner: Owners,
              id: Ids, at: 0..MaxTs, amount: Nat, unlock: 0..MaxTs]

\* Calls that return Ok passed their checks.
LEMMA OkOutcomes ==
    ASSUME NEW c, NEW id, NEW a, NEW u, result'.outcome = "Ok"
    PROVE  /\ create_vault(c, a, u) => CreateOutcome(c, a, u) = "Ok"
           /\ deposit(c, id, a) => DepositOutcome(c, id, a) = "Ok"
           /\ extend_lock(c, id, u) => ExtendOutcome(c, id, u) = "Ok"
           /\ withdraw(c, id) => WithdrawOutcome(c, id) = "Ok"
  BY DEF create_vault, deposit, extend_lock, withdraw, Reverted, Returned

\* Each call that returns Ok publishes what it did to its vault.
LEMMA PublishFacts ==
    ASSUME TypeOK, NEW c \in Owners, Publish(c)
    PROVE  \E e \in EventType :
               /\ log' = Append(log, e) /\ e.owner = c
               /\ Created(c, e) \/ Changed(c, e)
  <1>. DEFINE r == result'
              v == vaults'[r.id]
              e == Event(r, v)
  <1>0. /\ log' = Append(log, e) /\ r.outcome = "Ok"
        /\ now \in 0..MaxTs /\ nextId \in Ids /\ vaults \in [0..(nextId - 1) -> Vault]
    BY DEF Publish, TypeOK, Ids
  <1>1. /\ e.kind = KindOf[r.call] /\ e.owner = r.by /\ e.id = r.id /\ e.at = now
        /\ e.amount = (IF r.call = "create_vault" THEN v.balance ELSE r.value)
        /\ e.unlock = v.unlock
        /\ e = [kind |-> e.kind, owner |-> e.owner, id |-> e.id, at |-> e.at,
                amount |-> e.amount, unlock |-> e.unlock]
    BY DEF Event
  <1>2. /\ KindOf["create_vault"] = "create" /\ KindOf["deposit"] = "deposit"
        /\ KindOf["extend_lock"] = "extend" /\ KindOf["withdraw"] = "withdraw"
    BY DEF KindOf
  <1>. HIDE DEF e
  <1>3. ASSUME e.kind \in {"create", "deposit", "extend", "withdraw"}, e.owner = c, e.id \in Ids,
               e.amount \in Nat, e.unlock \in 0..MaxTs, Created(c, e) \/ Changed(c, e)
        PROVE  \E x \in EventType :
                   /\ log' = Append(log, x) /\ x.owner = c
                   /\ Created(c, x) \/ Changed(c, x)
    <2>1. e \in EventType
      BY <1>0, <1>1, <1>3 DEF EventType
    <2>. QED  BY <1>0, <1>3, <2>1
  <1>4. ASSUME NEW a \in AmountArgs, NEW u \in 0..MaxTs, create_vault(c, a, u)
        PROVE  \E x \in EventType :
                   /\ log' = Append(log, x) /\ x.owner = c
                   /\ Created(c, x) \/ Changed(c, x)
    <2>1. CreateOutcome(c, a, u) = "Ok"
      BY <1>0, <1>4, OkOutcomes
    <2>2. /\ a \in 1..MaxAmount /\ now < u
          /\ vaults' = [i \in 0..nextId |-> IF i = nextId THEN NewVault(c, a, u)
                                                     ELSE vaults[i]]
          /\ r = [call |-> "create_vault", by |-> c, id |-> nextId,
                  outcome |-> "Ok", value |-> nextId]
      BY <1>4, <2>1, CreateFacts
    <2>3. v = NewVault(c, a, u)
      BY <1>0, <2>2 DEF Ids
    <2>4. /\ e.kind = "create" /\ e.owner = c /\ e.id = nextId
          /\ e.amount = a /\ e.unlock = u
      BY <1>1, <1>2, <2>2, <2>3 DEF NewVault
    <2>5. Created(c, e)
      BY <1>0, <2>2, <2>4 DEF Created
    <2>. QED  BY <1>0, <1>3, <2>2, <2>4, <2>5
  <1>5. ASSUME NEW id \in Ids, NEW a \in AmountArgs, deposit(c, id, a)
        PROVE  \E x \in EventType :
                   /\ log' = Append(log, x) /\ x.owner = c
                   /\ Created(c, x) \/ Changed(c, x)
    <2>1. DepositOutcome(c, id, a) = "Ok"
      BY <1>0, <1>5, OkOutcomes
    <2>2. /\ AccessOutcome(c, id) = "Ok" /\ a \in 1..MaxAmount
          /\ vaults' = [vaults EXCEPT ![id].balance = @ + a]
          /\ r = [call |-> "deposit", by |-> c, id |-> id, outcome |-> "Ok", value |-> a]
      BY <1>5, <2>1, DepositFacts
    <2>3. id \in DOMAIN vaults /\ vaults[id] \in Vault /\ vaults[id].owner = c
      BY <2>2, AccessFacts
    <2>4. v.unlock = vaults[id].unlock /\ v.unlock \in 0..MaxTs
      BY <2>2, <2>3 DEF Vault
    <2>5. /\ e.kind = "deposit" /\ e.owner = c /\ e.id = id
          /\ e.amount = a /\ e.unlock \in 0..MaxTs
      BY <1>1, <1>2, <2>2, <2>4
    <2>6. Changed(c, e)
      BY <2>2, <2>3, <2>5 DEF Changed
    <2>. QED  BY <1>3, <2>2, <2>5, <2>6
  <1>6. ASSUME NEW id \in Ids, NEW s \in 0..MaxTs, extend_lock(c, id, s)
        PROVE  \E x \in EventType :
                   /\ log' = Append(log, x) /\ x.owner = c
                   /\ Created(c, x) \/ Changed(c, x)
    <2>1. ExtendOutcome(c, id, s) = "Ok"
      BY <1>0, <1>6, OkOutcomes
    <2>2. /\ AccessOutcome(c, id) = "Ok" /\ s > 0 /\ vaults[id].unlock + s \in 0..MaxTs
          /\ vaults' = [vaults EXCEPT ![id].unlock = @ + s]
          /\ r = [call |-> "extend_lock", by |-> c, id |-> id,
                  outcome |-> "Ok", value |-> vaults[id].unlock + s]
      BY <1>6, <2>1, ExtendFacts
    <2>3. id \in DOMAIN vaults /\ vaults[id] \in Vault /\ vaults[id].owner = c
      BY <2>2, AccessFacts
    <2>4. v.unlock = vaults[id].unlock + s /\ vaults[id].unlock \in 0..MaxTs
      BY <2>2, <2>3 DEF Vault
    <2>5. /\ e.kind = "extend" /\ e.owner = c /\ e.id = id
          /\ e.amount = vaults[id].unlock + s /\ e.unlock = vaults[id].unlock + s
      BY <1>1, <1>2, <2>2, <2>4
    <2>6. Changed(c, e)
      BY <2>2, <2>3, <2>4, <2>5 DEF Changed
    <2>. QED  BY <1>3, <2>2, <2>4, <2>5, <2>6
  <1>7. ASSUME NEW id \in Ids, withdraw(c, id)
        PROVE  \E x \in EventType :
                   /\ log' = Append(log, x) /\ x.owner = c
                   /\ Created(c, x) \/ Changed(c, x)
    <2>1. WithdrawOutcome(c, id) = "Ok"
      BY <1>0, <1>7, OkOutcomes
    <2>2. /\ AccessOutcome(c, id) = "Ok"
          /\ vaults' = [vaults EXCEPT ![id].balance = 0, ![id].withdrawn = TRUE]
          /\ r = [call |-> "withdraw", by |-> c, id |-> id,
                  outcome |-> "Ok", value |-> vaults[id].balance]
      BY <1>7, <2>1, WithdrawFacts
    <2>3. id \in DOMAIN vaults /\ vaults[id] \in Vault /\ vaults[id].owner = c
      BY <2>2, AccessFacts
    <2>4. /\ v.unlock = vaults[id].unlock /\ vaults[id].unlock \in 0..MaxTs
          /\ vaults[id].balance \in Nat
      BY <2>2, <2>3 DEF Vault
    <2>5. /\ e.kind = "withdraw" /\ e.owner = c /\ e.id = id
          /\ e.amount \in Nat /\ e.unlock \in 0..MaxTs
      BY <1>1, <1>2, <2>2, <2>4
    <2>6. Changed(c, e)
      BY <2>2, <2>3, <2>5 DEF Changed
    <2>. QED  BY <1>3, <2>5, <2>6
  <1>. QED  BY <1>4, <1>5, <1>6, <1>7 DEF Publish

\* The log holds events only, whatever is published.
THEOREM LogIsTyped == ReplaySpec => []ReplayTypeOK
  <1>1. Init /\ log = <<>> => ReplayTypeOK
    BY DEF ReplayTypeOK
  <1>2. TypeOK /\ ReplayTypeOK /\ [ReplayNext]_replayVars => ReplayTypeOK'
    <2>. SUFFICES ASSUME TypeOK, log \in Seq(EventType), [ReplayNext]_replayVars
                  PROVE  log' \in Seq(EventType)
      BY DEF ReplayTypeOK, EventType
    <2>1. ASSUME NEW c \in Owners, Publish(c) PROVE log' \in Seq(EventType)
      BY <2>1, PublishFacts
    <2>2. CASE log' = log
      BY <2>2
    <2>. QED  BY <2>1, <2>2 DEF ReplayNext, replayVars
  <1>. QED  BY <1>1, <1>2, PublisherIsContract, TypeCorrect, PTL DEF ReplaySpec

-----------------------------------------------------------------------------
(* One event replayed: what the app has built follows the contract. *)

Entry == [balance: Nat, unlock: Nat, created: 0..MaxTs, withdrawn: BOOLEAN]

\* An entry of the replay shows a vault: its balance and withdrawn flag are the
\* vault's, and its unlock time is the vault's cut to the day, or an earlier day.
Shows(v, w) ==
    /\ v \in Entry
    /\ v.balance = w.balance /\ v.withdrawn = w.withdrawn
    /\ v.unlock <= w.unlock /\ v.unlock % DaySeconds = 0
    /\ w.unlock \in KnownDates => v.unlock = w.unlock - (w.unlock % DaySeconds)

ShowsVaults(o, byId, vs) ==
    \A id \in DOMAIN byId :
        id \in DOMAIN vs /\ vs[id].owner = o /\ Shows(byId[id], vs[id])

\* Cutting to the day: the last day that starts by t (parseEvent's toISOString and
\* dateNoteToSec, which go through the calendar day).
LEMMA DayLemma ==
    ASSUME NEW D \in Nat \ {0}, NEW t \in Nat
    PROVE  /\ t % D \in Nat /\ t \div D \in Nat /\ t - (t % D) \in Nat
           /\ t - (t % D) <= t /\ (t - (t % D)) % D = 0
           /\ \A d \in Nat : d % D = 0 /\ d <= t => d <= t - (t % D)
  <1>1. /\ t % D \in 0..(D - 1) /\ t \div D \in Nat
        /\ t = D * (t \div D) + (t % D)
    OBVIOUS
  <1>2. (t - (t % D)) % D = 0
    <2>1. t - (t % D) = D * (t \div D)
      BY <1>1
    <2>2. \A q \in Nat : (D * q) % D = 0
      OBVIOUS
    <2>. QED  BY <1>1, <2>1, <2>2
  <1>3. ASSUME NEW d \in Nat, d % D = 0, d <= t
        PROVE  d <= t - (t % D)
    <2>1. d = D * (d \div D) /\ d \div D \in Nat
      BY <1>3
    <2>2. \A p, q, r \in Nat : r < D /\ D * q <= D * p + r => D * q <= D * p
      OBVIOUS
    <2>. QED  BY <1>1, <1>3, <2>1, <2>2
  <1>. QED  BY <1>1, <1>2, <1>3

\* What dateNoteToSec reads back is a day that has begun by the unlock time.
LEMMA NoteLemma ==
    ASSUME NEW t \in 0..MaxTs
    PROVE  /\ NoteToSec(t) \in Nat /\ NoteToSec(t) <= t /\ NoteToSec(t) % DaySeconds = 0
           /\ t \in KnownDates =>
                 /\ NoteToSec(t) = t - (t % DaySeconds)
                 /\ \A d \in Nat : d % DaySeconds = 0 /\ d <= t => d <= NoteToSec(t)
  <1>1. DaySeconds \in Nat \ {0} /\ t \in Nat
    BY PageAssumption
  <1>2. 0 % DaySeconds = 0
    BY <1>1
  <1>. QED  BY <1>1, <1>2, DayLemma DEF NoteToSec

\* What an event does to the entry of its vault (the switch of
\* aggregateVaultsFromEvents).
LEMMA AppliedFacts ==
    ASSUME NEW v \in Entry, NEW e \in EventType
    PROVE  /\ Applied(v, e) \in Entry
           /\ e.kind \in {"create", "deposit"} =>
                /\ Applied(v, e).balance = v.balance + e.amount
                /\ Applied(v, e).unlock = v.unlock /\ Applied(v, e).withdrawn = v.withdrawn
           /\ e.kind = "extend" =>
                /\ Applied(v, e).unlock = (IF NoteToSec(e.unlock) > v.unlock
                                             THEN NoteToSec(e.unlock) ELSE v.unlock)
                /\ Applied(v, e).balance = v.balance /\ Applied(v, e).withdrawn = v.withdrawn
           /\ e.kind = "withdraw" =>
                /\ Applied(v, e).balance = 0 /\ Applied(v, e).withdrawn = TRUE
                /\ Applied(v, e).unlock = v.unlock
  <1>1. e.amount \in Nat /\ e.unlock \in 0..MaxTs
    BY DEF EventType
  <1>2. CASE e.kind \in {"create", "deposit"}
    <2>1. Applied(v, e) = [v EXCEPT !.balance = @ + e.amount]
      BY <1>2 DEF Applied
    <2>. QED  BY <1>1, <1>2, <2>1 DEF Entry
  <1>3. CASE e.kind = "extend"
    <2>. DEFINE u == IF NoteToSec(e.unlock) > v.unlock THEN NoteToSec(e.unlock) ELSE v.unlock
    <2>1. Applied(v, e) = [v EXCEPT !.unlock = u]
      BY <1>3 DEF Applied
    <2>2. u \in Nat
      BY <1>1, NoteLemma DEF Entry
    <2>. HIDE DEF u
    <2>3. /\ Applied(v, e) \in Entry /\ Applied(v, e).unlock = u
          /\ Applied(v, e).balance = v.balance /\ Applied(v, e).withdrawn = v.withdrawn
      BY <2>1, <2>2 DEF Entry
    <2>. QED  BY <1>3, <2>3 DEF u
  <1>4. CASE e.kind = "withdraw"
    <2>. DEFINE w == [v EXCEPT !.balance = 0]
    <2>1. w \in Entry /\ w.balance = 0 /\ w.unlock = v.unlock
      BY DEF Entry
    <2>2. Applied(v, e) = [w EXCEPT !.withdrawn = TRUE]
      <3>1. Applied(v, e) = [v EXCEPT !.balance = 0, !.withdrawn = TRUE]
        BY <1>4 DEF Applied
      <3>. QED  BY <3>1
    <2>. HIDE DEF w
    <2>3. /\ Applied(v, e) \in Entry /\ Applied(v, e).withdrawn = TRUE
          /\ Applied(v, e).balance = 0 /\ Applied(v, e).unlock = v.unlock
      BY <2>1, <2>2 DEF Entry
    <2>. QED  BY <1>4, <2>3
  <1>. QED  BY <1>2, <1>3, <1>4 DEF EventType

\* An event of another owner's vault leaves what this owner is shown right.
LEMMA OthersReplay ==
    ASSUME TypeOK, NEW o \in Owners, NEW c \in Owners, NEW e \in EventType, c # o,
           Created(c, e) \/ Changed(c, e), NEW byId, ShowsVaults(o, byId, vaults)
    PROVE  ShowsVaults(o, byId, vaults')
  <1>1. vaults \in [0..(nextId - 1) -> Vault] /\ nextId \in Nat
    BY DEF TypeOK
  <1>2. ASSUME NEW id \in DOMAIN vaults, vaults[id].owner = o
        PROVE  id \in DOMAIN vaults' /\ vaults'[id] = vaults[id]
    <2>1. CASE Created(c, e)
      BY <1>1, <1>2, <2>1 DEF Created
    <2>2. CASE Changed(c, e)
      BY <1>1, <1>2, <2>2 DEF Changed
    <2>. QED  BY <2>1, <2>2
  <1>. QED  BY <1>2 DEF ShowsVaults

\* The create event of a vault seeds its entry, and shows it.
LEMMA CreateReplay ==
    ASSUME TypeOK, NEW o \in Owners, NEW e \in EventType, Created(o, e),
           NEW byId, ShowsVaults(o, byId, vaults)
    PROVE  ShowsVaults(o, ReplayStep(byId, e), vaults')
  <1>1. vaults \in [0..(nextId - 1) -> Vault] /\ nextId \in Nat
    BY DEF TypeOK
  <1>2. PICK a \in 1..MaxAmount, u \in 0..MaxTs :
          /\ vaults' = [i \in 0..nextId |-> IF i = nextId THEN NewVault(o, a, u) ELSE vaults[i]]
          /\ e.kind = "create" /\ e.id = nextId /\ e.amount = a /\ e.unlock = u
    BY DEF Created
  <1>3. e.id \notin DOMAIN byId
    BY <1>1, <1>2 DEF ShowsVaults
  <1>. DEFINE v == Applied(Seed(e), e)
              new == [i \in DOMAIN byId \cup {e.id} |-> IF i # e.id THEN byId[i] ELSE v]
  <1>4. ReplayStep(byId, e) = new
    BY <1>2, <1>3 DEF ReplayStep
  <1>5. /\ vaults'[e.id].owner = o /\ vaults'[e.id].balance = a /\ vaults'[e.id].unlock = u
        /\ vaults'[e.id].withdrawn = FALSE /\ e.id \in DOMAIN vaults'
    BY <1>1, <1>2 DEF NewVault
  <1>6. Shows(v, vaults'[e.id])
    <2>1. /\ Seed(e) \in Entry /\ Seed(e).balance = 0 /\ Seed(e).withdrawn = FALSE
          /\ Seed(e).unlock = NoteToSec(u)
      <3>1. Seed(e) = [balance |-> 0, unlock |-> NoteToSec(u), created |-> e.at,
                       withdrawn |-> FALSE]
        BY <1>2 DEF Seed
      <3>2. NoteToSec(u) \in Nat /\ e.at \in 0..MaxTs
        BY NoteLemma DEF EventType
      <3>. QED  BY <3>1, <3>2 DEF Entry
    <2>2. a \in Nat /\ e.amount = a
      BY <1>2
    <2>3. /\ v \in Entry /\ v.balance = a /\ v.withdrawn = FALSE /\ v.unlock = NoteToSec(u)
      <3>1. e.kind \in {"create", "deposit"}
        BY <1>2
      <3>2. /\ v \in Entry /\ v.balance = Seed(e).balance + e.amount
            /\ v.unlock = Seed(e).unlock /\ v.withdrawn = Seed(e).withdrawn
        BY <2>1, <3>1, AppliedFacts
      <3>. HIDE DEF v
      <3>. QED  BY <2>1, <2>2, <3>2
    <2>. HIDE DEF v
    <2>. QED  BY <1>5, <2>3, NoteLemma DEF Shows
  <1>7. ASSUME NEW id \in DOMAIN byId
        PROVE  /\ new[id] = byId[id] /\ id \in DOMAIN vaults' /\ vaults'[id] = vaults[id]
               /\ vaults[id].owner = o /\ Shows(byId[id], vaults[id])
    BY <1>1, <1>2, <1>3 DEF ShowsVaults
  <1>8. new[e.id] = v /\ DOMAIN new = DOMAIN byId \cup {e.id}
    OBVIOUS
  <1>. HIDE DEF new, v
  <1>9. ASSUME NEW id \in DOMAIN new
        PROVE  id \in DOMAIN vaults' /\ vaults'[id].owner = o /\ Shows(new[id], vaults'[id])
    BY <1>5, <1>6, <1>7, <1>8
  <1>. QED  BY <1>4, <1>9 DEF ShowsVaults

\* A later event of a vault moves its entry as the call moved the vault; when the
\* app was not shown the creation, it skips the event.
LEMMA ChangeReplay ==
    ASSUME TypeOK, NEW o \in Owners, NEW e \in EventType, Changed(o, e),
           NEW byId, ShowsVaults(o, byId, vaults)
    PROVE  ShowsVaults(o, ReplayStep(byId, e), vaults')
  <1>. DEFINE w == vaults[e.id]
  <1>1. /\ vaults \in [0..(nextId - 1) -> Vault] /\ nextId \in Nat
        /\ e.id \in DOMAIN vaults /\ w \in Vault /\ w.owner = o
        /\ e.kind \in {"deposit", "extend", "withdraw"}
    BY DEF TypeOK, Changed
  <1>2. /\ DOMAIN vaults' = DOMAIN vaults /\ vaults'[e.id].owner = o
        /\ \A id \in DOMAIN vaults : id # e.id => vaults'[id] = vaults[id]
    BY <1>1 DEF Changed, Vault
  <1>3. ASSUME NEW id \in DOMAIN byId, id # e.id
        PROVE  /\ id \in DOMAIN vaults' /\ vaults'[id].owner = o
               /\ Shows(byId[id], vaults'[id])
    BY <1>2, <1>3 DEF ShowsVaults
  <1>4. CASE e.id \notin DOMAIN byId
    <2>1. ReplayStep(byId, e) = byId
      BY <1>1, <1>4 DEF ReplayStep
    <2>. QED  BY <1>3, <1>4, <2>1 DEF ShowsVaults
  <1>5. CASE e.id \in DOMAIN byId
    <2>. DEFINE v == byId[e.id]
                x == Applied(v, e)
                new == [i \in DOMAIN byId \cup {e.id} |-> IF i # e.id THEN byId[i] ELSE x]
    <2>1. ReplayStep(byId, e) = new
      BY <1>5 DEF ReplayStep
    <2>2. v \in Entry /\ Shows(v, w)
      BY <1>5 DEF ShowsVaults, Shows
    <2>3. Shows(x, vaults'[e.id])
      <3>1. /\ v.balance = w.balance /\ v.withdrawn = w.withdrawn
            /\ v.unlock <= w.unlock /\ v.unlock % DaySeconds = 0 /\ v.unlock \in Nat
            /\ w.unlock \in KnownDates => v.unlock = w.unlock - (w.unlock % DaySeconds)
            /\ w.unlock \in 0..MaxTs
        BY <1>1, <2>2 DEF Shows, Entry, Vault
      <3>2. CASE e.kind = "deposit" /\ vaults' = [vaults EXCEPT ![e.id].balance = @ + e.amount]
        <4>1. /\ vaults'[e.id].balance = w.balance + e.amount
              /\ vaults'[e.id].unlock = w.unlock /\ vaults'[e.id].withdrawn = w.withdrawn
          BY <1>1, <3>2 DEF Vault
        <4>2. /\ x \in Entry /\ x.balance = v.balance + e.amount
              /\ x.unlock = v.unlock /\ x.withdrawn = v.withdrawn
          BY <2>2, <3>2, AppliedFacts
        <4>. HIDE DEF v, w, x
        <4>. QED  BY <3>1, <4>1, <4>2 DEF Shows
      <3>3. CASE /\ e.kind = "extend" /\ e.unlock > w.unlock
                 /\ vaults' = [vaults EXCEPT ![e.id].unlock = e.unlock]
        <4>1. /\ vaults'[e.id].balance = w.balance
              /\ vaults'[e.id].unlock = e.unlock /\ vaults'[e.id].withdrawn = w.withdrawn
          BY <1>1, <3>3 DEF Vault
        <4>2. /\ x \in Entry /\ x.balance = v.balance /\ x.withdrawn = v.withdrawn
              /\ x.unlock = (IF NoteToSec(e.unlock) > v.unlock
                              THEN NoteToSec(e.unlock) ELSE v.unlock)
          BY <2>2, <3>3, AppliedFacts
        <4>3. e.unlock \in 0..MaxTs
          BY DEF EventType
        <4>. DEFINE n == NoteToSec(e.unlock)
        <4>4. /\ n \in Nat /\ n <= e.unlock /\ n % DaySeconds = 0
              /\ e.unlock \in KnownDates =>
                    /\ n = e.unlock - (e.unlock % DaySeconds)
                    /\ \A d \in Nat : d % DaySeconds = 0 /\ d <= e.unlock => d <= n
          BY <4>3, NoteLemma
        <4>. HIDE DEF v, w, x, n
        <4>5. v.unlock <= e.unlock
          BY <3>1, <3>3, <4>3
        <4>6. e.unlock \in KnownDates => v.unlock <= n
          BY <3>1, <4>4, <4>5
        <4>7. /\ x.unlock <= e.unlock /\ x.unlock % DaySeconds = 0
              /\ e.unlock \in KnownDates => x.unlock = e.unlock - (e.unlock % DaySeconds)
          <5>1. CASE n > v.unlock
            BY <3>1, <4>2, <4>4, <5>1 DEF n
          <5>2. CASE ~(n > v.unlock)
            <6>1. x.unlock = v.unlock
              BY <4>2, <5>2 DEF n
            <6>2. e.unlock \in KnownDates => v.unlock = n
              BY <3>1, <4>4, <4>6, <5>2
            <6>. QED  BY <3>1, <4>4, <4>5, <6>1, <6>2
          <5>. QED  BY <5>1, <5>2
        <4>. QED  BY <3>1, <4>1, <4>2, <4>7 DEF Shows
      <3>4. CASE /\ e.kind = "withdraw"
                 /\ vaults' = [vaults EXCEPT ![e.id].balance = 0, ![e.id].withdrawn = TRUE]
        <4>1. /\ vaults'[e.id].balance = 0
              /\ vaults'[e.id].unlock = w.unlock /\ vaults'[e.id].withdrawn = TRUE
          BY <1>1, <3>4 DEF Vault
        <4>2. /\ x \in Entry /\ x.balance = 0
              /\ x.unlock = v.unlock /\ x.withdrawn = TRUE
          BY <2>2, <3>4, AppliedFacts
        <4>. HIDE DEF v, w, x
        <4>. QED  BY <3>1, <4>1, <4>2 DEF Shows
      <3>. QED  BY <3>2, <3>3, <3>4 DEF Changed
    <2>4. /\ new[e.id] = x /\ DOMAIN new = DOMAIN byId
          /\ \A id \in DOMAIN byId : id # e.id => new[id] = byId[id]
      BY <1>5
    <2>. HIDE DEF new, x, v
    <2>5. ASSUME NEW id \in DOMAIN new
          PROVE  /\ id \in DOMAIN vaults' /\ vaults'[id].owner = o
                 /\ Shows(new[id], vaults'[id])
      BY <1>1, <1>2, <1>3, <2>3, <2>4
    <2>. QED  BY <2>1, <2>5 DEF ShowsVaults
  <1>. QED  BY <1>4, <1>5

-----------------------------------------------------------------------------
(* The whole replay.  A fetch reads the events s+1 to m of the log, for any s   *)
(* the server may have dropped; the loop builds f[i] from the first i of them.  *)

NoVaults == [j \in {} |-> {}]

\* The loop's body, the filter on the owner included.
ReadOne(o, byId, e) == IF e.owner # o THEN byId ELSE ReplayStep(byId, e)

IsOver(f, k) == f = [i \in 0..k |-> f[i]]

Run(lg, o, s, m, f) ==
    /\ IsOver(f, m - s)
    /\ f[0] = NoVaults
    /\ \A i \in 1..(m - s) : f[i] = ReadOne(o, f[i - 1], lg[s + i])

CreatedIn(lg, o, s, m) ==
    {lg[i].id : i \in {j \in (s + 1)..m : lg[j].kind = "create" /\ lg[j].owner = o}}

\* Every run of the loop over a part of the log yields the vaults created in it;
\* over all of the log's end, it yields them as they now are.
ReplayRuns ==
    \A o \in Owners, s \in 0..Len(log), m \in 0..Len(log) : s <= m =>
        /\ \E f : Run(log, o, s, m, f)
        /\ \A f : Run(log, o, s, m, f) =>
              /\ DOMAIN f[m - s] = CreatedIn(log, o, s, m)
              /\ m = Len(log) => ShowsVaults(o, f[m - s], vaults)

\* Reading one event adds the vault it creates, and no other.
LEMMA ReadOneDomain ==
    ASSUME NEW o, NEW byId, NEW e
    PROVE  DOMAIN ReadOne(o, byId, e) =
             DOMAIN byId \cup (IF e.kind = "create" /\ e.owner = o THEN {e.id} ELSE {})
  BY DEF ReadOne, ReplayStep

\* What the log holds up to m stays as it is when an event is published.
LEMMA OldEvents ==
    ASSUME NEW lg \in Seq(EventType), NEW e \in EventType
    PROVE  /\ Len(lg) \in Nat /\ Len(Append(lg, e)) = Len(lg) + 1
           /\ Append(lg, e)[Len(lg) + 1] = e
           /\ \A i \in 1..Len(lg) : Append(lg, e)[i] = lg[i]
  OBVIOUS

\* So a run that stops before the new event is the run it was.
LEMMA OldRuns ==
    ASSUME NEW lg \in Seq(EventType), NEW e \in EventType,
           NEW o, NEW s \in 0..Len(lg), NEW m \in 0..Len(lg), s <= m
    PROVE  /\ CreatedIn(Append(lg, e), o, s, m) = CreatedIn(lg, o, s, m)
           /\ \A f : Run(Append(lg, e), o, s, m, f) <=> Run(lg, o, s, m, f)
  <1>. DEFINE lg2 == Append(lg, e)
  <1>1. \A i \in 1..Len(lg) : lg2[i] = lg[i]
    BY OldEvents
  <1>2. /\ Len(lg) \in Nat
        /\ \A i \in 1..(m - s) : s + i \in 1..Len(lg)
        /\ \A j \in (s + 1)..m : j \in 1..Len(lg)
    BY OldEvents
  <1>. HIDE DEF lg2
  <1>3. CreatedIn(lg2, o, s, m) = CreatedIn(lg, o, s, m)
    BY <1>1, <1>2 DEF CreatedIn
  <1>4. ASSUME NEW f PROVE Run(lg2, o, s, m, f) <=> Run(lg, o, s, m, f)
    BY <1>1, <1>2 DEF Run
  <1>. QED  BY <1>3, <1>4 DEF lg2

\* What one more event, at n + 1, adds to the runs that start after s.
OneMore(lg, lg2, o, s, n, e) ==
    /\ CreatedIn(lg2, o, s, n + 1) =
         CreatedIn(lg, o, s, n) \cup (IF e.kind = "create" /\ e.owner = o THEN {e.id} ELSE {})
    /\ \A f : Run(lg2, o, s, n + 1, f) =>
          /\ \E g : Run(lg, o, s, n, g) /\ g[n - s] = f[n - s]
          /\ f[n + 1 - s] = ReadOne(o, f[n - s], e)
    /\ \A g : Run(lg, o, s, n, g) => \E f : Run(lg2, o, s, n + 1, f)

\* And a run that reads the new event is a run up to it and one more round.
LEMMA NewRuns ==
    ASSUME NEW lg \in Seq(EventType), NEW e \in EventType, NEW o, NEW s \in 0..Len(lg)
    PROVE  OneMore(lg, Append(lg, e), o, s, Len(lg), e)
  <1>. SUFFICES ASSUME NEW n, n = Len(lg), NEW lg2, lg2 = Append(lg, e)
                PROVE  OneMore(lg, lg2, o, s, n, e)
    OBVIOUS
  <1>1. /\ n \in Nat /\ s \in 0..n /\ lg2[n + 1] = e /\ n + 1 - s \in 1..(n + 1) /\ n - s \in 0..n
        /\ \A i \in 1..n : lg2[i] = lg[i]
    BY OldEvents
  <1>2. CreatedIn(lg2, o, s, n + 1) =
          CreatedIn(lg, o, s, n) \cup (IF e.kind = "create" /\ e.owner = o THEN {e.id} ELSE {})
    <2>. DEFINE old == {j \in (s + 1)..n : lg[j].kind = "create" /\ lg[j].owner = o}
                all == {j \in (s + 1)..(n + 1) : lg2[j].kind = "create" /\ lg2[j].owner = o}
    <2>1. all = old \cup (IF e.kind = "create" /\ e.owner = o THEN {n + 1} ELSE {})
      BY <1>1
    <2>2. \A j \in old : lg2[j].id = lg[j].id
      BY <1>1
    <2>. HIDE DEF old, all
    <2>3. {lg2[j].id : j \in all} = {lg[j].id : j \in old}
            \cup (IF e.kind = "create" /\ e.owner = o THEN {e.id} ELSE {})
      <3>1. CASE e.kind = "create" /\ e.owner = o
        <4>1. all = old \cup {n + 1} /\ lg2[n + 1].id = e.id
          BY <1>1, <2>1, <3>1
        <4>2. {lg2[j].id : j \in all} = {lg2[j].id : j \in old} \cup {e.id}
          BY <4>1
        <4>. QED  BY <2>2, <3>1, <4>2
      <3>2. CASE ~(e.kind = "create" /\ e.owner = o)
        BY <2>1, <2>2, <3>2
      <3>. QED  BY <3>1, <3>2
    <2>4. CreatedIn(lg, o, s, n)  = {lg[j].id : j \in old}
      BY DEF CreatedIn, old
    <2>5. CreatedIn(lg2, o, s, n + 1) = {lg2[j].id : j \in all}
      BY DEF CreatedIn, all
    <2>. QED  BY <2>3, <2>4, <2>5
  <1>3. ASSUME NEW f, Run(lg2, o, s, n + 1, f)
        PROVE  /\ \E g : Run(lg, o, s, n, g) /\ g[n - s] = f[n - s]
               /\ f[n + 1 - s] = ReadOne(o, f[n - s], e)
    <2>. DEFINE g == [i \in 0..(n - s) |-> f[i]]
    <2>1. /\ f[0] = NoVaults
          /\ \A i \in 1..(n + 1 - s) : f[i] = ReadOne(o, f[i - 1], lg2[s + i])
      <3>. HIDE DEF g
      <3>. QED  BY <1>3 DEF Run
    <2>2. f[n + 1 - s] = ReadOne(o, f[n - s], e)
      <3>1. n + 1 - s \in 1..(n + 1 - s) /\ (n + 1 - s) - 1 = n - s /\ s + (n + 1 - s) = n + 1
        BY <1>1
      <3>. QED  BY <1>1, <2>1, <3>1
    <2>3. \A i \in 0..(n - s) : g[i] = f[i]
      OBVIOUS
    <2>4. ASSUME NEW i \in 1..(n - s)
          PROVE  g[i] = ReadOne(o, g[i - 1], lg[s + i])
      <3>1. /\ i \in 1..(n + 1 - s) /\ i \in 0..(n - s) /\ i - 1 \in 0..(n - s)
            /\ s + i \in 1..n
        BY <1>1
      <3>. HIDE DEF g
      <3>. QED  BY <1>1, <2>1, <2>3, <3>1
    <2>5. g[0] = NoVaults /\ g[n - s] = f[n - s] /\ IsOver(g, n - s)
      BY <1>1, <2>1 DEF IsOver
    <2>. HIDE DEF g
    <2>6. Run(lg, o, s, n, g)
      BY <2>4, <2>5 DEF Run
    <2>. QED  BY <2>2, <2>5, <2>6
  <1>4. ASSUME NEW g, Run(lg, o, s, n, g) PROVE \E f : Run(lg2, o, s, n + 1, f)
    <2>. DEFINE f == [i \in 0..(n + 1 - s) |-> IF i = n + 1 - s THEN ReadOne(o, g[n - s], e)
                                                             ELSE g[i]]
    <2>1. /\ g[0] = NoVaults
          /\ \A i \in 1..(n - s) : g[i] = ReadOne(o, g[i - 1], lg[s + i])
      BY <1>4 DEF Run
    <2>2. /\ \A i \in 0..(n - s) : f[i] = g[i]
          /\ f[n + 1 - s] = ReadOne(o, g[n - s], e)
          /\ IsOver(f, n + 1 - s)
      BY <1>1 DEF IsOver
    <2>. HIDE DEF f
    <2>3. ASSUME NEW i \in 1..(n + 1 - s)
          PROVE  f[i] = ReadOne(o, f[i - 1], lg2[s + i])
      <3>1. CASE i = n + 1 - s
        <4>1. i - 1 = n - s /\ s + i = n + 1 /\ n - s \in 0..(n - s)
          BY <1>1, <3>1
        <4>. QED  BY <1>1, <2>2, <3>1, <4>1
      <3>2. CASE i # n + 1 - s
        <4>1. i \in 1..(n - s) /\ i \in 0..(n - s) /\ i - 1 \in 0..(n - s) /\ s + i \in 1..n
          BY <1>1, <3>2
        <4>. QED  BY <1>1, <2>1, <2>2, <4>1
      <3>. QED  BY <3>1, <3>2
    <2>4. f[0] = NoVaults
      <3>1. 0 \in 0..(n - s)
        BY <1>1
      <3>. QED  BY <2>1, <2>2, <3>1
    <2>5. Run(lg2, o, s, n + 1, f)
      <3>1. IsOver(f, n + 1 - s)
        BY <2>2
      <3>2. \A i \in 1..(n + 1 - s) : f[i] = ReadOne(o, f[i - 1], lg2[s + i])
        BY <2>3
      <3>. QED  BY <2>4, <3>1, <3>2 DEF Run
    <2>. QED  BY <2>5
  <1>. QED  BY <1>2, <1>3, <1>4 DEF OneMore

\* A fetch that reads nothing shows nothing.
LEMMA EmptyRuns ==
    ASSUME NEW lg, NEW o, NEW s \in Nat, NEW vs
    PROVE  /\ \E f : Run(lg, o, s, s, f)
           /\ \A f : Run(lg, o, s, s, f) => f[s - s] = NoVaults
           /\ CreatedIn(lg, o, s, s) = {} /\ DOMAIN NoVaults = {}
           /\ ShowsVaults(o, NoVaults, vs)
  <1>1. s - s = 0 /\ (s + 1)..s = {} /\ 1..(s - s) = {}
    OBVIOUS
  <1>2. \E f : Run(lg, o, s, s, f)
    <2>. DEFINE f == [i \in 0..0 |-> NoVaults]
    <2>1. f[0] = NoVaults /\ IsOver(f, 0)
      BY DEF IsOver
    <2>. HIDE DEF f
    <2>2. Run(lg, o, s, s, f)
      BY <1>1, <2>1 DEF Run
    <2>. QED  BY <2>2
  <1>3. \A f : Run(lg, o, s, s, f) => f[s - s] = NoVaults
    BY <1>1 DEF Run
  <1>4. CreatedIn(lg, o, s, s) = {}
    BY <1>1 DEF CreatedIn
  <1>5. DOMAIN NoVaults = {} /\ ShowsVaults(o, NoVaults, vs)
    BY DEF NoVaults, ShowsVaults
  <1>. QED  BY <1>2, <1>3, <1>4, <1>5

\* Reading the event just published keeps an owner's vaults shown as they are.
LEMMA ReadOneShows ==
    ASSUME TypeOK, NEW o \in Owners, NEW e \in EventType,
           Created(e.owner, e) \/ Changed(e.owner, e),
           NEW byId, ShowsVaults(o, byId, vaults)
    PROVE  ShowsVaults(o, ReadOne(o, byId, e), vaults')
  <1>1. e.owner \in Owners
    BY DEF EventType
  <1>2. CASE e.owner # o
    BY <1>1, <1>2, OthersReplay DEF ReadOne
  <1>3. CASE e.owner = o
    BY <1>3, CreateReplay, ChangeReplay DEF ReadOne
  <1>. QED  BY <1>2, <1>3

\* Publishing keeps every run of the replay right: those that stop earlier, those
\* that read the new event, and the one that is about to start after it.
LEMMA PublishKeepsRuns ==
    ASSUME TypeOK, log \in Seq(EventType), ReplayRuns, NEW c \in Owners, Publish(c)
    PROVE  ReplayRuns'
  <1>1. PICK e \in EventType : /\ log' = Append(log, e) /\ e.owner = c
                               /\ Created(c, e) \/ Changed(c, e)
    BY PublishFacts
  <1>. DEFINE n == Len(log)
  <1>2. n \in Nat /\ Len(log') = n + 1
    BY <1>1
  <1>3. SUFFICES ASSUME NEW o \in Owners, NEW s \in 0..(n + 1), NEW m \in 0..(n + 1), s <= m
                 PROVE  /\ \E f : Run(log', o, s, m, f)
                        /\ \A f : Run(log', o, s, m, f) =>
                              /\ DOMAIN f[m - s] = CreatedIn(log', o, s, m)
                              /\ m = n + 1 => ShowsVaults(o, f[m - s], vaults')
    BY <1>2 DEF ReplayRuns
  <1>4. CASE m <= n
    <2>1. s \in 0..n /\ m \in 0..n /\ m # n + 1
      BY <1>2, <1>3, <1>4
    <2>2. /\ \E f : Run(log, o, s, m, f)
          /\ \A f : Run(log, o, s, m, f) => DOMAIN f[m - s] = CreatedIn(log, o, s, m)
      BY <1>3, <2>1 DEF ReplayRuns
    <2>3. /\ CreatedIn(log', o, s, m) = CreatedIn(log, o, s, m)
          /\ \A f : Run(log', o, s, m, f) <=> Run(log, o, s, m, f)
      BY <1>1, <1>3, <2>1, OldRuns
    <2>. QED  BY <2>1, <2>2, <2>3
  <1>5. CASE s = n + 1
    <2>1. m = s /\ s \in Nat
      BY <1>2, <1>3, <1>5
    <2>2. /\ \E f : Run(log', o, s, s, f)
          /\ \A f : Run(log', o, s, s, f) => f[s - s] = NoVaults
          /\ CreatedIn(log', o, s, s) = {} /\ DOMAIN NoVaults = {}
          /\ ShowsVaults(o, NoVaults, vaults')
      BY <2>1, EmptyRuns
    <2>. QED  BY <2>1, <2>2
  <1>6. CASE m = n + 1 /\ s <= n
    <2>1. s \in 0..n /\ n \in 0..n
      BY <1>2, <1>6
    <2>2. /\ \E g : Run(log, o, s, n, g)
          /\ \A g : Run(log, o, s, n, g) => /\ DOMAIN g[n - s] = CreatedIn(log, o, s, n)
                                            /\ ShowsVaults(o, g[n - s], vaults)
      BY <2>1 DEF ReplayRuns
    <2>3. /\ CreatedIn(log', o, s, n + 1) = CreatedIn(log, o, s, n)
               \cup (IF e.kind = "create" /\ e.owner = o THEN {e.id} ELSE {})
          /\ \A f : Run(log', o, s, n + 1, f) =>
                /\ \E g : Run(log, o, s, n, g) /\ g[n - s] = f[n - s]
                /\ f[n + 1 - s] = ReadOne(o, f[n - s], e)
          /\ \A g : Run(log, o, s, n, g) => \E f : Run(log', o, s, n + 1, f)
      <3>1. OneMore(log, log', o, s, n, e)
        BY <1>1, <2>1, NewRuns
      <3>. QED  BY <3>1 DEF OneMore
    <2>. HIDE DEF n
    <2>4. ASSUME NEW f, Run(log', o, s, n + 1, f)
          PROVE  /\ DOMAIN f[n + 1 - s] = CreatedIn(log', o, s, n + 1)
                 /\ ShowsVaults(o, f[n + 1 - s], vaults')
      <3>1. /\ DOMAIN f[n - s] = CreatedIn(log, o, s, n)
            /\ ShowsVaults(o, f[n - s], vaults)
            /\ f[n + 1 - s] = ReadOne(o, f[n - s], e)
        BY <2>2, <2>3, <2>4
      <3>2. DOMAIN f[n + 1 - s] = CreatedIn(log', o, s, n + 1)
        <4>1. DOMAIN ReadOne(o, f[n - s], e) = DOMAIN f[n - s]
                \cup (IF e.kind = "create" /\ e.owner = o THEN {e.id} ELSE {})
          BY ReadOneDomain
        <4>2. CreatedIn(log', o, s, n + 1) = CreatedIn(log, o, s, n)
                \cup (IF e.kind = "create" /\ e.owner = o THEN {e.id} ELSE {})
          BY <2>3
        <4>. QED  BY <3>1, <4>1, <4>2
      <3>3. ShowsVaults(o, f[n + 1 - s], vaults')
        BY <1>1, <3>1, ReadOneShows
      <3>. QED  BY <3>2, <3>3
    <2>5. \E f : Run(log', o, s, n + 1, f)
      BY <2>2, <2>3
    <2>6. \E f : Run(log', o, s, m, f)
      BY <1>6, <2>5
    <2>7. ASSUME NEW f, Run(log', o, s, m, f)
          PROVE  /\ DOMAIN f[m - s] = CreatedIn(log', o, s, m)
                 /\ ShowsVaults(o, f[m - s], vaults')
      <3>1. m = n + 1
        BY <1>6
      <3>2. Run(log', o, s, n + 1, f)
        BY <2>7, <3>1
      <3>3. /\ DOMAIN f[n + 1 - s] = CreatedIn(log', o, s, n + 1)
            /\ ShowsVaults(o, f[n + 1 - s], vaults')
        BY <2>4, <3>2
      <3>4. m - s = n + 1 - s
        BY <1>2, <3>1
      <3>. QED  BY <3>1, <3>3, <3>4
    <2>. QED  BY <2>6, <2>7
  <1>. QED  BY <1>2, <1>3, <1>4, <1>5, <1>6

\* Whatever is published, every run of the replay is right.
LEMMA RunsAreRight == ReplaySpec => []ReplayRuns
  <1>1. Init /\ log = <<>> => ReplayRuns
    <2>. SUFFICES ASSUME log = <<>>,
                         NEW o \in Owners, NEW s \in 0..Len(log), NEW m \in 0..Len(log)
                  PROVE  /\ \E f : Run(log, o, s, m, f)
                         /\ \A f : Run(log, o, s, m, f) =>
                               /\ DOMAIN f[m - s] = CreatedIn(log, o, s, m)
                               /\ m = Len(log) => ShowsVaults(o, f[m - s], vaults)
      BY DEF ReplayRuns
    <2>1. m = s /\ s \in Nat
      OBVIOUS
    <2>2. /\ \E f : Run(log, o, s, s, f)
          /\ \A f : Run(log, o, s, s, f) => f[s - s] = NoVaults
          /\ CreatedIn(log, o, s, s) = {} /\ DOMAIN NoVaults = {}
          /\ ShowsVaults(o, NoVaults, vaults)
      BY <2>1, EmptyRuns
    <2>. QED  BY <2>1, <2>2
  <1>2. TypeOK /\ ReplayTypeOK /\ ReplayRuns /\ [ReplayNext]_replayVars => ReplayRuns'
    <2>. SUFFICES ASSUME TypeOK, log \in Seq(EventType), ReplayRuns, [ReplayNext]_replayVars
                  PROVE  ReplayRuns'
      BY DEF ReplayTypeOK, EventType
    <2>1. ASSUME NEW c \in Owners, Publish(c) PROVE ReplayRuns'
      BY <2>1, PublishKeepsRuns
    <2>2. ASSUME vaults' = vaults, log' = log PROVE ReplayRuns'
      BY <2>2 DEF ReplayRuns
    <2>3. ASSUME NEW c \in Owners, NEW t \in Tokens, init(c, t), UNCHANGED log
          PROVE  ReplayRuns'
      BY <2>2, <2>3 DEF init, Reverted, store
    <2>4. CASE Tick /\ UNCHANGED log
      BY <2>2, <2>4 DEF Tick, store
    <2>5. CASE UNCHANGED replayVars
      BY <2>2, <2>5 DEF replayVars, vars
    <2>. QED  BY <2>1, <2>3, <2>4, <2>5 DEF ReplayNext
  <1>. QED  BY <1>1, <1>2, PublisherIsContract, TypeCorrect, LogIsTyped, PTL DEF ReplaySpec

\* The loop, as the definition of Aggregate has it.
IsLoop(o, events, f) ==
    f = [i \in 0..Len(events) |->
            IF i = 0 THEN [j \in {} |-> {}]
            ELSE IF events[i].owner # o THEN f[i - 1]
            ELSE ReplayStep(f[i - 1], events[i])]

\* Aggregate is the result of a run of the loop, if there is a run.
LEMMA AggregateIsLoop ==
    ASSUME NEW o, NEW events, \E f : IsLoop(o, events, f)
    PROVE  \E f : IsLoop(o, events, f) /\ Aggregate(o, events) = f[Len(events)]
  <1>. DEFINE f == CHOOSE g : IsLoop(o, events, g)
  <1>1. IsLoop(o, events, f)
    OBVIOUS
  <1>2. Aggregate(o, events) = f[Len(events)]
    BY DEF Aggregate, IsLoop
  <1>. QED  BY <1>1, <1>2

\* The loop over the events s+1 to m of a log is a run from s to m.
LEMMA LoopIsRun ==
    ASSUME NEW lg, NEW o, NEW s \in Nat, NEW m \in Nat, s <= m, NEW events,
           Len(events) = m - s, \A i \in 1..(m - s) : events[i] = lg[s + i], NEW f
    PROVE  IsLoop(o, events, f) <=> Run(lg, o, s, m, f)
  <1>. DEFINE loop(i) == IF i = 0 THEN NoVaults ELSE ReadOne(o, f[i - 1], lg[s + i])
  <1>0. m - s \in Nat
    OBVIOUS
  <1>1. IsLoop(o, events, f) <=> f = [i \in 0..(m - s) |-> loop(i)]
    <2>1. \A i \in 0..(m - s) :
            (IF i = 0 THEN [j \in {} |-> {}]
             ELSE IF events[i].owner # o THEN f[i - 1] ELSE ReplayStep(f[i - 1], events[i]))
            = loop(i)
      <3>1. \A i \in 0..(m - s) : i # 0 => i \in 1..(m - s)
        BY <1>0
      <3>. QED  BY <3>1 DEF NoVaults, ReadOne
    <2>2. [i \in 0..Len(events) |->
             IF i = 0 THEN [j \in {} |-> {}]
             ELSE IF events[i].owner # o THEN f[i - 1] ELSE ReplayStep(f[i - 1], events[i])]
          = [i \in 0..(m - s) |-> loop(i)]
      BY <2>1
    <2>. QED  BY <2>2 DEF IsLoop
  <1>2. ASSUME f = [i \in 0..(m - s) |-> loop(i)]
        PROVE  Run(lg, o, s, m, f)
    <2>1. \A i \in 0..(m - s) : f[i] = loop(i)
      BY <1>2
    <2>2. IsOver(f, m - s)
      BY <1>2, <2>1 DEF IsOver
    <2>3. f[0] = NoVaults
      <3>1. 0 \in 0..(m - s)
        BY <1>0
      <3>. QED  BY <2>1, <3>1
    <2>4. ASSUME NEW i \in 1..(m - s) PROVE f[i] = ReadOne(o, f[i - 1], lg[s + i])
      <3>1. i \in 0..(m - s) /\ i # 0
        BY <1>0
      <3>. QED  BY <2>1, <3>1
    <2>. QED  BY <2>2, <2>3, <2>4 DEF Run
  <1>3. ASSUME Run(lg, o, s, m, f)
        PROVE  f = [i \in 0..(m - s) |-> loop(i)]
    <2>1. /\ IsOver(f, m - s) /\ f[0] = NoVaults
          /\ \A i \in 1..(m - s) : f[i] = ReadOne(o, f[i - 1], lg[s + i])
      BY <1>3 DEF Run
    <2>2. \A i \in 0..(m - s) : f[i] = loop(i)
      <3>1. \A i \in 0..(m - s) : i # 0 => i \in 1..(m - s)
        BY <1>0
      <3>. QED  BY <2>1, <3>1
    <2>3. [i \in 0..(m - s) |-> f[i]] = [i \in 0..(m - s) |-> loop(i)]
      BY <2>2
    <2>. QED  BY <2>1, <2>3 DEF IsOver
  <1>. HIDE DEF loop
  <1>. QED  BY <1>1, <1>2, <1>3

\* The window of a fetch: from the oldest event retained, as far as the page limits
\* go (fetchContractEvents).
Last(s) == Min({Len(log), s + FetchLimit})

LEMMA FetchedFacts ==
    ASSUME log \in Seq(EventType), NEW s \in 0..Len(log)
    PROVE  /\ Last(s) \in s..Len(log)
           /\ s + FetchLimit >= Len(log) => Last(s) = Len(log)
           /\ Len(Fetched(s)) = Last(s) - s /\ DOMAIN Fetched(s) = 1..(Last(s) - s)
           /\ \A i \in 1..(Last(s) - s) : Fetched(s)[i] = log[s + i]
  <1>1. \A a, b \in Nat : Min({a, b}) = IF a <= b THEN a ELSE b
    BY DEF Min
  <1>2. FetchLimit \in Nat
    <2>1. Page \in Nat \ {0} /\ MaxEvents \in Nat \ {0} /\ MaxPages \in Nat
      BY PageAssumption
    <2>2. (MaxEvents + Page - 1) \div Page \in Nat
      <3>1. MaxEvents + Page - 1 \in Nat
        BY <2>1
      <3>. QED  BY <2>1, <3>1, DayLemma
    <2>. DEFINE p == Min({MaxPages, (MaxEvents + Page - 1) \div Page})
    <2>3. p \in Nat
      BY <1>1, <2>1, <2>2
    <2>. HIDE DEF p
    <2>4. Page * p \in Nat
      BY <2>1, <2>3
    <2>. QED  BY <2>4 DEF FetchLimit, p
  <1>3. /\ Last(s) \in s..Len(log)
        /\ s + FetchLimit >= Len(log) => Last(s) = Len(log)
    <2>1. Len(log) \in Nat /\ s \in Nat /\ s <= Len(log) /\ s + FetchLimit \in Nat
      BY <1>2
    <2>2. Last(s) = IF Len(log) <= s + FetchLimit THEN Len(log) ELSE s + FetchLimit
      BY <1>1, <2>1 DEF Last
    <2>. QED  BY <1>2, <2>1, <2>2
  <1>4. ASSUME NEW m \in s..Len(log)
        PROVE  /\ Len(SubSeq(log, s + 1, m)) = m - s
               /\ DOMAIN SubSeq(log, s + 1, m) = 1..(m - s)
               /\ \A i \in 1..(m - s) : SubSeq(log, s + 1, m)[i] = log[s + i]
    OBVIOUS
  <1>. QED  BY <1>3, <1>4 DEF Fetched, Last

\* The creations a fetch shows are those in its window.
LEMMA VisibleIsCreated ==
    ASSUME log \in Seq(EventType), NEW s \in 0..Len(log), NEW o
    PROVE  Visible(o, s) = CreatedIn(log, o, s, Last(s))
  <1>. DEFINE m == Last(s)
              ev == Fetched(s)
              here == {j \in 1..(m - s) : ev[j].kind = "create" /\ ev[j].owner = o}
              there == {j \in (s + 1)..m : log[j].kind = "create" /\ log[j].owner = o}
  <1>1. /\ m \in s..Len(log) /\ m \in Nat /\ s \in Nat
        /\ \A i \in 1..(m - s) : ev[i] = log[s + i]
        /\ DOMAIN ev = 1..(m - s)
    BY FetchedFacts
  <1>2. Visible(o, s) = {ev[i].id : i \in here}
    BY <1>1 DEF Visible
  <1>. HIDE DEF m, ev
  <1>3. \A i \in here : s + i \in there /\ ev[i].id = log[s + i].id
    <2>. SUFFICES ASSUME NEW i \in here PROVE s + i \in there /\ ev[i].id = log[s + i].id
      OBVIOUS
    <2>1. s + i \in (s + 1)..m
      BY <1>1
    <2>2. ev[i] = log[s + i]
      BY <1>1
    <2>. QED  BY <2>1, <2>2
  <1>4. \A j \in there : j - s \in here /\ ev[j - s].id = log[j].id
    <2>. SUFFICES ASSUME NEW j \in there PROVE j - s \in here /\ ev[j - s].id = log[j].id
      OBVIOUS
    <2>1. j - s \in 1..(m - s) /\ s + (j - s) = j
      BY <1>1
    <2>2. ev[j - s] = log[j]
      BY <1>1, <2>1
    <2>. QED  BY <2>1, <2>2
  <1>. HIDE DEF here, there
  <1>5. {ev[i].id : i \in here} = {log[j].id : j \in there}
    BY <1>3, <1>4
  <1>. QED  BY <1>2, <1>5 DEF CreatedIn, there, m

\* What the app shows of an owner, from any window: the vaults created in it; and
\* when the window reaches the end of the log, those vaults as they are.
LEMMA AggregateShows ==
    ASSUME log \in Seq(EventType), ReplayRuns, NEW o \in Owners, NEW s \in 0..Len(log)
    PROVE  /\ DOMAIN Aggregate(o, Fetched(s)) = Visible(o, s)
           /\ s + FetchLimit >= Len(log) => ShowsVaults(o, Aggregate(o, Fetched(s)), vaults)
  <1>. DEFINE m == Last(s)
              ev == Fetched(s)
  <1>1. /\ m \in s..Len(log) /\ m \in Nat /\ s \in Nat /\ s <= m /\ m \in 0..Len(log)
        /\ Len(ev) = m - s /\ \A i \in 1..(m - s) : ev[i] = log[s + i]
        /\ s + FetchLimit >= Len(log) => m = Len(log)
        /\ Visible(o, s) = CreatedIn(log, o, s, m)
    BY FetchedFacts, VisibleIsCreated
  <1>. HIDE DEF m, ev
  <1>2. \A f : IsLoop(o, ev, f) <=> Run(log, o, s, m, f)
    BY <1>1, LoopIsRun
  <1>3. /\ \E f : Run(log, o, s, m, f)
        /\ \A f : Run(log, o, s, m, f) =>
              /\ DOMAIN f[m - s] = CreatedIn(log, o, s, m)
              /\ m = Len(log) => ShowsVaults(o, f[m - s], vaults)
    BY <1>1 DEF ReplayRuns
  <1>4. PICK f : IsLoop(o, ev, f) /\ Aggregate(o, ev) = f[Len(ev)]
    BY <1>2, <1>3, AggregateIsLoop
  <1>. QED  BY <1>1, <1>2, <1>3, <1>4 DEF ev

\* Whatever part of its log a server still has, the replay shows an owner exactly
\* the vaults whose creation is in it; and when the page limits cut nothing off,
\* with the balance and the withdrawn flag that the contract stores.
THEOREM ReplayFollowsTheChain == ReplaySpec => []ReplayMatchesChain
  <1>1. ReplayTypeOK /\ ReplayRuns => ReplayMatchesChain
    <2>. SUFFICES ASSUME log \in Seq(EventType), ReplayRuns,
                         NEW s \in 0..Len(log), NEW o \in Owners
                  PROVE  /\ DOMAIN Aggregate(o, Fetched(s)) = Visible(o, s)
                         /\ s + FetchLimit >= Len(log) =>
                              \A id \in Visible(o, s) :
                                  /\ vaults[id].owner = o
                                  /\ Aggregate(o, Fetched(s))[id].balance = vaults[id].balance
                                  /\ Aggregate(o, Fetched(s))[id].withdrawn
                                       = vaults[id].withdrawn
      BY DEF ReplayTypeOK, EventType, ReplayMatchesChain, Windows
    <2>. QED  BY AggregateShows DEF ShowsVaults, Shows
  <1>. QED  BY <1>1, LogIsTyped, RunsAreRight, PTL

\* The unlock day shown is the day of the real unlock time, or an earlier one when
\* that is outside the parser's years: replay never shows a lock that is longer.
THEOREM ReplayNeverShowsLater == ReplaySpec => []ReplayKeepsUnlockDay
  <1>1. ReplayTypeOK /\ ReplayRuns => ReplayKeepsUnlockDay
    <2>. SUFFICES ASSUME log \in Seq(EventType), ReplayRuns,
                         NEW s \in 0..Len(log), NEW o \in Owners,
                         s + FetchLimit >= Len(log), NEW id \in Visible(o, s)
                  PROVE  LET shown == Aggregate(o, Fetched(s))[id].unlock IN
                         /\ vaults[id].unlock \in KnownDates =>
                               shown = vaults[id].unlock - (vaults[id].unlock % DaySeconds)
                         /\ shown <= vaults[id].unlock
      BY DEF ReplayTypeOK, EventType, ReplayKeepsUnlockDay, Windows
    <2>. QED  BY AggregateShows DEF ShowsVaults, Shows
  <1>. QED  BY <1>1, LogIsTyped, RunsAreRight, PTL
=============================================================================
