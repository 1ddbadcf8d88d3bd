# Stellar TimeLock: specifications, model checking and proofs

TLA+ specifications of the program in this repository: the Soroban contract that
locks money (`contracts/xlm_vault`), and the parts of the mobile client that build,
submit, read back, cache and mirror what the contract does (`src/api`), that keep wallet
seeds (`src/security`), and that encrypt the notebook (`src/notebook`). Every module names the source file it is translated from;
`PROJECT.json` maps every definition to its lines.

## 1. The system

| Component | State it keeps | Operations | Talks to |
| --- | --- | --- | --- |
| **XlmVault contract** (`contracts/xlm_vault/src/lib.rs`) | token address, id counter, vaults, index by owner; its balance in the token contract | `init`, `create_vault`, `deposit`, `extend_lock`, `withdraw`, `get_vault`, `list_owned` | the token contract (`transfer`), ledger time, event stream |
| **Write pipeline** (`soroban-client.ts`: `invokeContract`, `recheckTransaction`; `soroban-errors.ts`) | per call: step, captured server, transaction; the receipts put on the bus | build, simulate, assemble, sign, send, poll; recheck; the read back | RPC servers, the URL fail-over, the signer, the receipt banner |
| **Event parsing and replay** (`parseEvent`, `aggregateVaultsFromEvents`) | none | replay of one owner's events | events of the contract |
| **Event cache** (`fetchContractEvents`) | copy in memory (8 s), copy on disk per contract (24 h) | fetch in pages, fall back to disk, invalidate, drop on a network switch | RPC servers, storage, network selection |
| **Vault list and mirror** (`listVaults`, `getVault`, `pushSnapshotToBackend`, `dismissVaultMeta`, `buildArchivedOverlayFromMetas`) | cached vaults, frozen snapshots, a session flag for the broken simulate path | refresh from four sources, merge, sanitise, overlay, heal, push | contract, events, device cache, backend rows |
| **Vault metadata** (`saveMeta`, `hydrateMetaImpl`) | names and notes on the device | save, read, copy from the backend | backend rows |
| **Wake-up** (`wakeUpVault`) | per call: step, tries, hashes, the signer | probe, restore the footprint, re-simulate, extend the TTL, snapshot | RPC servers, receipt banner, backend |
| **Session keystore** (`session-keystore.ts`) | seed cache, last activity, time of leaving, listeners | get, set, remove, drop, lock; AppState listener | secure storage, biometric prompt |
| **Biometric enrolment** (`biometric.ts`) | root secret, enrolled flag | enroll, unenroll, derive a key | secure storage, OS prompt |
| **Notebook encryption** (`crypto.ts`) | active wallet, cached key, device key | set wallet, get key, reset, encrypt, decrypt | secure storage |
| **Memory wiping** (`secure-wipe.ts`) | none | zero buffers, encode UTF-8 | callers above |
| **Horizon client** (`horizon.ts`) | none | balance and reserve, payments | Horizon REST |

The contract is the authority. Everything else is the client's opinion of it: writes go
through the pipeline, whose answers can be lost or late; reads come from simulation, from
events (cached), from a device cache and from a backend that the client itself feeds.

Hard behaviour, and what makes each part correct:

- *Contract*: all vaults share one pool, so a bookkeeping error of one owner appears as
  somebody else's failing withdraw. Correct when the pool is exactly the sum of the
  vaults, money leaves only for an unlocked vault's owner, and locks only move forward.
- *Pipeline*: a transaction outlives the call that sent it; servers lag; answers are lost.
  Correct when "nothing happened" is only said when nothing happened, receipts agree with
  the ledger, and pending ones are settled.
- *Events*: servers retain a window, pages are limited, unlock times are cut to a day.
  Correct when what is shown is a vault the chain has, with the chain's balance.
- *Cache and list*: awaits interleave with a network switch, with other refreshes, with
  the death of the process and with messages nobody waits for. Correct when no source
  makes up a balance, no known vault disappears, and the contract's word wins.
- *Wake-up*: two transactions, the second of which must follow the first; each may be
  refused, lost or late. Correct when success means a long life on chain, half a wake-up
  is an error, and every transaction has its receipt.
- *Keystore*: storage writes come in pairs, fail, and overlap with locking and removal.
  Correct when no seed is lost or left unreadable and an idle app is locked.
- *Notebook*: every call holds a reference to one cached key object, which a change of
  wallet zeroes; the key without a wallet depends on storage that fails. Correct when
  whatever a sound call encrypted, a sound call decrypts.
- *Biometrics*: the secret can only be seen through a prompt that the user may cancel.
  Correct when an enrolled device has a secret, and always the same one.

`PROJECT.json` lists the hazards one by one, at their lines, with the properties that
would catch each; those without one say why.

## 2. Modules and how they correspond to the code

| Module | Models | Actions |
| --- | --- | --- |
| `XlmVault` | `lib.rs` | one action per entry point, each with its success and its revert (`...Outcome` operators hold the checks in the order of the code); `Tick` (ledger time), `TokenPayment` (owners paying each other, or the contract directly) |
| `TimeLock` | the abstract promise: boxes that each hold their owner's money | `Lock`, `TopUp`, `Prolong`, `Open`, ... |
| `XlmVaultTimeLock` | the refinement mapping: a vault is a box, `INSTANCE TimeLock WITH ...` | |
| `XlmVaultProofs` | theorems about `XlmVault`, the refinement and `EventReplay` | |
| `InvokePipeline` | `invokeContract`, `recheckTransaction`, read back | one action per await (`Build`, `Simulate`, `Sign`, four answers to send, three to a poll, `Read`), `Recheck`; the chain: `Close`, `Drop`, `CatchUp`, `Tick` |
| `InvokePipelineProofs` | theorems about `InvokePipeline` | |
| `EventReplay` (extends `XlmVault`) | events, page limits, `parseEvent`, replay | the contract's actions, publishing; the replay is a recursive function over the events |
| `EventCache` | `fetchContractEvents`, `invalidateAllCaches` | one action per await (the window of ledgers begins at the answer of `getLatestLedger`), `Switch`, `Invalidate`, `Store`, `Restart` |
| `EventCacheProofs` | theorems about `EventCache` | |
| `VaultSync` | `listVaults`, the backend path of `getVault`, snapshots | one action per await of a list (`Start` ... `Finish`), delivery and loss of requests, archival, `Switch` to another network and back, `ForeignCall` (a call that a switch overtook), `Restart` |
| `SessionKeystore` | `session-keystore.ts` | one action per await, `Warm` for what runs after the last one, the AppState listener, `Restart` |
| `SessionKeystoreProofs` | theorems about `SessionKeystore` | |
| `WakeUp` | `wakeUpVault` | one action per await (`LoadSigner`, `Probe`, `Submit`, `Poll` for each transaction, `ReSimulate`), `Die`; the ledger: `Land`, `Elsewhere`, `Age` |
| `WakeUpProofs` | theorems about `WakeUp` | |
| `NotebookCrypto` | `crypto.ts` | `SetActive`, `ResetKeyCache`; one action per await of `encrypt` and `decrypt` with their `getKey` and `readOrCreateMasterKey`; `Restart`, `Reinstall` |
| `NotebookCryptoProofs` | theorems about `NotebookCrypto` and `SeedBytes` | |
| `Biometric` | `biometric.ts` | one action per await of `enroll`; `Unenroll`, `DeriveKey`, `Restart` |
| `BiometricProofs` | theorems about `Biometric` | |
| `Horizon` | the balance of `horizon.ts` | functions, no state |
| `SeedBytes` | `utf8ToMutableBytes`, `wordsFromBytes` | functions, no state |
| `DashboardProofs` | theorems about `VaultSync` and `Horizon` | |
| `MC...` | instances for TLC | |

`EventReplay` composes the contract with the client's reader of it. `VaultSync` uses the
results of `EventReplay` and `EventCache` as an abstraction: its `Events` step returns any
subset of the created vaults (those whose creation is still in the window of ledgers), each
with a balance that it once had, because a list of events may be old and a page limit may
cut the newest (`StalenessBounded`, `ReplayMatchesChain`). That is so while there was no
switch of the network. After one the list may hold the other network's events, whose vaults
have the same owner and the same small ids (`BleedNeedsOverlap` says when), and replay
filters by the owner alone: from then on `Events` may name any vault, as withdrawn or not,
with the amount `Foreign` as well, which stands for whatever the other network's events had
a part in. The same amount comes in with the other awaits of a list that a switch overtakes
(each reads the active deployment anew: rows of the other backend, vaults of the other
contract), with a call that began on the other network and ends on this one
(`ForeignCall`), and with the device's cache, which is loaded and saved under the owner
alone (1645, 1743, 1747, 1941; `vault-cache.ts` itself is not in the repository). Its
`WakeUp` action is the end of a call of module `WakeUp`: the entry is no longer archived and
a snapshot says `live`, with the balance that was simulated before the polls, or with none.

Definitions whose comment begins with `mutant:` are variants of the definition below
them, each with one plausible bug. They are used by no specification; replacing the
definition by its variant makes the property listed with it in `PROJECT.json` fail, which
shows that the property depends on that code.

Outside `src/`, modelled from how the code uses them and marked external: the token
contract, the ledger and RPC servers, the URL fail-over, `vault-cache`, the storage shim,
the backend and the operating system.

### Abstractions

- Contract calls are atomic, as the Soroban host runs them. Integer widths are the
  constants `MaxAmount`, `MaxTs` and `MaxId`; an addition past them fails as `checked_add`
  or `overflow-checks` makes it fail. Vault names are left out.
- The arguments of a call are left out of `InvokePipeline`: equal envelopes have equal
  hashes, which the module keeps.
- `EventCache` makes the retry of one request over the fallback URLs a single step: an
  answer, or a failure on all of them. A page holds one event; `MaxPages` pages are read.
  Each tick closes a ledger of each network; a server answers with the ledger of the moment.
  After a switch in mid-fetch the cursor or the start of the window belongs to the other
  network's ledgers and may lie anywhere among this one's events (`Overtaken`).
- `VaultSync` joins `locked` and `unlocked` into `live` (which of the two is a matter of
  the clock) and keeps, of the unlock time, whether a source knows it. What the other
  network holds is not kept: its sources may say anything that a network's can say. That
  network's own dashboard, which the same code fills, is not looked at.
- `WakeUp` keeps of the ledger entry whether it is archived, short-lived or long-lived. A
  transaction that was sent may land at any later time or never; others may restore or
  extend the entry too (`Elsewhere`).
- `NotebookCrypto` and `Biometric` abstract cryptography: PBKDF2 gives each seed its own
  key, HKDF each secret its own keys, and a record opens under the key it was made with.
  The auxiliary variables `stray`, `lost` and `faults` record how a state came about; no
  action reads them (`stray` goes into the mark of the calls that take the stray key).
- `Horizon` counts in stroops, where the code computes with doubles of XLM.
- `SessionKeystore` assumes that an id is set once (ids are generated) and that the
  storage shim returns failures instead of throwing. Ages stop counting at `Idle`.

## 3. Runs

| Run | Instance | Shows |
| --- | --- | --- |
| `vault` | two owners with a unit each, two tokens, two vaults (a third create overflows the id), two seconds (extend overflows), amounts -1..1 (balances up to 2), fairness | type invariant, exact backing of the pool, index, withdraw never traps, who is paid and when, locks only forward; the contract implements `TimeLock`; an owner who keeps asking is paid in the end |
| `invoke` | two calls, two servers, two polls, one tick of lifetime, fairness | refusals had no effect, landed transactions are reported, receipts tell the truth, pending ones settle |
| `invoke_pending` (violation) | same | a transaction nobody took in is reported pending |
| `replay` | five events, days of two seconds, a fetch returns four | replay shows the chain's balances and the right day, for every retention window |
| `events` | two networks, two fetches, two pages, a window of one ledger | foreign events need an overlapping switch; an answer was fetched less than 8 s + 24 h before, and has the events of the 24 h before that |
| `sync` | one vault, one list, wake-ups, balance up to 2, a switch away and back, two requests under way (one after a switch) | no balance is invented (after a switch it may be the other network's), nothing drops off, the contract wins |
| `sync_heal` (violation) | two vaults, two lists | auto-heal calls an open vault withdrawn |
| `keystore` | two wallets, two calls, `Idle` of two ticks | flags agree with storage, cached seeds are stored, an idle app locks |
| `notebook` | two wallets, two calls, two device keys, one record | the cache holds the active wallet's key, or a legacy key that an overtaken call put there; records of sound calls open again |
| `biometric` | two enrolments, three secrets | an enrolled device has a secret; data stays readable unless a read was refused or two first enrolments overlap |
| `biometric_enroll` (violation) | one enrolment at a time | enrolling again replaces the secret when the second prompt is cancelled |
| `wakeup` | two calls, two polls, two re-simulations, fairness | success means a long life (but for a call that sent no restore because a lagging server showed an archived entry as live), half a wake-up is an error, each transaction has a receipt, every call ends |

The bounds are chosen so that every boundary is reached: the second vault shares the pool
with the first; ids, timestamps and amounts overflow; two calls build the same envelope or
the same sequence number; a page limit cuts events; a switch falls between two pages of a
fetch while another fetch runs. `sync` has one vault because rows of different vaults meet
only in two places: one unreadable vault makes the simulate path throw (`SimulateThrows`
may happen at any read, so the effect is there with one vault), and `sync_heal`, which
uses two. An overlapping list differs from a restarted one only by writing an older cache
or snapshot, and `cache` and `sent` already hold older values.

Two wallets, calls and keys are enough for `notebook`: one call is overtaken by a change
of wallet while another reads or writes the other wallet's record; a record is made under
one device key and read under the other. `biometric` has a third secret so that a secret
can be replaced twice. In `wakeup` the second call is the other device or the impatient
user, whose restore can make the first one's unnecessary.

In `events` two ticks are enough for each way in which an answer ages: a copy that is
written in one tick and read from disk in the next, dated anew and used until the memory
copy expires, and an event that leaves the window of one ledger. In `sync` one switch away
and one back let every await of a list, and every call that ends late, fall on either
network; once there was a switch only one request is kept under way at a time
(`MaxSentAfter`), because reordering of two is explored before it and the rows then already
hold all that the other network can say. `sync` takes about two and a half minutes (6.6
million states), `events` and `vault` (with liveness) about a minute each.

State constraints are guards with named bounds (`MaxRecords`, `MaxLog`, `MaxSent`,
`MaxSentAfter`, `MaxSwitches`, `MaxIo`, `MaxClock`, `MaxEvents`). `CHECK_DEADLOCK FALSE` stands only in the configurations of `EventReplay`,
whose log and clock are bounded and which really stops; every other run checks deadlock.

### Fairness

- `XlmVault`: ledgers keep closing (`WF` of `Tick`), and an owner who wants the money back
  keeps submitting `withdraw` (`WF` of its success). Nobody else owes anything.
- `InvokePipeline`: a call that has started goes on (`WF` of each call's steps: every await
  of the code ends, with an answer, an error or the transport's timeout), servers catch up
  (`WF`), and the user presses recheck again and again (`SF`: the banner stays as long as
  the receipt is pending).
- `WakeUp`: a call that has started goes on (`WF` of each call's steps, for the same
  reason). Nothing is assumed of the ledger: transactions may never land.
- The other modules check safety only and assume no fairness.

## 4. Proofs

Every safety property that a passing run checks is also a theorem, for every value of the
constants that satisfies the named assumptions of its module. What TLC alone checks is at
the end of this section.

### The contract and its events (`XlmVaultProofs`)

Assumptions: the contract's address is no owner, `NoToken` is no token, funds and widths
are naturals, amounts fit their width; for the events, page sizes, limits and the length of
a day are positive, and the parser's years lie within the timestamps.

| Theorem | States |
| --- | --- |
| `TypeCorrect` | `Spec => []TypeOK` |
| `PoolBacked` | `Spec => []Backed` |
| `WithdrawAlwaysCovered` | `Spec => []WithdrawNeverTraps` |
| `EmptyOnlyWhenWithdrawn` | `Spec => []EmptyIffWithdrawn` |
| `IndexIsComplete` | `Spec => []IndexMatchesVaults` |
| `LocksOnlyMoveForward` | `Spec => LockOnlyForward` |
| `PaysOutOnlyUnlocked` | `Spec => PaysOnlyUnlockedOwner` |
| `ContractKeepsPromise` | `Spec => ImplementsTimeLock` |
| `LogIsTyped` | `ReplaySpec => []ReplayTypeOK` |
| `ReplayFollowsTheChain` | `ReplaySpec => []ReplayMatchesChain` |
| `ReplayNeverShowsLater` | `ReplaySpec => []ReplayKeepsUnlockDay` |

The argument. `TypeOK` is inductive; it says that the vaults are exactly those with ids
below `nextId`, which every other proof needs. `Backed` is the heart: it is stated with a
witness, an array of running totals, instead of a sum, so that it can be proved without
induction over the vaults. Each call either appends a total (`create_vault`) or shifts the
totals from one vault on by the same amount (`deposit` up, `withdraw` down); that shifted
totals are totals again is lemma `ShiftedTotals`. Since every running total lies between 0
and what the contract holds, one vault's balance is covered by the pool, which is why
`withdraw` cannot trap: `WithdrawNeverTraps` is not inductive by itself and follows from
`Backed` and `TypeOK` before the step. The action properties follow from lemmas that say
what a step does to `vaults` (one vault added, one rewritten, none). The `...Facts` lemmas
unpack each entry point once. The refinement goes call by call: under the mapping a call
that returns `Ok` is one step of `TimeLock`, a call that is reverted is none.

The replay is a loop over a sequence of any length, and its result cannot be unfolded by
induction over that sequence here. The behaviour of the contract does it instead: the
invariant `ReplayRuns` says, for every part of the log, that a run of the loop over it
exists, that every such run has built the vaults created in that part, and that one which
reaches the end of the log shows those vaults as they are. Publishing an event makes each
of these runs one round longer (`NewRuns`), and one round does to an entry what the call
did to its vault (`CreateReplay`, `ChangeReplay`, `OthersReplay`). What makes the unlock
day inductive is that the day shown is never later than the real time and starts at
midnight: a lock extended out of the parser's years and back is shown right again.
`Aggregate` is a run of the loop (`AggregateIsLoop`), over the window of a fetch.

### The write pipeline (`InvokePipelineProofs`)

For any number of calls and servers (at least one RPC server and one poll):

| Theorem | States |
| --- | --- |
| `CallsAreTyped` | `Spec => []TypeOK` |
| `RefusalsAreTrue` | `Spec => []RefusedHadNoEffect` |
| `LandingsAreReported` | `Spec => []LandedIsReported` |
| `ReceiptsAreTrue` | `Spec => []ReceiptsTellTruth` |

That a refused call had no effect is a fact about somebody else's state, so `IInv` connects
the two sides: what landed was taken in by a server (`LandedWasAccepted`), what was taken in
has a caller that came past `sendTransaction` (`AcceptedHasCaller`), and of the errors a
call can end in after that, only the on-chain one is a refusal, about a transaction that
failed (`OnChainFailed`). That it cannot have succeeded as well is due to the sequence
numbers: a transaction lands at most once (`SeqInOrder`). `ToldIsReported` carries the
receipts: a call that was told what became of its transaction, or stopped asking, has put
it on the bus.

### Wake-up (`WakeUpProofs`)

For any number of overlapping wake-ups, with at least one poll and one re-simulation:

| Theorem | States |
| --- | --- |
| `KeyOnlyWhileSigning` | `Spec => []TypeOK` |
| `SuccessMeansAwake` | `Spec => []WokenUp` |
| `HalfDoneIsReported` | `Spec => []HalfDoneIsAnError` |
| `ReceiptsComplete` | `Spec => []EveryTxHasReceipt` |

What a call may claim at its end rests on how far it has come. `Stage` says of each await
what has been sent, confirmed and reported there; `HashesLanded` that a hash is kept only
of a transaction that landed; `ReceiptOwed` that only the transaction being polled has no
receipt yet; `KeptAlive` that an entry a call has restored, or found live, stays live until
time passes, whatever other transactions land in between. `WokenUp` has two exceptions, each
with an auxiliary variable of its own. `aged`: time passed since the call began. `misled`:
the simulation of the probe came from a server that showed an archived entry as live, so
the call sends no restore, the network passes over its extension of an archived entry, and
the code reports success; whether the entry was archived long before the call or not makes
no difference. A call that did send a restore is never excused by it.

### The event cache (`EventCacheProofs`)

For any finite set of networks, any page limit, any window and any times to live (`MemTTL`
positive):

| Theorem | States |
| --- | --- |
| `CachesAreTyped` | `Spec => []TypeOK` |
| `BleedingNeedsOverlap` | `Spec => []BleedNeedsOverlap` |
| `AnswersAreFreshEnough` | `Spec => []StalenessBounded` |

A fetch reads the events from `startLedger` on, a window before the ledger that was the
latest when it began. So `StalenessBounded` says two things of an answer: it was fetched
less than `MemTTL + DiskTTL` before it was asked for; and it has, up to the page limit, the
events published before it was fetched, except those that were older than the window by
then. With the values of the code the window is as long as `DiskTTL`: an answer from the disk
may lack everything that happened in the last 24 hours, and the vaults of older events are
in no answer (the comment of 1405-1408 accepts that: simulation is the source for them).

`GoodCopy` says what a copy is worth: unless a switch overtook it, it holds events of one
network, and all of those in its window (`Covers`); its date is the time it was fetched, plus
at most a slack. The slack is 0 on disk and `DiskTTL` in memory, because a copy from disk is
dated anew when it enters memory. A fetch carries the same for the pages it has read
(`Walks`).

The attempt to prove `StalenessBounded` showed it false for `MemTTL = 0`, where a copy may
be used in the instant it is dated; the code has 8 seconds, and the assumption now says so.

### The dashboard (`DashboardProofs`)

For any vaults, any number of overlapping lists and any bound on balances (at least 1):

| Theorem | States |
| --- | --- |
| `SourcesAreTyped` | `Spec => []TypeOK` |
| `BalancesAreReal` | `Spec => []NothingInvented`: a live vault's balance is one the chain once held (zero after a blind wake-up) or, after a switch, the other network's, its zero included |
| `NoVaultIsLost` | `Spec => []NothingDropsOff` |
| `ContractIsTheWord` | `Spec => []ContractWins` |
| `SpendableIsAllowed` | what is shown as available may be sent; it is less than the protocol allows exactly by the offers to buy |
| `BalanceAddsUp` | for every account and every response (also one that throws or cannot be read): when something is spendable, spendable, reserve and liabilities add up to the total; when nothing is, reserve and liabilities reach the total; an answer that is not funded shows zeros |

The first property speaks of rows that are shown; it holds because every balance anywhere
(in a message under way, a row of the backend, the device cache, a list that has not
finished) is one that the chain once held or, once there was a switch, `Foreign`, and what
was once held stays so. No delay, loss or reordering can then do harm, which is why one invariant per place is enough
(`SnapshotHeld`, `MetasHeld`, `RowsHeld`, `ListSound`, `ShownRight`). The other two follow
from what `ListSound` keeps about rows that came from the contract. The last two theorems
are about the functions of `Horizon`, for all arguments. `MaxBalance` must be positive,
since a vault is created with at least 1; the value for a missing balance and `Foreign` are
no balances; the number of switches is any natural.

### The session keystore (`SessionKeystoreProofs`)

For any wallets, any number of overlapping calls and any positive idle time:

| Theorem | States |
| --- | --- |
| `KeystoreIsTyped` | `Spec => []TypeOK` |
| `FlaggedSeedsAreBound` | `Spec => []FlagMeansBound` |
| `CachedSeedsAreStored` | `Spec => []CachedIsStored` |
| `AwayMeansLocked` | `Spec => LocksWhileAway` |

The argument. Neither `FlagMeansBound` nor `CachedIsStored` is inductive: the item and its
flag are written in two awaits, and the cache is filled in a third, so in between the truth
of the property rests on what the suspended calls are about to do. `IInv` says what each
await knows. A call of `setWalletSeed` that may still fall back to a plain item is alone
with its wallet (`WriterAlone`): the wallet has no flag and no other call has its seed or is
about to mark it. It got there because nobody could touch the wallet before (`Untouched`),
which is where the freshness of wallet ids is used. A call about to set the flag finds the
item bound or gone (`MarkedIsBound`), and a call with the seed in hand finds it on the
device unless the user is removing the wallet (`HeldIsStored`). There is one lemma per step
of a call, with one step per conjunct of `IInv`; the steps that touch neither the storage
nor the calls (a cached read, the lock, the listener, the clock) share `QuietStepKeeps`.
The lock needs only that the clocks are in range and that the time of leaving and the time
spent away are set and cleared together (`ClockOK`).

### Biometric enrolment (`BiometricProofs`)

For any number of overlapping calls and any set of secrets that `NoSecret` is not in:

| Theorem | States |
| --- | --- |
| `SecretsAreGenerated` | `Spec => []TypeOK` |
| `EnrolledDeviceHasSecret` | `Spec => []EnrolledHasSecret` |
| `ProtectedDataReadable` | `Spec => []DataStaysReadable` |

The inductive invariant adds what a suspended `enroll` is about to do: one that waits to
save has a real secret in hand and, while nothing went wrong, is the only one, on a device
that has none (so that nothing can be protected yet); one that waits to set the flag finds
a secret behind it.

### The notebook (`NotebookCryptoProofs`)

For any wallets, calls, device keys and number of records (`NoKey` is no key):

| Theorem | States |
| --- | --- |
| `CallsAreTyped` | `Spec => []TypeOK` |
| `DerivedKeyTakesOver` | `Spec => []KdfTakesOver` |
| `WalletRecordsStayReadable` | `Spec => []WalletRecordsOpen` |
| `DeviceRecordsStayReadable` | `Spec => []DeviceRecordsOpen` |
| `UnitsKeepTheirMeaning`, `PairsKeepTheirMeaning` | a UTF-16 unit or surrogate pair can be read back from the bytes that `utf8ToMutableBytes` writes |
| `WordsKeepBytes` | `wordsFromBytes` loses no byte, for any number of bytes |

The argument is about the right key of an owner (`Right`): the derived one of a wallet, the
device's own without one. A call that nothing disturbed works with the right key of the
owner it began under (`Good`), so a record it makes is under that key (`RecordsRight`), and
the right key stays the right one (`RightPersists`), because the device's is written once
unless something went wrong with it; `OneLaunch` says so for the calls of a first launch.

`utf8ToMutableBytes` puts the characters of a string together by recursion: the theorems
are about each character, the concatenation would need induction over data.

### Only model-checked

The liveness properties `EventuallyPaidOut`, `PendingSettles` and `WakeUpEnds`: liveness
under fairness is out of the prover's reach. The inductive invariants quantify over states
only, except `ReplayRuns` and `Backed`, which speak of the existence of a function; TLC
checked what they imply (`ReplayMatchesChain`, and `Backed` itself on the small instance).

## 5. Where code and comments disagree

Three runs end in a violation; each states what a comment says of the code, and
`PROJECT.json` quotes it under `findings`: a pending receipt for a transaction that was
not submitted (`invoke_pending`), auto-heal of open vaults (`sync_heal`), and a secret that
is regenerated when the second prompt is cancelled (`biometric_enroll`).

Three more statements of comments are defined in the modules, are not kept by the code,
and have no run of their own. Adding the definition to the configuration named here as an
`INVARIANT` shows the trace:

- `EventReplay!ReplayUnlockExact` (`EventReplay.cfg`): the unlock time of a replayed vault
  is cut to midnight UTC; no `raw_unlock_ts` exists, although `soroban-client.ts:1451-1453`
  says so.
- `EventCache!NoBleed` (`EventCache.cfg`): a fetch that a network switch overtakes fills
  the cache of the new network with events of the old one, against 1112-1114.
- `SessionKeystore!ListenersKnow` (`SessionKeystore.cfg`): removing or dropping the last
  cached wallet empties the cache without telling the listeners, against
  `session-keystore.ts:84-86`.

Met while modelling, without a property of their own:

- `soroban-client.ts:1414-1417` says that "Future deposits/extends on a withdrawn vault are
  still applied (the contract permits a non-zero balance on a withdrawn vault if the caller
  re-deposits)". The contract does not permit it: `deposit` and `extend_lock` refuse a
  withdrawn vault (`lib.rs:154`, `183`) and `withdraw` empties it (`lib.rs:215`), so the
  balance stays zero and the lock where it is. `EmptyIffWithdrawn` and
  `LockOnlyForward` check, and `EmptyOnlyWhenWithdrawn` and `LocksOnlyMoveForward` prove,
  the opposite of that comment. The replay's case for it is never reached by events that
  the contract publishes.
- `soroban-client.ts:1411` says that events come from the RPC in descending order of ledgers.
  `fetchContractEvents` pages from `startLedger` upwards, which gives the oldest first, and
  that is why the limit of 1188 cuts the newest; `EventCache` and `EventReplay` do the same.
  The replay's sort by time is stable, so it keeps the order of the pages within one ledger.
- `crypto.ts:203-206` says that once a wallet is set the cache is invalidated and the
  derived key takes over. A legacy `getKey` that was under way puts its key back;
  `KdfTakesOver` allows that case and no other: such a key is the device's or the fixed one
  of a browser without storage, never another wallet's, and a call that a change overtook
  put it there (`stray`).
- `crypto.ts:236`: an `encrypt` that awaits its IV while the wallet changes encrypts under
  a wiped (empty) key, and reports success. `WalletRecordsOpen` speaks of sound calls only.
- `biometric.ts:28-31` says the notebook upgrades to the biometric key; `crypto.ts` never
  calls `deriveKey`.
- `wakeUpVault`: when the extension fails or times out after a restore, the error is a
  `SorobanOnChainError` that names the restore, which succeeded
  (`soroban-client.ts:2375-2378`; `HalfDoneIsAnError` has that case). "Step C ALWAYS runs
  after a successful restore" (2287) does not cover a `loadAccount` that throws (2343).
  The snapshot at the end says `live` also of a withdrawn vault.
- `horizon.ts:14` gives the spendable balance without the buying liabilities, and
  `horizon.ts:54-57` calls it the maximum that can be sent; the code subtracts them too
  (141-143), which theorem `SpendableIsAllowed` makes precise.

## 6. Not modelled, and why

- The metadata of a vault (`saveMeta`, `getVaultMeta`, `hydrateMetaImpl`): its name,
  description and withdrawal destination, kept on the device under owner and vault id and
  copied from the backend's rows when they are missing. No balance, status or lock depends
  on it. What a module of it would have to look at: the copy reads and writes in two
  awaits, so it can undo a change made in between, and the device's key lacks the contract,
  so two networks share the metadata of vaults with the same id.
- The history lists (`vaultTransactions`, `allTransactions`, `fetchArchivedCreateEvents`):
  they read what `EventReplay` and `EventCache` model and add rows of the backend.
- `fundViaFriendbot`, `fetchWalletPayments` of `horizon.ts`: one request and formatting.
- `wipeBytes`, `wipeWordArray`, `wipeKeypair`: zeroing a buffer is data. What it does to
  those that still hold the buffer is in `NotebookCrypto` and `WakeUp`.
- `isEncryptedPayload` and payloads that are malformed; AES, PBKDF2, HKDF; formatting,
  logging and error wording: data.
- `installIdleLock` and `uninstallIdleLock`: the listener is installed once at start.
- Real time: clocks are counters.

## 7. Plan

Done, in this order: `XlmVault`, `TimeLock` and the refinement, `XlmVaultProofs`,
`InvokePipeline`, `EventReplay`, `EventCache`, `VaultSync`, `SessionKeystore`,
`SessionKeystoreProofs`, `NotebookCrypto`, `Biometric`, `WakeUp`, `BiometricProofs`,
`Horizon`, `SeedBytes`; then the theorems about `InvokePipeline`, `WakeUp`,
`NotebookCrypto`, `EventCache`, `VaultSync`, the index and the refinement of `XlmVault`,
and the replay of its events.

Still worth proving: that a fetch of `EventCache` returns to `VaultSync` what its `Events`
step allows, which would join the two modules by a theorem instead of by an argument; and
that `ReplayUnlockExact` fails only by the time of day.
