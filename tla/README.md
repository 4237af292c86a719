# X4C carbon credits: specifications

X4C keeps tokenised carbon credits on a Tezos chain. Credits are minted as
tokens of an FA2 contract, held on-chain by wallets or, for parties without a
wallet, by a custodian contract, and leave circulation by being retired. This
directory specifies the two contracts, the service that retires credits, the
commands that call contracts and those that read them back, and the list of
contract names in TLA+, checks them with TLC on small instances, and proves
results about them with TLAPS for every instance.

## The system

| Component | Source | State | Operations |
|---|---|---|---|
| FA2 token contract | `src/fa2.mligo` | oracle, ledger (owner and token id to amount), operators, token metadata, contract metadata | transfer, update_operators, mint, retire, add_token_id, update_contract_metadata, update_oracle; balance_of and two views read |
| Custodian contract | `src/custodian.mligo`, `lib/list.mligo` | custodian (admin), ledger (party and token to amount), external ledger (token to amount), operators | internal_mint, internal_transfer, external_transfer, retire, update_internal_operators, update_custodian; one view |
| Tezos client | `backend/pkg/tzclient` | wallets and contracts read from files | CallContract and Originate (with retries), SaveContract, reads through the indexer |
| X4C bindings | `backend/pkg/x4c` | none | one function per entrypoint, storage and event decoding |
| Indexer client | `backend/pkg/tzkt` | none | one GET per question |
| REST server | `backend/cmd/server` | operator wallet | retire, credit sources, operation and event lookup |
| Command line tool | `backend/cmd/x4cli` | the contract list file | originate, mint, transfer, sync, retire, info |
| TypeScript clients | `frontend/src` | none | one fetch per question |

How they interact. The two contracts do everything that changes who owns what.
The custodian contract is an ordinary holder of FA2 tokens: it owns a balance
in any number of FA2 contracts and divides it among *parties* (opaque KYC
bytes) in a ledger of its own. `internal_mint` synchronises it, by reading
`view_balance_of` of an FA2 contract and booking what is new on the party
`"self"`; `internal_transfer` moves credits between parties;
`external_transfer` and `retire` take them out of the books at once and *emit*
one operation per FA2 contract, which Tezos executes after the call. If an
emitted operation fails, Tezos undoes everything the call did in both
contracts. The Go programs sign and inject calls through a Tezos node, and read
storage, big maps and events back from an indexer that follows the chain.

What makes each component correct:

- *FA2*: credits exist exactly as minted and not retired; balances fall only by
  authority of the owner; only defined token ids are held and what they mean
  never changes.
- *Custodian*: its two ledgers agree; parties are debited only by authority;
  operators can retire a party's credits but never send them out of custody.
- *Together*: books are backed by tokens, what is emitted is not refused, syncs
  are idempotent, both contracts report the same retirements, and the pair is a
  single book of credits.
- *Client and server*: a retirement is executed once per request and reported
  truthfully; what is shown is some state the chain was in; a contract that was
  originated is in the contract list, or there is a command that did not succeed
  or did not run alone.
- *Commands and bindings*: what a command does on the chain is what its words
  say, although names, addresses, token ids and amounts pass through two lists
  of names and two programs that share no types.

What is hard: lists folded over one ledger with repeated and self-referring
entries; two ledgers that must move together through nested folds; operations
that execute after the call that books them, and can fail one by one; the FA2
balance changing between syncs; and, off-chain, retries after lost answers,
reads spread over several requests, lost updates of the contract list, and
parameters written by hand against layouts a compiler chooses. The hazards, each
at its line and with the properties that cover it, are in `PROJECT.json`.

## The modules

| Module | Models |
|---|---|
| `Balances` | the idioms both contracts are written in: `update_balance`, `List.fold` with `failwith` |
| `Tezos` | what both contracts share besides: addresses and tokens |
| `FA2` | `src/fa2.mligo`, a family of contracts indexed by address |
| `Custodian` | `src/custodian.mligo` with an environment that answers views and operations as it likes |
| `X4CChain` | both on one chain: FA2 answers the custodian's views and executes what it emits |
| `CustodianEvents` | `Custodian` with a reader who adds up its events |
| `CreditBook` | abstract specification: one book of credits that are issued, change hands and are retired |
| `Bindings` | `backend/pkg/x4c/*_entrypoints.go`: the parameters of each entrypoint as trees, and the types they are sent to; no state |
| `CommandLine` | the commands that call a contract and POST retire, from the words typed to what both contracts do: names, signers, `Bindings`, then `X4CChain` |
| `RetireService` | the POST that retires credits: the handler, `CallContract`, `rpc.Client.Send` of tzgo and a Tezos node |
| `Indexer` | what commands that read through the indexer share: requests one after the other, blocks between them, a failed or unreadable answer |
| `BigMaps` | big maps as the indexer lists them, with removed keys; no state |
| `CustodianView` | GET /credit/sources and `custodian info` beside a custodian contract that is called |
| `FA2View` | `fa2 info` beside an FA2 contract that is called |
| `ContractRegistry` | the file of contract names and the originate commands, each a process that can be killed |
| `MCFA2`, `MCCustodian`, `MCX4CChain`, `MCCommandLine` | symmetry, the lists given to `internal_mint` and the homes of commands, for TLC |
| `OperatorProofs` | lemmas on operators: folds, sums over finite sets, induction over sets of numbers and sets, what an update of a balance does to a total |
| `ContractProofs` | the FA2 contracts conserve credits and what a token id stands for is fixed; the custodian's books balance and its events tell its ledger; debits have authority in both; proved |
| `X4CChainProofs` | both contracts on one chain: custody, agreement of the events, backing of the books, and that they implement `CreditBook`, proved |
| `CommandLineProofs` | commands call the contracts and do what they are named for, and what is proved of the contracts holds under them, proved |
| `CustodianViewProofs` | what GET /credit/sources and `custodian info` show is of blocks that were the latest while they ran, proved |
| `FA2ViewProofs` | `fa2 info` misses no credits and describes every id it shows, proved |
| `RetireServiceProofs` | what answers of the service mean, and that a POST retires credits once at most, proved |
| `ContractRegistryProofs` | names in the list are true, and what is missing from it or makes it unreadable has a cause, proved |

### State and actions

`Tezos` and `Balances`. `sender` is the caller of the last call. `UpdateBalance`
is the code's `update_balance`: an entry that reaches 0 is deleted there and an absent one
read as 0, so a total function with 0 for absence is the same ledger; a balance
that would fall below 0 is `Failed`. `ListFold` folds a list over a storage and
stays `Failed` once a step is, which is what `failwith` does to a call. A call
that fails is no step of the contract.

`FA2`. Each entrypoint is an action `(c, caller, list)` of contract `c`. The
nested lists of `transfer` (a giver, then receivers) are flattened: the code
folds over them in that order and checks each entry by itself. `minted` and
`fa2Retired` are history variables, the second one the sum of the `%retire`
events; nothing reads them but properties.

`Custodian`. Each entrypoint is an action. `external_transfer` and `retire`
keep the grouping per `token_address`, since an operation is emitted for each,
and flatten the lists of givers inside a group. `Emit` puts the operations into
`outbox` and the books into `before`; `OperationApplied` and
`OperationRejected` are what Tezos does next, and no call starts before the
outbox is empty, as internal operations of a call run before any other call.
A `token_address` outside `FA2s` answers no view (`NoView`) and has no
entrypoints. `SyncBatches` is the set of lists `internal_mint` is called with.

`CustodianEvents` adds a reader to the custodian. `replay` is what the events it
has seen add up to and `replayBefore` what it goes back to when a call is
undone. Each entrypoint's events are built from its parameters, as the code
does, and not from the change of the ledger: `internal_mint` leaves out entries
of nothing, `internal_transfer` and `retire` flatten nested lists, and
`external_transfer` emits none, after which the reader gives up (`NoReplay`).

`X4CChain` extends both. `ApplyOperation` conjoins the custodian's
`OperationApplied` with the FA2 action of the emitted operation, executed with
the custodian contract as sender; `RejectOperation` is enabled only when that
action is not, and takes both contracts back to `before` and `chainBefore`.
`kycRetired` is a history variable, the sum of the custodian's `%retire`
events.

`CreditBook` knows no contracts, batches or operations. `X4CChain` maps it:
wallets own their FA2 balances, parties what the custodian's ledger says and
the custodian contract its FA2 balance less the external ledger, that is what
has arrived and has not been synced. While operations execute the books of the
last completed call are taken (`Settled`), so a call whose operations are
refused is a stutter, and a completed one is a single step.

`RetireService` is about one account, the operator's, and one party's credits,
a number. A request's handler goes through the steps of `Send`: `complete` (the
operation gets the account's next counter), `simulate`, `inject`, `wait` for a
block, fetch the `receipt`. The operation is built before `CallContract`'s loop
and passed to `Send` by pointer, so a counter once given stays. Each remote
call may fail with an `url.Error` before the node has acted or after
(`TransportError`), and `Retry` is the loop's answer to it. `Disconnect` is the
client closing its connection, which cancels `r.Context()`: the remote calls
after it fail with an `url.Error` and waiting ends with another error
(`Cancel`). The node holds one pending operation of the account at a time, as
Tezos nodes do, and takes it into a block or drops it when its branch is too
old. `OtherCall` stands for everything else that touches the account or the
party's credits. Blocks are final: there are no reorganisations. tzgo and the
node are not in the repository and are modelled from what the code expects of
them. `lost` and `executions` are history variables: the requests whose handler
has lost track of its operation, and how often each request was executed.

`Bindings` has the trees of Michelson pairs the Go functions write (`NewPair`,
`NewNat`, ... of tzgo) and the contracts' record types as paths to their fields.
`Comb` and `Balanced` are LIGO's two layouts; the types that result are those
quoted in the comments of the Go code. `Field` takes a field from a tree as the
contract does, and `FitsEntrypoint` is the check the node makes, which knows
kinds and no names. A KYC is packed by the bindings (`Pack`) and a reason is not
(`Raw`); the contract's own key is the packed `"self"`.

In `CommandLine` a *home* is what `LoadClient` reads: the contract list, secret
keys, public key hashes, and whether a remote signer is configured. A *word* is
what a user types, a name or an address; `ContractByName`, `WalletArgument` and
the fallbacks of each command are those of the code. A command is a function of
its words and its home (`RunRetire` and the others, `PostRetire` for the
server), giving the operation it sends, with what was asked kept beside it for
the properties. `Submit` sends it, what the call before it has emitted may still
be executed (`ApplyOperation`, `RejectOperation`), and one `Execute` action per
entrypoint decodes the parameters by the contract's type and calls the contract
as `X4CChain` has it. `Fail` is everything that ends an
operation without effect. One command is under way at a time: a command reads
nothing from the chain before it sends, so that sending it commutes with what
other commands do, and any number of them at once does what they do in the
order their operations are executed in. What retries do is `RetireService`'s
matter. A token owner of `fa2 mint` is a wallet or the
custodian here: credits of an FA2 contract could never move again.

`Indexer` keeps the contract after each block the indexer has (`blocks`) and
answers a request from the last of them. A big map is listed with all keys that
were ever set: a removed one is inactive and has its last value
(`BigMapItems`), which is how the code's own tests show them. Blocks are not
taken back and an answer holds the whole list: the code asks for no limit and no
page, so what an indexer's page size leaves out is not modelled. A command is
the list of its requests (`todo`) and what it has read (`seen`); it ends when a
request fails or an answer is not understood, and `Finish` begins the next.
`CustodianView` and `FA2View` add the contract, one call with one entry per
block, and the decoders. A call's guards on the caller are left out: they bound
who calls and not what a reader sees. Amounts are unbounded on the chain and
decoded into `int64`, `MaxInt64` here. `legible` says whether
`MichelsonToString` understands the texts of an event. In `CustodianView` the
texts of ledger keys fall back to their raw form, as the code's do.
`minted` of `FA2View` is a history variable of the chain's.

`ContractRegistry` has a process per command. `LoadClient` reads the file,
`Originate` puts a contract on the chain, with or without the command being
told, `OpenFile` and `WriteFile` are the two halves of `ioutil.WriteFile`, which
empties the file before it writes. A write into a file that another command has
written since it was opened may leave a mixture (`Garbled`). `Kill` ends a
command anywhere. `beside` is a history variable: the commands each one ran at
the same time as. What a retry of `Originate` does rests on tzgo: `Deploy` is
given no operation and so makes a new one each time.

Definitions named `Mutant` in their comments are deliberate variations of the
one after them. Each is a bug the code could have, and the run named in
`PROJECT.json` shows that the property would notice it.

## The runs

| Run | Question | Bounds |
|---|---|---|
| `fa2` | Does one contract conserve credits, respect authority, and keep the grants, definitions and balances of one token id out of another's? | 2 wallets and the custodian contract, all of which call; 2 token ids, 1 credit of each; lists of up to 2; 1 operator at a time |
| `custodian` | Do the custodian's own promises hold whatever FA2 contracts answer, and do its events add up to its ledger? | 2 wallets, 2 parties, an FA2 contract and an address that is none, amounts 0 and 1, lists of up to 2, any sync list |
| `chain_single` | Do the contracts together keep what they promise when synced as the clients do it, also when one call reaches into two FA2 contracts? | 1 wallet, 2 parties, 2 FA2 contracts, 2 credits of each, lists and groups of up to 2 |
| `chain_any_sync` | What survives when books exceed holdings and operations are refused half-way? | as before, 1 credit of each, any sync list, 1 operator at a time |
| `retire` | Does a POST retire once at most, what does its answer mean, and is it always answered? | 2 POSTs, amounts 0 to 2, up to 2 credits, 1 other call of the account, 1 retry each |
| `custodian_view` | Is what GET /credit/sources shows one state of the contract, and in which order is what `custodian info` shows? | 2 parties, 1 token, amounts 1 and 2, 3 calls around and between the requests, `int64` up to 3 |
| `fa2_view` | Does `fa2 info` miss credits or show undescribed ids? | 2 owners, 2 token ids, amounts 1 and 2, 4 calls, `int64` up to 3 |
| `registry` | Can the contract list be trusted? | 3 commands, 2 names, 1 retry, killed anywhere |
| `commands` | Does a command do what its words say, or nothing? | 2 wallets, an FA2 contract, two homes that list all or little, 7 words, 2 token ids and amounts -1 to 1, 1 credit of each id |
| `chain_sync_twice` | Is `internal_mint` idempotent for any list? | violated: see below |
| `retire_reported` | Are the credits retired when the answer says so? | violated: see below |
| `commands_named` | Is the token address a command sends the one it was given? | violated: see below |

Why the bounds are enough. Entries of a list interact only through a common
ledger key, and two entries are enough for each way to share one: the same
giver, the same receiver, a receiver that gives on, and oneself. Two credits let
a balance be partly spent and a sync add to books (`chain_single`); amounts
beyond a balance occur in every run; amount 0 covers empty transfers in
`custodian` and `retire`. What `FA2` and `Custodian` conserve is proved for all
amounts. Two holders on each side, with the custodian contract and `"self"` as
special ones, let credits leave and come back. Two FA2 contracts are needed for
one operation of a call to be refused after another has been applied. Bounded
counters: `MaxSupply` (mints), `MaxOperators` and `MaxKycOperators` (sizes of
operator sets), `MaxBatch` (lengths of lists), and in `RetireService`
`MaxCounter` (other calls of the account) and `MaxCredits`. `MaxRetries` is the
code's `maxRetries`, 5 there and 1 in the run: one retry meets an operation that
was taken, one that was not and one whose counter is gone, and a second would
meet the same; the proofs are for any number. Two POSTs are enough for two
handlers to be given the same counter. `MaxBlocks` bounds the calls a reader
meets: a mint, a transfer and a debit of it can each fall before, between and
after the requests, and amounts up to 2 reach past an `int64` of 3. In
`commands` token ids and amounts come from the same numbers, so that a swap of
the two is not refused by the node; one home lists everything, with a name that
is both a wallet's and a contract's and a wallet without a key, the other has a
remote signer and lists neither the FA2 contract nor the operator; the words
include names, listed and unlisted addresses, and names of the wrong kind. A
command sends lists of one, and the commands before it make every state one
credit of each id can give. Three commands are enough for one to have saved
before two others race, and two names for these to be the same or not. Wallets
are interchangeable, as are the FA2 contracts of the chain, and taken as
symmetry sets in the passing runs of the contracts, which check no liveness.

Fairness. The contracts have none: nobody has to call. `RetireFairness` asks
that a handler with a step to take takes one, since goroutines are scheduled
and a remote call returns or fails, and that a pending operation does not stay
pending, since its branch grows too old. It asks neither that the node ever
takes an operation nor that a transport error ever ends, nor that clients post
or stay connected.

Neither the Go HTTP client nor the commands set a timeout, so that a remote call
ends is an assumption on the node and not something the code ensures. The views
and the registry claim no liveness.

Commands need none: `commands` claims no liveness. Deadlock is checked in every
run but `registry`, where the
machine stops when no command runs any more: an FA2 contract and the custodian
can always be called, an emitted operation is either applied or rejected, around the
service other calls of the party's credits go on, and a reader can always fail
or begin again.

### What the properties say

- `SupplyConserved`: what the oracle has minted of a token is in somebody's
  balance or in a `%retire` event.
- `OnlyDefinedTokensHeld`, `TokenMetadataFixed`: a held token id can be looked
  up, and its meaning never changes.
- `DebitAuthorised`: an FA2 balance falls only in a call of its owner or an
  operator appointed for that token id.
- `LedgerSumsToExternal`: the parties' ledger adds up to the external ledger.
- `EventsGiveLedger`: as long as nothing has left by `external_transfer`, the
  events add up to every party's balance, after undone calls as well.
- `HolderDebitAuthorised`, `OperatorsOnlyRetire`: who may debit a party, and
  that what anybody but the custodian takes out is retired, to the last credit.
- `Backed`, `NothingRefused`: the custodian books no more than it holds, so no
  FA2 contract refuses what it emits.
- `RefusedOnlyIfUnbacked`: with any sync list, an operation is refused only if
  the books had exceeded the holdings when the call began, and not for what
  the call itself has done before it.
- `SyncIdempotent`: after a sync that booked something the books are level.
- `CustodyHeld`: the custodian's tokens move only by operations it emitted.
- `RetireEventsAgree`: the custodian's retirement events and those of the FA2
  contracts report the same amounts, refused calls included.
- `ImplementsOneBook`: `X4CChain` implements `CreditBook`.
- `AtMostOnce`: whatever is retried, lost or concurrent, a POST retires its
  credits once at most.
- `SuccessIsInBlock`: the hash of a successful answer is in a block.
- `ErrorLeavesNothing`: an error means that nothing was and nothing will be
  retired, unless an answer was lost after the node had taken the operation or
  the client had left. In those two cases an error means nothing, and a client
  that posts again may retire twice.
- `EveryPostAnswered`: the loop always ends, also when the node is unreachable,
  when no block takes the operation and when two POSTs exclude each other.

- `SourcesOfOneBlock`: the credits GET /credit/sources shows are the ledger
  after one block that was the latest while it ran, without removed entries.
- `EventsReachLedger`, `ExternalNotOlder`: what `custodian info` shows is from
  different blocks, but its events and external ledger are never older than its
  ledger, so that every credit shown can be followed through the events.
- `NothingVanishes`, `ShownTokensDefined`: balances and retirements shown by
  `fa2 info` add up to at least what was minted when it began, and every id it
  shows is among the metadata it shows.
- `ViewTypeOK` of both views: no amount is shown that is not an `int64`.
- `EffectAsNamed`: the balances, grants, token ids and events of both contracts
  change as the words of the command say, or not at all.
- `ParametersFit`: unless a negative number or a word that is no wallet was
  typed, what is sent is of its entrypoint's type.
- `CommandsAreCalls`: every step of `CommandLine` is one of `X4CChain` with
  single-token syncs, or none: what `chain_single` shows holds for the program.
- `NamesAreTrue`: a name in a list that can be read stands for a contract
  originated under it.
- `LossesAreExplained`: a contract on the chain is in the list, if that can be
  read, unless its command runs, has failed or was killed, or it is of a try
  whose answer was lost, or a command that has saved ran beside its command. A
  command that ran earlier or later, or failed, costs no other its entry.
- `DamageIsNoticed`: a list that cannot be read was left by a command that had a
  contract to save and is writing, has failed or was killed, or by two at once.

### Findings

- `chain_sync_twice`: `docs/key-management.md:165` calls `internal_mint`
  idempotent. With a token twice in its list the new credits are booked twice,
  since every entry is compared with the books before the call. The clients of
  the repository send one token per call, and there it is idempotent
  (`chain_single`). When books exceed holdings, operations can be refused:
  `chain_any_sync` shows that a refusal leaves no trace.
- `retire_reported`: `CallContract` looks at whether there is a receipt and not
  at the result in it (`tzclient.go:348`). If the party's credits go between the
  simulation and the block, the operation fails in its block and the service
  answers "Successfully retired credits" (`retire.go:99`). The operation's hash
  is in the answer, so that a client can ask an indexer. This rests on tzgo returning
  the receipt of a failed operation like that of an applied one.
- `commands_named`: `internal_mint` given an FA2 contract that is not in the
  list parses its first argument instead of the third
  (`custodian_internal_mint.go:66`) and sends the custodian contract's address;
  `internal_transfer` has the same slip (`custodian_internal_transfer.go:66`)
  and does not find a listed contract by its address (line 64). The run
  `commands` shows that no credits move for it: the sync is refused, since the
  custodian has no view that answers for itself, and a transfer finds no
  credits, except one of nothing or to oneself, which succeeds and leaves an
  event with the wrong address.

Observed while modelling, in the model as the code has it, and without a run:

- `GetExternalLedger` takes every key of the big map, also the inactive ones
  (`custodian_state.go:89`), unlike `GetLedger` (line 59): when the last credits
  of a token have left, `custodian info` goes on showing the amount it had;
- an internal transfer's event is decoded backwards, its source into `RawTo` and
  its destination into `RawFrom` (`custodian_events.go:30`), and
  `custodian info` prints it so;
- `add_operator` and `remove_operator` complain of an operator they cannot
  resolve and send the operation all the same, without an address
  (`custodian_update_operators.go:78`): the node refuses it;
- a wallet given by its address has no key even if the list has one for it
  (`WalletArgument`): without a remote signer the command fails;
- a name listed as a wallet and as a contract is a wallet to `fa2 mint`
  (`fa2_mint.go:71`) and a contract where a contract is asked for;
- `GET /credit/sources` shows a KYC that does not unpack in its raw form, and no
  POST can name that party, since `CustodianRetire` packs what it is given;
- `docs/key-management.md` describes the tokens minted as the oracle's own and
  operators as appointed by the oracle; `fa2 mint` names any owner and the
  contract lets the custodian alone appoint operators;
- `NewClient` tests `RPCURL` twice (`tzclient.go:105`), so that a server without
  an indexer's URL starts, and `LoadClient` guesses the indexer from the RPC
  address only if that comes from the file, then overwriting the environment's
  (`tzclient.go:146`);
- the answers of GET /operation have no field for whether the operation was
  applied, though the indexer's have;
- the token id of an FA2 retirement is always shown as 0, since its decoder
  names another field (`fa2_events.go:15`); `DecodedRetirement` models it, and
  `NothingVanishes` adds up over all ids for this reason;
- one retirement whose reason or KYC `MichelsonToString` does not understand
  makes `custodian info` fail for good (`custodian_events.go:77`), though the
  contract takes any bytes;
- the two ledgers of a `custodian info` snapshot come from separate requests
  (`custodian_info.go:97`) and can disagree;
- a contract can be missing from the list although its command reported success:
  `SaveContract` writes back what its process read at its start
  (`tzclient.go:292`), and a retry of `Originate` makes a second contract
  (`tzclient.go:423`): these are the last two cases of `LossesAreExplained`;
- a transfer from an owner to itself succeeds with any amount, because the
  receiver is credited first (`fa2.mligo:132`); the ledger is unchanged.

## The proofs

Proved for every set of callers, parties and tokens, all amounts and lists of
any length:

- `ContractProofs`, from `FA2Spec`: `FA2TypeCorrect` (`[]FA2TypeOK`: no balance
  is ever negative), `CreditsConserved` (`[]SupplyConserved`), `HeldTokensDefined`
  (`[]OnlyDefinedTokensHeld`), `DefinitionsFixed` (`TokenMetadataFixed`) and
  `FA2DebitsAuthorised` (`DebitAuthorised`);
- `ContractProofs`, from `CustodianSpec`: `CustodianTypeCorrect`
  (`[]CustodianTypeOK`), `BooksAlwaysBalance` (`[]LedgerSumsToExternal`),
  `DebitsAuthorised` (`HolderDebitAuthorised`) and
  `OperatorsRetireWhatTheyTake` (`OperatorsOnlyRetire`); from `EventsSpec`:
  `EventsTellLedger` (`[]EventsGiveLedger`);
- `X4CChainProofs`, from `ChainSpec`, whatever lists are synced:
  `ChainTypeCorrect` (`[]ChainTypeOK`), `CustodyIsHeld` (`CustodyHeld`),
  `RetirementsAgree` (`[]RetireEventsAgree`) and `RefusalsAreUnbacked`
  (`[]RefusedOnlyIfUnbacked`);
- `X4CChainProofs`, if no sync names a token twice: `AlwaysBacked` (`[]Backed`),
  `OperationsSucceed` (`[]NothingRefused`), `SyncsAreIdempotent`
  (`SyncIdempotent`) and `OneBookImplemented`: `ChainSpec =>
  ImplementsOneBook`, the two contracts refine `CreditBook`;
- `CommandLineProofs`, from `CommandSpec`, for any words, homes and numbers:
  `CommandsCallTheContracts` (`CommandsAreCalls`, and `ChainSpec` itself),
  `CommandTypeCorrect` (`[]CommandTypeOK`), `ParametersAlwaysFit`
  (`[]ParametersFit`), `EffectsAreAsNamed` (`EffectAsNamed`) and, without a
  hypothesis on syncs, `ProgramKeepsBacking` (`[](Backed /\ NothingRefused)`),
  `ProgramSyncsAreIdempotent` (`SyncIdempotent`) and `ProgramKeepsOneBook`
  (`ImplementsOneBook`);
- `CustodianViewProofs`, for any number of calls between a command's requests:
  `ViewTypeCorrect` (`[]ViewTypeOK`), `SourcesShowOneBlock`
  (`[]SourcesOfOneBlock`), `LedgerIsTold` (`[]EventsReachLedger`) and
  `ExternalKeepsUp` (`[]ExternalNotOlder`), each from `ViewSpec`;
- `FA2ViewProofs`, likewise: `ViewTypeCorrect` (`[]ViewTypeOK`),
  `NothingIsMissed` (`[]NothingVanishes`) and `TokensShownDefined`
  (`[]ShownTokensDefined`), each from `ViewSpec`;
- `RetireServiceProofs`, for any number of requests, retries and other calls:
  `RetireTypeCorrect` (`[]RetireTypeOK`), `NeverTwice` (`[]AtMostOnce`),
  `SuccessInBlock` (`[]SuccessIsInBlock`) and `ErrorIsFinal`
  (`[]ErrorLeavesNothing`), each from `RetireSpec`;
- `ContractRegistryProofs`, for any number of commands, names and retries:
  `RegistryTypeCorrect` (`[]RegistryTypeOK`), `NamesAlwaysTrue`
  (`[]NamesAreTrue`), `LossesAreAllExplained` (`[]LossesAreExplained`) and
  `DamageAlwaysNoticed` (`[]DamageIsNoticed`), each from `RegistrySpec`.

Assumptions on the constants: finitely many wallets and parties, `"self"` is a
party, FA2 contracts are among the addresses a caller can name, amounts are
naturals, sync lists are sequences of tokens, parties are no addresses, and
`Failed` is no ledger and no books (`BalancesAssumption`, `TezosAssumption`,
`FA2Assumption`, `FailureAssumption`, `CustodianAssumption`, `BooksAssumption`,
`ChainAssumption`); the amounts asked for are integers and the bounds naturals
(`RetireAssumption`); a file that is emptied or garbled is no list, and no
contract is none (`RegistryAssumption`); credits come from outside the parties
and the indexer has a block (`CustodianViewAssumption`, `IndexerAssumption`);
an FA2 contract has finitely many owners and token ids, 0 is one of them, since
that is what the decoder of retirements shows for every id (`FA2ViewAssumption`);
an FA2 contract is neither a wallet nor the custodian contract, token ids are
naturals, names are no addresses, a file of names lists contracts or wallets, and
texts have a packed and a raw form (`CommandLineAssumption`). `CallersAssumption` says that
`X4CChain`'s callers can do what a command does: call any contract with lists of
one and with the amounts there are. It bounds no command; a model of the contracts
whose callers cannot would say nothing of the program. TLC evaluates each
assumption in the runs.

`SyncsWithoutRepeats` is a hypothesis of four theorems of `X4CChainProofs`, named
in their statements: no list `internal_mint` is called with has a token twice.
The contract does not ensure it: with a repeated token the theorems are false, as
the run `chain_sync_twice` shows. The program does, as its client sends lists of
one token, and in `CommandLineProofs` the same conclusions are reached from
`CommandSpec` without it. What remains assumed is that calls are made with the
program: whoever holds the custodian's key and writes a list of his own can book
credits twice.

*FA2.* The invariant is `FA2Inv`, types and `SupplyConserved`, which is
inductive because it counts what has left in events. A transfer leaves every
total alone (`MoveKeepsTotals`), so a fold of them stays in the set of ledgers
that account for the mints. A mint folds one list over the ledger and over the
tally of mints, a retirement over the ledger and the events: `FoldsAbreast`
carries a relation along two folds of the same list, as long as the first does
not fail. `OneContract` collects what a step on one contract has to show.
`OnlyDefinedTokensHeld` is about balances, and a balance can come from anybody:
the invariant is about mints instead (`MintedDefined`, what was minted of an id
that is not defined is 0), and conservation bounds each balance by them.
`DebitAuthorised` is proved as `HolderDebitAuthorised` below.

*Custodian.* `LedgerSumsToExternal` alone is not inductive: a rejected operation restores
`before`, so the books remembered there must balance as well. The inductive
invariant is `CustodianInv`: types, balanced books, and balanced books in
`before` whenever an operation is outstanding. The argument: one update of a
balance moves the total of its token by exactly the difference (`BalanceShift`),
an internal transfer shifts one token by an amount and back, a sync or a debit
shifts both ledgers alike (`BothShift`), and a fold whose every step stays in a
set of books or fails ends in that set or fails (`FoldStaysIn`). `NewBooks`
collects what a step has to show, and there is one lemma per action.
`DebitsAuthorised` is about a step: an update lowers no entry but its own
(`UpdateSparesOthers`), so a list in which a party is never the giver of a token
id keeps the ledger in the set where the party has no less of it (`AtLeast`),
again by `FoldStaysIn`; if the party has less afterwards, some transaction of the
list names it, and the entrypoint has checked that transaction's authority.
`OperatorsOnlyRetire` compares amounts: a fold whose steps change a number by
amounts of their own changes it by the sum of them (`FoldSums`), so that what a
list of groups takes of a token is the sum over its groups (`DebitsSum`,
`DebitsTaken`), which is also what its operations retire
(`OperationsRetireTaken`).

*CustodianEvents.* In `ReplayInv` (of `ContractProofs`) the reader knows the ledger, and while a call
can be undone knew the ledger Tezos would go back to. The sums of the events
that a list emits are those by which it changes the ledger, entry by entry
(`TransfersTold`, `SyncsTold`); a call of `external_transfer` that takes nothing
in total takes nothing from anybody (`NothingSentOut`), as totals of naturals
that do not grow determine them (`TotalDetermines`).

*X4CChain.* `ChainInv` joins the two contracts' invariants, and adds that what
Tezos goes back to accounts for the mints as well and that nobody is an operator
of the custodian contract's tokens, of which it never appoints one: `CustodyHeld`
follows. The three further invariants relate the books to what is still to
execute. `EventsInv`: the custodian's events are the FA2 contracts' events plus
what the outbox will retire. `BackingInv`: if the books were covered when the call
began, they are with what is pending (`CoversPending`), hence the head of the
outbox is affordable; this is `RefusedOnlyIfUnbacked`. `BackedInv` drops the
condition. It is not inductive for every step of `ChainSpec`, but for those that
book of a token what is in custody or no more than was booked (`BooksWhatCame`):
`BackedSteps` is `ChainSpec` with such steps only, and `BackedWhile`,
`IdempotentWhile` and `OneBookWhile` prove everything from it. A list that names
no token twice (`NamesOnce`) gives such a step (`SyncBooks`), all other calls
and Tezos always do (`UntouchedBooks`, `CallsBook`): hence
`SyncsWithoutRepeats` in `ChainSpec`'s theorems, and lists of one in those of the
program.

*The refinement.* The state of `CreditBook` is `Settled`: the contracts as they
are, or as they were when the call began whose operations are still executing.
A call that emits nothing and the last operation of one that does are the steps
that show; all others stutter, and so does a rejection. What has to be shown is
that a whole call, split over several steps, is one step of the book.
`OneKind` says so while it runs: operations of a call are either all transfers,
and then nothing has been retired since it began, or all retirements, and then
no holder has more than when it began. `Sound` collects what makes a state of
the contracts a book (totals account for mints, books are balanced and covered),
and `IsMove`, `IsIssue` and `IsRetirement` compare two sound states.

*CustodianView.* All four properties speak of blocks that have been, and
`ViewInv` says which: a command that has read the ledger has that of a block n
since it began; if it is `info` and has gone on, the external ledger is of n or
later, and the events of each kind it has fetched include those of n (`Told`).
As requests come in a fixed order, how many are left tells which answers are
there (`LeftOf`). Blocks keep their events (`Chain`), so those of the latest
block are enough. `ActiveMap` and `WholeMap` say what the decoders make of a big
map with removed keys: without them, the ledger as it is; with them, amounts that
are right for every key that is set. That no amount is negative, which the
contract's events and ledgers are read for, needs the balance of the books
(`OwnedIsThere`).

*FA2View.* `ViewInv` is built alike. `GoodBlock` is what the contract promises
after each block: what was minted is held or retired, only defined ids are held,
retirements are numbered. From one block to the next mints, definitions and
retirements do not go back (`Follows`), balances may. `InfoTold` says of which
block, not older than the command, the balances shown are; the metadata and the
retirements come later and include that block's. `NothingVanishes` then is one
block's conservation, with retirements added that can only be more. It sums over
what a decoder made of a big map and of events: `DecodedAmounts` shows that the
decoder of retirements, which loses their token ids, loses no amount, since a
total over a set does not change when its elements are renamed one to one
(`TotalImage`).

*CommandLine.* What is under way has one of six forms, one for each entrypoint a
command calls, and `RunningInv` says, command by command, what its parameters
and signer are (`SentRetire` and the others: the tree of pairs with the words
resolved, as the binding writes it). It does not depend on the contracts, so it stays true whatever
they do meanwhile. The parameters fit because each of these trees has the shape
of its entrypoint's type (`RetireFits` and the others). When one is executed, the
contract reads its fields out of the tree again; that both programs mean the
same by them is computed once per entrypoint (`RetireDone`, `InternalTransferDone`
and the others), and what is then called is an action of `X4CChain` with a list
of one: `CommandStep`. `CommandSpec` thus implies `ChainSpec`, with
`BooksWhatCame` in every step (`CommandBooks`), and the theorems carry over.
`EffectsAreAsNamed` compares both ledgers entry by entry with what the words
name, one lemma per command. The one difficulty is the slip of the finding
`commands_named`: an internal transfer or a sync of an address that is no FA2
contract. It does nothing because of such a token nothing is ever booked
(`OnlyCreditsBooked`, an invariant of the contracts, which the books that a
rejection goes back to must satisfy as well), so that a balance of it is 0 by
`LedgerSumsToExternal`, and only nothing, or a transfer to oneself, is not
refused.

*RetireService.* `AtMostOnce` needs to know why an operation cannot be executed
again: its counter is used. `RetireInv` therefore relates every operation to the
account's counter: what is pending has the next counter (`PendingIsNext`), what
is in a block has one that was used (`BlocksAreBehind`), an executed request has
its one operation in a block (`ExecutedInBlock`), and the handler keeps the
counter it was given for as long as anything of it can be out (`SentHasCounter`).
`ErrorLeavesNothing` is not inductive either: an error answer is given in
several phases, and `NothingOut` says for each phase what of the operation the
node can hold if no answer was lost; `SeenIsInBlock` does the same for
`SuccessIsInBlock`. There is one lemma or step per action.

*ContractRegistry.* The properties are about the file, and the file is written
from what a process has kept in memory. `RegistryInv` says of that memory what
the properties say of the file: what a running command knows has true names
(`KnownIsTrue`), and the address it holds is that of its last try
(`AddressIsOwn`), while whatever is on the chain has been tried (`ChainIsTried`).
A command is `Overwritten` once another that ran beside it is done, and `Saved`
if it is done and that has not happened. Whoever runs and did not run beside a
saved command has read its entry (`SavedIsKnown`), so that writing keeps it
(`SavedStays`); whoever did run beside it makes it `Overwritten` by writing.
`BesideEachOther` makes `beside` symmetric and complete for running commands.
`LossesAreExplained` follows: a command that is not running, failed or killed is
done, its last try is what it holds, and it is saved or overwritten. For
`DamageIsNoticed` a command that has emptied the file and finds it not empty
when it writes has had another beside it (`WrittenBeside`).

The lemmas on folds and sums in `OperatorProofs` need induction over the length of
a list and the size of a set. The library's induction theorems take an operator
and cannot be used here, so `UpFromZero` derives induction over a *set* of
numbers from the least element of its complement, and the rest follows from it.

Only model-checked: `EveryPostAnswered`, a liveness property under fairness, which
is out of the prover's reach. Every invariant and every action property that a
passing run checks, and the refinement, is a theorem. What a run refutes has
none.

## Not modelled, and the plan

Every component of the contracts and of the Go programs that changes state is
modelled, and every safety property is proved. What the next change would be:
a second command under way in `CommandLine`, which the argument on commuting
(above) stands for so far; pages of the indexer's answers, once the code asks
for them.

Left out for good: the callback of `balance_of` and `view_get_metadata`, which
change nothing; `retiring_data`, token and contract metadata as contents; gas
and fees; signatures, of which only whether there is a key or a remote signer is
kept; the counting of arguments, the parsing of numbers and the output of the
command line tool; the environment's URLs and the indexer guessed from them;
what leaks or blocks in the process (block observers, an HTTP client without a
timeout); `getOperation` and `getEvents`, which pass one answer of the indexer
through; pages of the indexer's answers; the stateless TypeScript wrappers and
the deployment files. Michelson integers are unbounded, so there is no width to
model in the contracts, and the numbers a command sends are `int64`s that fit.
