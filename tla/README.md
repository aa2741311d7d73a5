# Verification of eth-bridge-go

TLA+ models of the tool's control, TLC runs over small instances of them, and
TLAPS proofs that hold for every instance. Paths are relative to the
repository's root.

## 1. Inventory

`bridge send --amount <eth>` reads its configuration from the environment,
dials a source and a destination endpoint, resolves what the pair of chains
means, and runs one of three operations. Nothing but the withdrawal records
survives the process.

| Component | State | Operations | Hard behaviour |
|---|---|---|---|
| bridge operations `internal/bridge` | none of its own: locals of one call (balance before, transaction, deadline, partial `Result`) | `SameChain`, `Deposit`, `WithdrawInitiate`, with `verifyChain`, `signedTransfer`/`signedCall`, `WaitReceipt`, `waitForCredit` | runs sharing a key share its nonces; the broadcast's answer may be lost; every poll can fail or race the deadline; a balance read early is compared late |
| nodes and chains (external) | pool and blocks per chain, a balance | what `chain.Client` asks; mining, relay of deposits, reorganisation, eviction | all of it happens between any two calls of the tool |
| discovery `internal/opstack/discover.go` | process-wide cache by pair of chain IDs | `IsOPStack`, `Discover`, `DiscoverCached` | reads fail half-way; contracts of two versions; calls overlap on the cache |
| route resolution `internal/route` | none | `Resolve` and its fallback and overlay | which answer wins after which failure; labels must stay with their addresses |
| vendored snapshot `internal/registry` | a static table | `Addresses`, `Lookup`, `ExplorerTx` | a damaged row, a row of another L1 |
| withdrawal records `internal/store` | files `withdrawals/<hash>.json` | `SaveWithdrawal` | truncate-then-write is not atomic; crash or full disk in between |
| receipt decoding `internal/opstack/deposit.go`, `withdraw.go` | none | `L2TxHash`, `ParseDeposit`, `ParseMessagePassed`, `findLog` | lengths and offsets that the data declares itself; the event among other logs |
| command line `cmd/bridge` | its open connections | `run`, `runSend`, `dispatch`, `report`, `parseEther` | which failures still report hashes; exit codes; rounding and overflow of an amount |
| configuration `internal/config` | none | `Load` and its checks | the first fault decides; which variables a route needs; variables that must fit each other |
| `internal/chain/fake`, `e2e`, `scripts` | | | test code |

What makes each correct:

- *bridge operations*: success means the value moved; nothing is signed against
  an unverified endpoint; runs with one key neither share a transaction nor
  strand each other; a hash the node acknowledged is reported; the reported
  credit is an increase that flowed in; every run ends.
- *records*: a successful withdrawal leaves a complete record, a record
  describes an event that is on L2, and no run damages another's.
- *discovery and route*: the kind is right under any failed reads; what is
  used and remembered for a pair is paired; no pair is missed; labels are true.
- *command line*: the contracts are shown before anything is signed, every
  acknowledged hash reaches the operator, connections are closed but not while
  in use, every process ends.
- *amounts*: the wei that are sent are the decimal that was typed, off by one at
  most, and whatever cannot be sent is refused; the gas limit keeps its margin.
- *configuration*: what is accepted is usable as it stands, only what is unset or
  zero is left to discovery, and a complaint is true, so that correcting it leads on.
- *decoding*: nothing outside the data is read, a whole event is decoded to what
  the contract emitted, and a cut one is refused.

## 2. Modules

```
ChainEnv <- Bridge <- BridgeProperties <- MCBridge                     (TLC)
                          |  \-- INSTANCE Transfer
                          +-- Cli <- MCCli                             (TLC)
Numbers, Config <---------/
Numbers, Config, Decode <- Inputs <- MCInputs                          (TLC)
           \-- MCConfig <- MCInputs, MCCli      (environments for TLC)
Discovery <- Route <- RouteProperties <- MCRoute                       (TLC)
                          \-- INSTANCE Resolution

BridgeProperties <- BridgeProofs <- NonceProofs <- PaymentProofs
Config <- ConfigProofs <- CliProofs    (with Cli, PaymentProofs)
                     \-- InputsProofs (with Inputs, NumbersProofs)
Numbers <- NumbersProofs
RouteProperties <- RouteProofs
```

### ChainEnv: what the nodes do (external)

No code of the repository, but what `bridge.go` relies on. For each chain the
account's pending transactions (`pool`) and mined ones (`mined`, the one with
nonce n at n+1, which is how Ethereum orders an account); for L2 the
destination's balance (`bal`), how many L1 entries L2 has derived (`relayed`),
and what deposits have credited (`minted`). A transaction *is* its content
(nonce, kind, amount, fee): two runs that sign the same fields have the same
hash, which is the case that makes sharing possible at all. A node refuses a
used nonce, a known transaction, and one that does not outbid the pending
transaction of its nonce. Mining, relay, third parties' payments (`Gift`), the
destination's own (`Spend`), evictions and reorganisations are actions of the
environment. L1 blocks are undone only before L2 derives them (derivation
follows its L1), and an undone transaction is pending again; a mined entry
carries the number of reorganisations at that time (`fork`), so that the log of
a transaction mined again is a different log.

### Bridge: the operations, one step per call of a node

`pc[o]` is the call that run `o` makes next. `Start` holds the guards before any
call; `VerifySrc`/`VerifyDst` are `verifyChain`; `ReadBefore` is the deposit's
first balance reading; `ReadNonce` and `PrepareFees` are `signedTransfer` up to
the signature, with tip, header and gas estimate in one step because the tool
sees them together as one fee or one failure; `Broadcast` is `SendTransaction`,
whose error may mean that the node refused, that the request was lost, or that
it was accepted and the answer lost. `Receipt*` is `WaitReceipt` (poll, then look
at the clock, then sleep), `Credit*` is `waitForCredit`, and `OpenRecord` and
`WriteRecord` are the two halves of `os.WriteFile`. Each early return carries
the partial `Result` that the code returns with it: `SameChain` fills it only at
the end, the other two from the broadcast on. `DeadlinePasses` is time passing
during a wait; each wait has its own deadline, and `late[o]` says that it has
passed. `Crash` kills the process between any two
steps, which loses everything but the disk.

`Ops` are runs of the tool with one key. They may overlap or follow one another,
so an operator's retry after a timeout is a second run.

### Transfer: the promise

The abstract specification: a run is *refused* (nothing was handed to a node and
nothing ever will be), has *succeeded* (the value has moved), or has *failed*
(the operator has to look; it may have moved and may still move). No verdict is
revised and no move undone. `KeepsPromise` in `BridgeProperties` says that
`Bridge` implements it with `verdict` read off `pc` and `err`, and `moved` off
the blocks. Blocks may not be undone in the run that checks it.

### Discovery and Route: what a pair of chains means

`at[o]` is the read that call `o` of `route.Resolve` makes next: the predeploy
probes of both ends (`IsOPStack`), the classification, the cache lookup, and
three hops (`otherBridge`, `messenger`, `portal`) of up to two spellings, each a
getter call and a code check. Any read may fail. `cache` is the process-wide
map; two calls may both miss it and both store. `Finish` is the fallback to the
snapshot and the overlay of overrides; `Snapshot` is the document's rows in order,
`Index` the table built from it, and `Registry` its answer for a pair. `Code`, `Getters`, `Requests` and
`Snapshot` are constants: contracts do not change, as the comment at
`DiscoverCached` says. The two spellings of a getter name one field, as the comment
at `getter` says, so two that answer with deployed contracts answer the same
(`FieldAssumption`). A complete override returns from `Classify` after both
probes, as in the code.

### Resolution: the promise of `Resolve`

The abstract specification of `route.Resolve`, each call answered in one step:
*same chain*, *unsupported*, an error of a probe, what was *supplied*, what was
*discovered*, what the snapshot has (`FallBack`), or *unpaired*. There are no
probes, hops, spellings, stages or per-call contracts in it, only what the
chains behind the endpoints are, what was asked, and what is remembered. It says when
each answer is allowed: the snapshot and `ErrNotPaired` only if a read of this
call went wrong or there is nothing to learn; an error of a read only if a read
went wrong; and contracts only if some call with the same chain IDs could have learnt
them, exactly the remembered ones when one pair of chains stands behind those IDs. `Learn` may
happen at any time for a call that is under way and was not given all addresses.
`AnswersAsPromised` in `RouteProperties` says that `Route` implements it: `verdict`
is the error and the route, `known` the cache, `trouble` the flag that a read of
the call has failed, and the tables are read off the constants.

### Cli: the process around an operation

Each run of `Bridge` is one process: `stage[o]` walks from its arguments over
dialing and the resolution of the route to the operation, whose steps are
those of `Bridge` (`Operate`), and ends in `Report` with an exit code. `args[o]` is
an invocation: a subcommand, the text of `--amount` if there is one, and the
environment. `Parse` judges them with `ParseEther` of `Numbers` and `Load` of
`Config`, in the order of `runSend`; an amount beyond a float's range ends the
process in a panic. The operation that may follow is the one they ask for
(`AsksFor`): the amount in wei, and one chain or two. `DialSrc` and `DialDst` open
what `RPCFor` yields for each chain. `open[o]` are the connections with the
endpoint each was dialed at, `shown[o]` what the process has printed that the
operator depends on: the contracts, the hash, the notice of a withdrawal.
Resolution is one step here, which fails or yields the kind of the route: the
reads inside it are `Route`'s, and share no variable with the operations. A
process may be killed while it operates; killed before that, it has done nothing
to tell about.

### Numbers, Config, Decode and Inputs: what the tool is given

Pure functions, each with the numbers of the code as parameters.

`Numbers` is `parseEther` and the gas margin. `Float(num, den, prec)` is the
`big.Float` of `prec` bits nearest to a fraction, ties to even, as a mantissa and
an exponent; `Product` rounds a second time, `Truncated` is `Int(nil)`, and a float
at or above `2^MaxExp` is infinite. A decimal `n * 10^x` is a text; sign, leading
zeros and the spellings of one decimal are `SetString`'s. One step is idealised:
`SetString` is taken to round once, which it does up to powers of five that fit
its 64 spare bits (beyond `10^137`, far outside any amount, it multiplies by a
rounded power). Powers are the recursive function `Pow`, which a proof can unfold.
`RangeAssumption` says that the range of a float exceeds its mantissa and the
decimals of a coin, which 2^31 does by far with 256 bits and 18 decimals.

`Config` is `Load`. The value of a variable is `Unset`, `Malformed`, or what it is
read as. `Holds` is what each variable accepts, `Missing` and `Invalid` are the two
kinds of fault, and the first faulty variable in `Order` decides the error and the
names in its text (`FirstFault`, `Blamed`). `Built` is the `Config`, `RPCFor` its lookup.
`ZeroAddress` is one of the addresses: an override that is not set and one set to
zero are the same in a `Config`, and what `Route` calls `NoAddress`, so that neither
`overlay` nor `Complete` counts it.
A URL is not validated by `Load`, so `Malformed` is a URL to it, and dialing it
fails.

`Decode` is `findLog`, `ParseDeposit` with `unwrapOpaqueData`, and
`ParseMessagePassed` with `dynamicBytesAt`. Log data is its length and the number
that a read at each byte yields; with `WordLen = 1` that is a string of bytes, and
with longer words it admits more data than there is, so that what is proved of
all of it holds of what exists. Every stretch that is read or cut is collected
in `looked`; `Int64` wraps as in `math/big`, and `Fits` is `IsInt64` and the bound.

`Inputs` gives one of these its input, judges it in the step the code does, and
lets an operator whose environment was refused correct a variable that the error
names and try again (`Correct`). What such an operator means, and what has become of
an event on its way, is part of the input. Both are defined next to the inputs
and apart from the functions that judge them: an environment that is meant fits
together (`FitsTogether`), and a log carries an event as the contracts encode it
(`Encodes`), all of it, or cut off before its end. `MeantAssumption` and
`HarmAssumption` say so of the constants, and TLC evaluates them on those of
`inputs`. A chain ID that is wrong there is missing or cannot be read: if the ID of
another chain is there, `Load` may complain about the second endpoint that this
other route would need, and only the operator can know better.

### Mutated forms

A definition placed right before another one with the same parameters, and used
nowhere, is a mistake one could make in that code. Putting it in makes TLC
refute the property named:

| Mistake | In place of | Refutes |
|---|---|---|
| `AfterSrcUnverified`: a deposit skips the second `verifyChain` | `AfterSrc` | `SignedOnlyWhenVerified` |
| `NoncesPastNext`: one above the pending nonce | `Nonces` | `NoNonceGap`, `NonceSettles` |
| `NoncesLatest`: the count of mined transactions, not the pending one | `Nonces` | `RetryTakesFreshNonce` |
| `TakenOrKnown`: "already known" is taken for success | `Taken` | `NoSharedTransfer` |
| `HashOfWithdrawalOnly`: a deposit fills `Result` at the end | `HashOnSend` | `HashReported` |
| `ConfirmedByNonce`: the nonce is used up, so it is mined | `Confirmed` | `KeepsPromise` |
| `StatusIgnored`: receipt without a look at its status | `Succeeded` | `SuccessMeansMoved` (transfers, in `cli`) |
| `AnyEvent`: the bridge's event is not required | `HasEvent` | `SuccessMeansMoved` (deposits), `RecordsAreProvable` |
| `NeverExpired`: the wait has no deadline | `Expired` | `AllExit` |
| `RoseOrStayed`, `RoseByMore`: `>=` for `>`, or one wei more | `Rose` | `SoloCreditExact`; `NoCreditOverlooked` |
| `WholeBalance`, `Fallen`: the balance, or the delta reversed | `Increase` | `CreditWithinInflow`; `TypeOK`, `CliTypeOK` |
| `OneFileForAll`: one record file for all withdrawals | `OtherRecords` | `WithdrawalRecorded`, `RecordsKept` |
| `HasMorePastEnd`, `ProbeEndsEarly`: the probe loop runs on, or stops at the first predeploy | `HasMore`, `ProbeEnds` | `TypeOK`, `KindIsRight` |
| `KeyByL1`, `KeyByL2`: the cache is keyed by one chain only | `Key` | `AnswerNeverChanges`; `CacheIsPaired`, `UnpairedIsRefused` |
| `AnyAddress`: an answer is used without a code check | `OnL1` | `NoPairIsMissed` |
| `SameSpelling`: the spelling is not advanced | `NextSpelling` | `Resolves` |
| `RowsAnyL1`: the row's L1 is not compared | `Rows` | `LabelsAreTrue` |
| `SourcesOfBase`: labels without the overrides | `OverlaySources` | `AnswersAsPromised` |
| `SrcStillOpen`: the source stays open when the second dial fails | `NoneOpen` | `ConnectionsAreKept` |
| `WithdrawalHasAddresses`: a deposit's contracts are not printed | `HasAddresses` | `SeenBeforeSigned` |
| `ReportsSuccess`: nothing is reported with an error | `Reports` | `OperatorKnows` |
| `AsFloatAtDefault`: the decimal is parsed at the default precision | `AsFloat` | `AtMostOneWeiOff` |
| `MarginDividedFirst`: divided by a hundred before it is multiplied | `Margin` | `MarginIsKept` |
| `DerivesToAny`: the key's address is not compared | `DerivesToSource` | `AcceptedIsUsable` |
| `ReadAlways`: the second endpoint is asked for on one chain too | `Read` | `Settles` |
| `InvalidIfRequired`: an optional variable that cannot be read counts as unset | `Invalid` | `OnlyZeroIsDiscovered` |
| `BlamedAlone`: a key that does not fit its address is blamed alone | `Blamed` | `ComplaintIsTrue` |
| `FitsUnchecked`, `FitsLoosely`: no `IsInt64`, or one byte too many | `Fits` | `InBounds`; `CutIsRefused` |
| `LastWith`: the last log with the topic | `FirstWith` | `IntactIsExact` |

## 3. Runs

`MC_<run>.cfg` of `MCBridge`, `MCCli`, `MCInputs` or `MCRoute`. Deadlock is checked in
all of them; the only stuttering steps are `Finished` and `AllExited`, when every
run, call or process has ended or an input has been judged.

| Run | Instance | Shows |
|---|---|---|
| `deposits` | two deposits, fees 1 and 2, chains fair | `TypeOK`; success is about one's own mined transaction; `KeepsPromise`; `NonceSettles` |
| `nonces` | three withdrawals, fees 1 and 2, one reorganisation, crashes and failing writes of the record | `NoSharedTransfer`, `NoNonceGap`, `RetryTakesFreshNonce`, `WithdrawalRecorded`, `RecordsAreProvable`, `RecordsKept` |
| `disturbed` | a deposit and a withdrawal, one gift, one spend, one reorganisation, one eviction; before them a deposit without a bridge and a transfer of nothing | `HashReported`, `CreditWithinInflow`, `SoloCreditExact`, `NoCreditOverlooked` |
| `cli` | a process that deposits and may be misdialed, one that transfers; eight invocations: good ones for one and two chains, a key of somebody else, no amount, zero, an amount beyond a float, two other subcommands; processes fair | `CliTypeOK`, `SignedOnlyWhenVerified`, `SuccessMeansMoved`, `SeenBeforeSigned`, `OperatorKnows`, `ConnectionsAreKept`, `AllExit` |
| `routes` | ten requests: pairs both ways with new and old contracts, chains that are no pair, one chain twice, one or all addresses overridden; one call may have an endpoint that serves another chain; a snapshot with an outdated and a damaged row; calls fair | `TypeOK`, `KindIsRight`, `LabelsAreTrue`, `CacheIsPaired`, `UnpairedIsRefused`, `NoPairIsMissed`, `AnswerNeverChanges`, `AnswersAsPromised`, `Resolves` |
| `inputs` | 3,110 amounts, all 4,096 estimates, every mistake in three environments, and receipts whole, cut, or with one or two words replaced; the operator fair | `AtMostOneWeiOff`, `MarginIsKept`, `ComplaintIsTrue`, `AcceptedIsUsable`, `OnlyZeroIsDiscovered`, `InBounds`, `IntactIsExact`, `CutIsRefused`, `Settles` |
| `lost_answer`, `registry`, `blip`, `notice`, `rounding`, `overflow` | | each refutes one sentence of the documentation, section 4 |

**Bounds.** Two runs are enough for anything between a pair of runs: the sharing
of a nonce, of the directory, of the balance. `nonces` takes three, so that a
third run can read its nonce while a displaced and a displacing transaction are
about, or after a hole. Two fees are the least with which one transaction can
outbid another. Amounts are 1: the credit's arithmetic compares sums, and a unit
gift and a unit spend already make the sum ambiguous. One gift, spend,
reorganisation and eviction let each happen before or after every step of a run.
`NoneAbsent` in `nonces` leaves out states past a refusal, a deadline, or a
crash that tears no record; a run refused before its broadcast is as good as
absent, and one that crashes, gives up or times out after it leaves the chains
as one that cannot read its receipt does, which is explored. `RefusedFirst` in
`disturbed` lets the two runs that are refused at once come first: they change
nothing. The other runs of `Bridge` and `Cli` have no such constraint, and the
theorems about these properties have no bound at all. In `MCRoute`, one rollup
has new contracts, the other an older version whose first spelling answers with
an address that is deployed nowhere, so each hop exercises a missing getter, a
stale answer and the second spelling; a fourth chain has one predeploy only. In
`inputs`, a mantissa of 12 bits and coins of 100 wei make decimals that are not
binary fractions round up and down and come out short; `MaxExp` 24 puts the
range's end within reach; the 4,096 `uint64` values wrap for most estimates with
a margin of 30 per cent; a word of one byte and a `MaxInt64` of 9 let a word
exceed every length there is, be negative as an `int64`, and wrap to a small
one. An environment has two accounts, two chains and their keys and endpoints,
which is what a mix-up takes, and an override may be the zero address. Two
overlapping calls exercise the cache; `OneEndWrong` leaves out calls with both
endpoints wrong, which are calls about two other chains. A read may fail anywhere, any number of times.

**Symmetry.** Only where runs or calls are alike (same kind, amount, bounds) and
only for safety: `nonces`.

**Fairness.** `CliFairSpec` (`cli`) and `FairSpec` (`routes`) assume that a
process or call takes its next step while it can, that is, every call of a node
is answered in the end, if only with an error, and that time passes. This is
what the code's loops provide: each poll ends in a return or in another poll,
and the deadline is set once per wait. A node that accepts a connection and
never answers is outside the assumption: `main` passes `context.Background()`
and calls have no deadline of their own, so such a call hangs, and `AllExit`
says nothing about it. No fairness of the chains is assumed there. `FairSpec` of
`Inputs` assumes that an operator keeps correcting and trying, which `Settles`
is about; nothing else in `inputs` rests on fairness. `ChainFairSpec`
(`deposits`) assumes only that a transaction that can be mined is mined in the
end; `NonceSettles` says that the tool then strands nothing.

## 4. Where code and documentation differ

Each is a run that TLC refutes by a behaviour of the code:

- `lost_answer`: `run.go:135-137` says a deposit that reached L1 reports its
  hashes. `Deposit` returns an empty `Result` when `SendTransaction` fails, also
  when the node had accepted the transaction and its answer was lost.
- `rounding`: `run.go:39-41` says that with 256 bits a decimal amount does not round
  on its way to an integer. A decimal that is no binary fraction is rounded
  when it is parsed, and where that is downwards the truncation takes a whole
  wei: `--amount 2.1` sends 2099999999999999999 wei, and seven wei become six.
  Of a whole number of wei no more than one is lost and none is added; an amount
  with decimals beyond a wei may also be rounded up to the next
  (`AtMostOneWeiOff`).
- `overflow`: `run.go:264-265` says `ErrBadAmount` is returned of what cannot be turned
  into a positive number of wei. `1e999999999` is read as an infinite float, whose
  integer is a nil `*big.Int`, and `wei.Sign()` panics.
- `registry`: `README.md:107` and `route.go:162-163` say the snapshot is reached only
  if the chains could not be. `discoverOrFallBack` consults it on every error,
  `ErrNotPaired` included.
- `blip`: `discover.go:34-36` says `ErrNotPaired` means that both chains are real
  and not two ends of the same rollup. One failed getter call or code read
  yields it for a genuine pair.
- `notice`: `run.go:178-185` tells the operator that the withdrawal is initiated and
  its parameters saved. `report` prints it whenever a withdrawal has a hash, also
  when it reverted or its record could not be written; the error follows.

Seen while reading and not given a run:

- `bridge.go:371-374` and `README.md:123-125` rest on the rise of the destination's
  balance; any payment makes it rise, so a deposit may be confirmed before L2
  has derived it. `CreditWithinInflow` and `SoloCreditExact` say what does hold.
- `bridge.go:42-43` says of `ErrDepositNotCredited` that the balance had not moved
  before the timeout; it may have, after the last reading or if the destination
  paid out. `NoCreditOverlooked` says what does hold.
- `SECURITY.md:17-19` says that `verifyChain` refuses a mismatch; the destination
  endpoint of a withdrawal is never asked.
- `config/constants.go:46` bounds a wait by the timeout; a call that hangs inside
  the wait is not bounded by it.
- `README.md:105` says of the label `override` that one of the variables is set. One
  that is set to the zero address is discovered, as `config.go:47-48` says.
  `OnlyZeroIsDiscovered` says that this is the only such value.
- `route.go:97-98` says that a complete override skips the chain entirely, while
  `Resolve` probes both ends first.
- `unwrapOpaqueData` does not look at the offset word, and `findLog` not at the
  contract that emitted the log; `Load` accepts any text as an endpoint.
- The discovery cache is filled before any endpoint is verified: what a wrong
  endpoint answered is remembered for the configured chain IDs, which matters
  only to a caller that resolves more than once per process. That no other pair
  is harmed is part of `CacheIsPaired`.

## 5. Proofs

All for any set of runs, kinds, amounts, fees and bounds, any invocations, and
any sizes of words, integers and mantissas, under the named assumptions of the
modules only (fees are positive, balances and amounts natural numbers, kinds are
kinds; `Unset` and `Malformed` are no values; widths are positive; contracts have
addresses; the four of section 2). TLC evaluates each in the runs of its module.

- **BridgeProofs, `TypeCorrect`.** `TypeOK` is inductive as it stands. The step
  that needs work is the chains' (`ChainStepType`): a transaction moves between a
  set and a sequence, and `relayed` must stay within the blocks when one is
  undone.
- **BridgeProofs, `SuccessIsMoved` and `RecordsProvable`.** Neither is inductive: when
  a run returns success, or writes its record, the fact was established steps
  earlier. `OutcomeInv` adds, for every run, that the stages after the receipt
  already know a receipt that is successful and has the event (`Landed`), that
  only withdrawals reach the record, and that what will be written is the log
  found in that receipt; and for every record that it is provable. Steps are
  split into the run's own (`SelfKeepsOutcome`), other runs', which share no
  variable that matters (`StepIsLocal`), and the chains', under which a receipt
  stays what it is (`MineKeepsReceipts`) unless a block is undone, when nothing is
  claimed.
- **NonceProofs, `NothingIsShared`, `NoHoleIsLeft`, `RetryIsFresh`.** The invariant is
  about the transactions a chain *knows*, pending or mined. Mining and undoing a
  block leave that set as it is, so the proof needs no case for reorganisations
  beyond `ReorgKeepsKnown`. `NonceInv` says: blocks hold the nonces in order and the
  pool one transaction to a nonce (`InOrder`); and, as long as nothing was evicted,
  no known nonce has an unknown one below it (`NoHole`), neither has the nonce a run
  has read (`NothingBelow`), every acknowledged transaction is still known or has
  given way to one of its nonce that pays at least as much (`Outlasts`), and no two
  acknowledged runs have the same one. `Outlasts` is what the last needs: a run that
  signs the transaction of another cannot have it accepted, because what is
  known at that nonce pays at least as much. `StepKinds` reduces the seventeen
  steps of a run to the three that matter here.
- **NonceProofs, `SuccessIsRecorded`, `RecordsStayOnDisk`.** That no run harms another's
  file is a matter of nonces: the file is named for the transaction, and
  `NonceInv` says that two runs that get that far have different ones
  (`RecordsAreApart`). `DiskInv` adds that each record belongs to a run that
  succeeded, and that its file is whole.
- **BridgeProofs, `PromiseIsKept`**: `Bridge` implements `Transfer` while no block is
  undone. `PromiseInv` adds to `OutcomeInv` that a refused run never signed
  (`Unsigned`), so that what is refused can never move. A run's own step is a
  verdict, a stutter, or, when it signs the transaction another run has already
  had mined, a move (`OwnStepKeepsPromise`); a step of the chains moves the value
  of every run that built the transaction mined, none of which has been judged
  refused or succeeded (`EnvKeepsPromise`).
- **PaymentProofs, `VerifiedBeforeSigned`, `CreditIsInflow`, `HashIsReported`.** The
  first two need what a stage implies: past a verification the endpoint serves
  its chain (`VerifyInv`), and from the first reading on the balance has risen by
  no more than all that flowed in (`CreditInv`): this bound, unlike the
  balance, survives the destination's own payments and other runs. `HashInv`
  follows the partial `Result`: only `SameChain` waits without its hash in it, and
  waits for nothing but the receipt, where every error names the hash.
- **PaymentProofs, `SoloIsExact`, `CreditIsNoticed`.** These are about when the money
  arrives, and take everything above together. `OriginInv`: every transaction on a
  chain is one some run signed, for what that run was asked (`FromARun`), so that
  with one paying deposit there is one deposit to be credited. `BalanceInv` gives
  the balance as the initial one plus what was minted and given, less what was
  spent. `SoloInv`: either nothing is minted yet, or exactly the run's amount is,
  and its first reading was before that: at most the initial balance, and at
  least that less what was spent. `RiseInv`: until something is paid out the balance
  is not below the first reading, and once L2 has derived a deposit at the run's
  nonce it is above; `CreditIsNoticed` is this and the comparison in `Rose`. Undoing
  a block disturbs none of them, since L2 derives only what stays (`BlocksStay`).
- **CliProofs, `ProcessesAreRuns`**: `CliSpec => Spec`, so everything above holds of whole
  processes. `CliTypeCorrect`, `ContractsAreSeen`, `ConnectionsKept`, `OperatorIsTold` follow
  from `CliInv`, which ties the connections (`OpenInv`) and what was printed
  (`ShownInv`) to the stage, next to `HashReported` and `SuccessMeansMoved`; that the
  endpoints dialed are those of the environment is `LoadedIsDialed` of
  **ConfigProofs**.
- **RouteProofs**, the seven properties of `RouteProperties` about states and steps. Calls share nothing but
  the cache, so what is said of one call survives the others' steps
  (`StepIsLocal`) except where the cache comes in. `RouteInv` is the inductive
  invariant: the types, which are not inductive without where a call has got to
  (`FlowInv`: how many contracts it has found, that it has classified its chains);
  what the probes so far have shown (`KindInv`, for `KindStaysRight`: the kind is
  concluded from the probe of two chains many reads earlier); that each contract
  found is on the L1 and named by the one before (`ChainInv`), so that what is
  stored is a pair; that what the cache holds was derived by a call for these
  chain IDs that had classified its pair (`CacheInv`, by way of `LearntStays`: a
  classification is not taken back); what a finished route was put together from
  (`SourceInv`, for `LabelsStayTrue`); and that a spelling is passed over only when
  it leads nowhere (`MissInv`, for `NoPairStaysMissed`). `CacheStaysPaired` and
  `UnpairedStaysRefused` follow from `CacheInv` and `SourceInv`. `AnswerStays` needs that a
  rollup has one pair of contracts: this, and that an unused spelling leads
  nowhere else, is where `FieldAssumption` is used, and only there.
- **RouteProofs, `ResolutionIsKept`**: `Route` implements `Resolution`. `PlanInv` adds to
  `RouteInv` what each stage needs to be allowed its answer: a call past `Start` is
  between two chains, a call that discovers was not given every address, and a call that was
  answered has its contracts in the cache, or a failed read, or `ErrNotPaired`. A
  probe or a read of a contract is a stutter or `ReadGoesWrong`, a store is `Learn`
  (`StoreIsLearn`), and every return is one `End` (`StartKeepsPromise`,
  `ProbeSrcKeepsPromise`, `ProbeDstKeepsPromise`, `FinishKeepsPromise`). Two
  steps are more than bookkeeping: `FallBack` and `Unpaired` need `MissInv`, since
  without a failed read the pair must have had nothing to learn; and what is
  returned is what is remembered at that moment, although another call may have stored
  since, because one pair of chains has one pair of contracts (`OnePairOneAnswer`, from
  `PairIsUnique` and so `FieldAssumption`).
- **NumbersProofs** and **InputsProofs, `AmountStaysClose`**: whatever the precision
  and the decimals, an amount within the precision is sent up to a wei.
  `ParsedIsClose` says it of `ParseEther` alone. Recursive functions are proved about
  by induction over a *set* of numbers (`SetInduction`, `StrongInduction`, from
  `NatLessThanWellFounded`), which no operator need be passed to. So powers unfold,
  add up and grow (`PowUnfolds`, `PowOfSum`, `PowGrows`), `BitLen` is the length of a
  number (`BitLenIsLength`), `Nearest` is within a half (`NearestIsNear`), and the
  mantissa of `Float` is full, so that its error is at most one part in
  `2^AmountPrec` (`FloatIsFull`, `FloatIsClose`). `TwoRoundings` composes the parse, the
  product and the truncation: the two errors together stay below one wei as long
  as the amount is no more than a quarter of `2^AmountPrec` wei, which is what
  `WithinRange` demands. `AmountIsReadable` shows that no such amount has an exponent
  that `parseEther` cannot read, for which `RangeAssumption` is needed.
- **InputsProofs, `StaysInBounds`, `MarginStays`, `UsableIfAccepted`, `OverridesStay`.** An
  answer is the judgement of its input (`Judged`, inductive), so each is a lemma
  about one judgement: whatever number fits is what `Int64` reads and within the
  room (`FitsIsExact`); the margin that wraps is less than a hundredth of the
  range (`LimitKeepsMargin`); no variable of an accepted environment is faulty
  (`NoFaultIsFound`), so an override in it is unset or an address, and is left at zero
  only if it was unset or zero before (`LoadedKeepsOverrides`).
- **InputsProofs, `IntactStaysExact`, `CutStaysRefused`.** `DepositIsWhole` and
  `MessageIsWhole` say both of one log: under the contracts' encoding each bound of
  the parse is met exactly when the data reaches the event's end, and the words
  and the payload are then those that were sent.
- **InputsProofs, `ComplaintStaysTrue`.** Load accepts what fits together
  (`WhatFitsIsAccepted`), and a fault that the operator's values share would be a
  fault of theirs (`SameIsAsGood`). Two rules depend on other variables: the key's
  on the address, which is named along with it, and the second endpoint's on the
  chain IDs, which were looked at before it (`FaultIsFirst`). `MeantInv` keeps this
  through corrections.

Only model-checked: what needs fairness (`AllExit`, `NonceSettles`, `Resolves`,
`Settles`), which is out of the prover's reach. Every safety property and every
refinement that a passing run checks is a theorem. The properties that runs
refute are no theorems.

## 6. Not modelled, and the plan

Not modelled: ABI packing, RLP, hashing and JSON (their outcome is modelled:
which event, which hash, which words of it); explorer links, usage text, flag
syntax and redaction (formatting); powers of five beyond `SetString`'s exact
range; JSON parsing of the snapshot; the dial itself; test code, with the test double
of a node, which scripts answers and has no behaviour of its own. A hanging call,
see Fairness. More than one confirmation: the code takes one. A vendored row whose
contracts are the zero address: there is none. What is left without a property, and
what a property of a hazard does not cover, stands with the hazard in
`PROJECT.json`: a withdrawal's destination endpoint, which is never asked for its
chain; a withdrawal mined after its run gave up, which has no record; a credit that
arrives after the last reading.

Could be added, none of it needed by what is stated above:

1. A call of a node that never returns, once the tool gives its calls a deadline;
   until then nothing about ending can be claimed of it.
2. A wait for several confirmations, if the tool comes to take more than one: the
   receipt is read at the first, and a reorganisation after that leaves what was derived from
   it stale.
3. The multiplication by a rounded power of five that `SetString` does beyond
   `10^137`.
