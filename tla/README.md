# Verification of top-relayer

TLA+ models of the header relayer between TOP and the Ethereum-like chains, the
TLC runs that check them and the TLAPS proofs about them. `PROJECT.json` maps
each definition to the lines it models and lists the runs, mutants, findings,
hazards and theorems.

    tlc -config loop.cfg HeaderSyncHistory     # check a run: module and cfg are in `runs`
    tlapm HeaderSyncProofs.tla                 # check the proofs

## The system

One process. Given a subcommand (`wallet`, `createaccount`) it carries it out and exits; otherwise
`main.start` relays. It reads a configuration and a roles
file, creates a handler for each header sync that is switched on, initialises
and starts them one after the other, and waits for a signal. Each handler runs
three goroutines:

| part | state | operations | what makes it correct |
|---|---|---|---|
| `HeaderSyncHandler.start` (`relayer/header_sync.go`) | `height`, the remembered `latest`, the channels `ch` and `reset` | wait for the next height to be confirmed, fetch its header, send it on `ch`; on a reset, drain `ch` and go back to a common ancestor | consecutive, confirmed headers; nothing left behind after a failure; ends when cancelled |
| `startSync` of the submitter (`relayer/eth/eth.go`, `relayer/top/top.go`) | the batch being collected | receive, collect, submit, on an error send on `reset`; flush at the end | never blocks for good on `reset`; asks for a height that makes the handler resend what failed |
| `SubmitHeadersWithLoop` (same files), called by it | `lastCommit`, `lastCheck` | existence check, transaction, confirmation, up to 30 retries, check of the last commit | success is only reported, and a last commit only remembered, for headers that were submitted; every call returns |
| `watch` | none | logs heights | ends when cancelled |
| `RollbackToCommonAncestor` (`header_sync.go`), called by `start` for ETH and BSC | `target` | read the contract's header and the source's of a height, compare, go one down | ends above 0, at a header from which the contract can be continued |
| `main`, `Server.Start`, `config`, `ApplyRoles`, `HandleCommand` | configuration, list of handlers, wait group, exit status | parse, fill in, create, initialise, start, cancel, wait, exit | all handlers that roles switch on, or none; no exit before the counted goroutines end; a status that tells which |

`start` and `startSync` share only the two channels and the context. The
wait group counts `start` and `watch`, from inside the goroutine, and not
`startSync`. The source chain and the contract on the other chain are reached
through nodes that may fail at any call. Nothing is stored on disk: a restart begins
at the height the contract is at (`LastHeaderSync`). Listener and submitter both open
`config.Nodes` for their reads of the contract, so that it is the same contract.

Hard parts: the item-by-item drain that races the submitter; resets computed
before an earlier one took effect; two bounded channels in opposite directions;
uint64 subtractions near height 0; transactions that are pending, lost or sent
twice; batches that mix headers from before and after a drain; partial start;
cancellation in any blocking call.

## The modules

### HeaderSync

`start` and `startSync` of one handler. A header is its height: the loops never
look at its contents. `hpc` and `spc` say where the two goroutines are; `ch`,
`reset`, `height`, `latest`, `headers` are the variables of the code, `hdr` is the
last header received and `pend` the value being sent on `reset`. Each step
between two communications is an action; the drain is one action per header,
because the submitter may receive between two of them.

* Free: the verdict of `SubmitHeadersWithLoop`, the failure of a fetch,
  the outcome of each comparison in `RollbackToCommonAncestor`, the growth of
  the source chain, cancellation. The results hold for every submitter and chain.
* `Word` is the number of values of a uint64. It is small in the runs, so that
  wrapping subtractions happen; the assumption is only that real heights are below it.
* `RollbackAstray`: a search that ran below 0 goes on from 2^64-1, where the contract has no header, so that each
  round takes one height off without asking the source. It does not come back
  to the heights of the chain in the life of the process, and never looks at `Done`.
* Both submitters have the same two loops; the map points some actions at `eth.go` and
  some at `top.go`.
* `done` may become true at any time; `Exited` is the process after `wg.Wait`. The
  submitter may go on a little or be cut off; nothing is said of it then.

`HeaderStream` is the abstract specification: a stream of consecutive confirmed headers, taken from at
one end, that rewinds to a lower height only when it is empty. `StreamKept` maps `ch` to the stream and
`Cursor` to its end; a drain is a series of `Remove`s and the end of a rollback a `Rewind`.

`HeaderSyncHistory` adds `owed`, the lowest height whose submission has not
succeeded, to state that no failed header is left behind (`NothingSkipped`), and `faults`, the number of failures, which
`MaxFaults` bounds.

### Submitter

`SubmitHeadersWithLoop` of `eth.Submitter` and `top.Submitter` (`Kind`). The contract
holds the headers `1 .. side` and takes a header only after its parent; sent
transactions wait in `pool`, and are mined in any order or lost. Calls are
arbitrary runs of consecutive headers, so that every order a caller may use is included.
A read of the contract may fail `MaxErrors` times, and any number of times once
cancelled. Building a transaction asks the contract whether it would take the
header ("parent header not exist" and the like give the verdict `inconsistent`).
The transactor is given nil options by the code; what the library makes of that
is outside this repository, and the model takes the call to do what the code's
error handling expects of it. The configuration is taken to have a wallet: without one `Init` leaves
`s.wallet` nil (eth.go:50) and the first transaction panics (eth.go:174).

`Submission` is the abstract specification of a call with one header: nil means that the header is in the
contract, or was sent by this call, or that the process is told to stop; nothing is sent before its parent
is in the contract; an error says nothing. `PromiseKept` maps the program counter of `Submitter` to "idle" and "busy".

### CommonAncestor

`RollbackToCommonAncestor` alone, with what it compares. Blocks are a height and the number of the fork that
made them; the source chain may fork, and someone may submit headers to the contract, between the two reads
of a height. A failed read of the contract looks like a missing header and costs one height; a failed read of the source is
tried again. `HeaderSync` keeps both answers free (`RollbackMatch`, `RollbackMiss`); this module says which height comes
out. `RollsBack` maps it to the handler of `HeaderSync` while it is in the rollback: every step is a `Rollback` of that module.

Forks stop at the height `Final`, which the contract has, and fewer reads fail than that (`AncestorAssumption`):
the code has no floor, and without a height both sides share the search runs below 0 (`search`).

### Relayer and LightClient

The whole relayer: the actions of `HeaderSync` joined with those of `Submission`, which stands for
`Submitter` (`PromiseKept` shows that it may), a contract that takes a header only after its parent, a pool
whose transactions are mined or lost, and the process, which may end between any two steps, any number of times, and is started
again at the contract's height with the old transactions still in the pool. `ReturnError` is
also taken for headers the contract would refuse, which is how a skipped header is noticed.

`LightClient` is what all of it promises: the contract moves by one confirmed header at a time and is only asked to
take the next. `ClientKept` maps its variables to `tip`, `side` and `pool`.

It covers the loop with single headers (the default), a source without the ancestor search (TOP), and an eth
submitter that acts on its chain id; forks are in `CommonAncestor` only.

### Startup and MCStartup

The process from its command line to its exit: subcommands, the environment check, roles, nil
header syncs (dereferencing one panics), chain id conflicts, the guards of `Init` and
`StartSync`, handlers initialised and started in order, the wait group with `Add`
inside the goroutine, cancellation, the exit status. Map iterations take the keys in any order.
`MCStartup` has the configurations and roles: all files with one
chain ETH (each header sync nil, or with a source of ETH, TOP or none and a target of ETH, TOP, another chain or none), and a few with two
chains, with TOP among the chains, or with a mistake.

### How they fit

    HeaderStream <- HeaderSync --+
                                 +-- Relayer -> LightClient
    Submission   <- Submitter  --+
    CommonAncestor: the answers HeaderSync leaves free
    Startup: a started handler is its two counted goroutines, which end (CancelStops)

One warning about reach: today's guards (see `startup_documented` and `submitter_ignores`) do not let the
documented directions start, and the only pair that starts drops its headers.
The pipeline and the submitter are verified as they are written, for the directions they
are written for.

## The runs

| run | question | bounds, and why they are enough |
|---|---|---|
| `loop` | single headers: mutual blocking, contiguity, confirmations, nothing skipped; progress, failures revisited, cancellation; `HeaderStream` is implemented | default buffer 2, 3 failures: one to reset, one while the reset waits, one after the handler went back; the chain grows by 7, so that 6 headers get their confirmations and the first 3 are not above `Settled` |
| `batch` | for batches of 2: the inductive invariant, nothing skipped; progress, which includes that the headers of a failed batch come back | default buffer 4, 2 failures: full and timed-out batches, one on each side of a drain; 8 headers, none waiting for confirmations, the first 2 not above `Settled`; cancellation reaches the handler as in `loop`, which does not know of batches |
| `search` | contiguity, nothing skipped with the common ancestor search (ETH) | 1 failure; the search runs to height 0 and past it |
| `submitter` | what success and the last commit mean, eth, single headers; every call returns, each of its steps having used up something (`EffortShrinks`); `Submission` is implemented | 3 heights, 3 attempts, one failed read, one lost transaction; the check of the last commit comes every five calls, which all fit |
| `relayer` | does the contract follow only confirmed headers, and does it catch up, through failures, lost transactions and restarts | default buffer 2; any number of failures, losses and restarts, anywhere; `Start` is 0, a new contract, so that the subtraction wraps for the first headers; the chain grows by 8: 7 headers get their confirmation, 6 of them must reach the contract, and 3 when a failure at the end is left unseen |
| `ancestor` | where the search ends, with forks and foreign submissions between its reads; does it do what `HeaderSync` allows | 6 heights, the search starts at 5, 2 forks during the search, 1 failed read of the contract against 2 final headers |
| `startup` | complete service or none; exit after the counted goroutines; the status; a command ends; the roles decide what has handlers, but for TOP (`RolesDecide`); what is started is from ETH only (`OnlyFromEth`) | 175 configurations, 9 roles files, 3 command lines; up to four handlers in one process, each node call may fail |

`MaxHeight`, `MaxFaults`, `MaxErrors`, `MaxLost`, `MaxForks`, `MaxFailures` are the named bounds on
unbounded things; `Word` is 32. `PROJECT.json` has a mutant for each property: a plausible bug in the
modelled code with which the run finds the property violated.

The handler looks at `reset` once per header and not while it waits for the source chain, so that on a chain that stops a
failure among the last headers is never dealt with (`ResetUnseen`). The two progress properties therefore say: all
confirmed headers are submitted with success (`StreamProgress`; all but the last are in the contract, `CatchesUp`), or a reset is left unseen, and then
at least those up to `Settled` are (one less in the contract, when the parent of the one that failed was lost). TLC refutes both
without the second alternative, and with a higher `Settled`. `StreamProgress` includes `FailureRevisited`, which says it of each header of a submission and is kept
where the state space allows it.

Violation runs, each a disagreement with a line of the repository (details in `findings`):

| run | shows |
|---|---|
| `loop_goes_back` | a failure at height 1 or 2 asks for a wrapped or zero height, which is ignored; the header is sent again once a later one is refused (`relayer`) |
| `submitter_top` | top's existence check is always true: nothing is sent, all is marked committed |
| `submitter_batch` | only `headers[0]` is sent; the last header is marked |
| `submitter_ignores` | the eth submitter ignores headers of the one source its `Init` accepts |
| `startup_documented` | neither documented direction can start |

Remarks without a run. The sample files panic on a nil header sync (`roles.go:45`), if their `Env`, which is not the
build's, is corrected. A command that fails is logged and the process exits with 0; `createaccount`
with an empty path logs "Command was executed successful!". Two comments differ from the code in a number: a failed batch goes back by its
length and 2, where eth.go:337 and top.go:350 say 100, and the last commit is checked with every
fifth success, where eth.go:89 and top.go:86 say 4.

### Fairness

`HeaderSync!FairSpec`: weak fairness of the two goroutines (the Go scheduler, timers, and, by `CallReturns`,
the submit loop), weak fairness of the growth of the chain, strong fairness of a
successful fetch (the code retries it for ever). None for cancellation, failures, or the
choices of `select`. `Relayer!RFairSpec`: the same goroutines, and that the source grows and the other chain mines; none for
restarts, and instead of a bound on the failures and restarts the condition of `CatchesUp` that they come to an end, and races lost with them.
`CommonAncestor!FairSpec`: the search runs, and a source that is asked again and again answers. `Submitter!FairSpec`: the goroutine runs and its calls to nodes return something.
`Startup!FairSpec`: main and the goroutines run; a cancelled goroutine ends. No signal need come.
`CancelStops` is checked for chains without the ancestor search: the search does
not look at `Done`, and with it the property is false once the search runs below height 0.

### What does not hold

`NothingSkipped` is proved for a buffer of two, the default for single headers, and a handler that starts high enough
(`HistoryProofs`); both are needed. With a buffer of 3 TLC finds it violated for single headers with 5
failures (not with 4) and for batches of 2 with 4; with a buffer of 4, the default for batches of 2, with 2 failures for single headers
and 3 for batches (a batch collected across a drain counts back from its newest header); and near height 0 with any buffer.
A stale reset then drains headers that were not submitted and resumes
above them. The contract refuses the next header, whose parent is missing, and the handler
goes back further. `CatchesUp` is about that: for single headers it converges once the faults end, from wherever
they left the process.

`CatchesUp` assumes, next to an end of failed fetches, calls that fail for no reason, lost
transactions and restarts, that the submitter takes the last header of a drain a finite number of times (`LosesRace`). That is
no failure but ordinary interleaving: `header_sync.go:157-163` and `eth.go:285` receive from the same channel. With the default buffer of two it
can repeat by itself: the submitter takes the last header of a drain, the contract refuses it for want of its parent,
the late reset is for a height below the handler's again and starts another drain, of which the submitter again takes the last.
TLC finds this cycle when the assumption is left out, and none with a buffer of one. Only scheduling ends it.

## The proofs

`HeaderSyncProofs` proves, for every value of the constants that `ConfigAssumption` allows
(positive batch and buffer, heights below `Word`):

* `Inductive`: `Spec => []IInv`, by one lemma per action. `IInv` adds to the
  properties three things they need. `RoomAfterReset`: once a reset waits, the handler
  passes `select` at most once before it sees it, and the submitter, to fail again, has taken a header from `ch`,
  so that `ch` is not full when the handler sends; this is what excludes mutual blocking.
  `HandlerBounds`: where `height`, `latest` and `target` may be at each place, which
  gives the confirmations and keeps heights in uint64. `SubmitterBounds`: the size of the batch.
* `TypeCorrect`, `NeverBlocked`, `Contiguous`, `Confirmed`: consequences.

`HistoryProofs` proves `NothingSkipped` for a buffer of at most two headers, for any batch, chain and order of
the two goroutines:

* `NeverSkips`: with or without the ancestor search, and for any number of failures, as long as submissions fail only where
  the height to go back to, `hdr - 2` or `hdr - len - 2`, is above 0 (`HighEnough`). The buffer is what makes it so: between a
  failure and its reset the handler passes at most the header it has in hand and the two on `ch`, so that by the time a drain begins it is
  two heights or more above the target (`OwedInv`), and no drain moves it forward over what is owed. `OwedInv` says that a header
  that is owed either is still to come, is in the batch, or is above the height a reset on its way asks for (`AskedBack`), and that a batch counts
  back from its last header far enough for all of its headers, those taken in the middle of a drain included (`BatchSpan`).
* `NeverSkipsBounded`: `HSpec => []NothingSkipped` with no condition on the behaviour, for a source without the search and
  `MaxFaults * Drop <= Start`: each failure takes the handler down by at most `Drop`, the batch and two (`LowInv`), so that
  the first theorem's condition always holds. With the search no such bound exists: it may go down to height 0 on its own.

`SubmitterProofs` proves, for `eth.Submitter` with single headers and TOP's chain id
(`Relays`), any number of attempts, heights, failed reads and lost transactions:

* `Delivery`: `DeliveryInv`, which follows the header through the call. Nothing is sent before its
  parent is in the contract, so nothing sent is refused; the call passes the existence check and
  the confirmation only with the header delivered.
* `LastCommitIsSubmitted`, `NilIsSubmitted`: consequences. "Submitted" is: in the contract, or
  in a transaction that was sent (and may be pending or lost). Without `Relays` they are
  false (`submitter_top`, `submitter_batch`, `submitter_ignores`).

`HeaderSyncProofs` also proves `Implementation`, `Spec => StreamKept`: with `IInv`, every action of the pipeline is a step of
`HeaderStream` or leaves it unchanged. `SubmitterProofs` proves `Promised`, `Spec => PromiseKept` under `Relays`, from
`DeliveryInv` in the same way, and, for both submitters and any batch, `SubmitterTypes` (`TypeOK`), from `TypeInv`: attempts
are counted where the limit has been compared, so that there is one more at most. Two more results hold for both submitters:

* `CallsAreFinite` (`EffortShrinks`): `Effort`, the failed reads and attempts that are left and the way out of the round,
  goes down with every step of a call and never goes up in one. A call thus takes a bounded number of steps; that they are taken
  is fairness, and `CallReturns` stays with TLC.
* `NeverSends`: `top.Submitter`, and `eth.Submitter` unless its chain id is TOP's, never send anything
  (the hypothesis is `Kind = "top" \/ Ignores`): the header is taken to exist, or the call returns at once.

`RelayerProofs`, for any number of restarts, losses and failures:

* `RelayerInvariant`: `RSpec => []RInv`. `RInv` is `IInv` of the pipeline, which is cited for the steps the
  pipeline makes, and `Follows`: what is mined or waits to be is confirmed. The two meet in `Send`: the header of a call
  is confirmed because it came from `ch`, and is the next one or one the contract has. A restart begins at `side`,
  of which `Follows` says that it satisfies what `IInv` asks of a fresh handler.
* `ContractFollows` and `ClientImplemented` (`RSpec => ClientKept`): consequences.

`AncestorProofs`, for any number of forks and any heights:

* `SearchInvariant`: `AInv`, which says that nobody changes the final part, that a final height is only left after a failed
  read, and that on chains at rest each height passed was different or unread.
* `StaysAbove` (`NotTooFar`) and `FindsHighest` (`HighestFound`): consequences.
* `FoundIsKnown` (`ParentKnown`), from `KnownInv`: the contract knows a block of the source only with all those
  below it, and a fork has a number no block had, so that a comparison across a fork cannot succeed by chance.
* `SearchRollsBack` (`RollsBack`): every step of the search is a step of `HeaderSync`'s rollback or leaves its variables
  unchanged; `NotTooFar` is what keeps it from going astray.

`StartupProofs`, for every configuration, roles file and order of the maps:

* `StartInvariant`: `StartInv`. `GoroutinesInv` makes the wait group the number of goroutines that run and have not
  finished, so that zero means that none does; `RolesInv`, `HandlersInv` and `StartedInv` say what each loop has done for
  what it has gone through; `StatusInv` carries that everything was started from `serving` to the exit.
* `ExitIsLast`, `NoHandlerForgotten`, `StatusTold`: consequences.
* `RolesObeyed` (`RolesDecide`): handlers are of entries that are on (`SwitchedOn`), every entry that is on has one (`HandlersInv`), and
  an entry of a chain other than TOP is on when the role is (`RolesInv`). `roles.go:34` leaves TOP out: a role of TOP that is off
  switches nothing off.
* `StartTypes` (`TypeOK`), from `StartInv` and `ValuesInv`.
* `OnlyEthRuns` (`OnlyFromEth`): every goroutine there is belongs to a header sync from ETH with the submitter for ETH and
  BSC. `AcceptedInv` carries what `Init` accepted from the loop that calls it to the loop that calls `StartSync`.
  With `NeverSends` this says that nothing that starts ever submits: the chain id of such a submitter is its source's, ETH, which it ignores.

Only model-checked: all liveness (`CancelStops`, `StreamProgress`, `FailureRevisited`, `CallReturns`, `CatchesUp`, `Ends`, `StopEnds`,
`CommandEnds`; fairness is out of the prover's reach), and `NothingSkipped` where the run has a buffer above two
(`batch`), where it holds only for so few failures, or the ancestor search (`search`).

## Not modelled

* The generated contract bindings but for the methods the relayer calls; `patch.go`, most of `msg` and the
  transaction methods of listeners and submitters: left over from another relayer, nothing starts them.
* In `cmd.go`, all but the two commands `HandleCommand` knows: nothing calls the rest.
* `monitor`, called from nowhere; `watch` only logs, and appears as a goroutine of the wait group.
* Logging, paths, nodes and wallets of the configuration; `FillListener` and `FillSubmitter`, whose only calls are behind
  the nil pointer that panics first; the declaration of the flags.
* Batches against the contract: of a batch only the first header is sent (`submitter_batch`), so that what follows is
  known without the composition. Forks against the pipeline: `CommonAncestor` says what the handler gets.
