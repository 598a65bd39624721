# TLA+ models of the Breathline federation node

Specifications, TLC runs and machine-checked proofs for the platform under
`src/platform` of this repository. Everything here is written from the code;
`PROJECT.json` maps the definitions to the lines they stand for (a helper of a line or
two, such as `PeersOf`, stands for part of the lines of the definition that uses it).

Run a model with `tlc -workers 2 -config CostMeter.cfg MCCostMeter`, and check the
proofs of a module with `tlapm CostMeterProofs.tla`; so for each `*Proofs.tla` and
`NaturalLemmas.tla`.

## 1. Inventory of the system

One process (the *node*) answers requests for *roles* (agents). A request passes
`route_request` (`platform_layer/plugin_interface.py`), which calls, in this order,
the role registry and the role's permission spec, the cost meter, the role's
handler, the critic, the cost meter again, the Auditor (which runs the external
`seal.sh` and so appends a *cylinder* to a hash chain on disk), and the receipt
minter (which posts to an external service). The chain sentinel hangs on the
Auditor as a hook and replays the whole chain now and then.

| Component | State it keeps | Operations | Hard part |
|---|---|---|---|
| Cost meter `kernel/cost_meter.py` | session total; spends per role and per principal, in memory | `check_and_reserve`, `reconcile` | the reservation is not recorded; no lock; two sliding windows |
| Request pipeline `platform_layer/plugin_interface.py` | none of its own: it drives the others | `route_request`, `create_app` | partial failure between its eight steps; calls in flight together |
| Permission specs, vocabulary `platform_layer/permission_spec.py` | frozen at boot | two loaders, `check` | precedence of always-available, forbidden and allowed classes |
| Role registry `platform_layer/registry.py` | roles by id, fixed at boot | `register`, `get`, `has` | - |
| Critic `platform_layer/role_artifact_critic.py` | none | `review` | what counts as drift |
| Auditor and seal `kernel/primitives/auditor.py`, `platform_layer/audit_adapter.py` | the cylinder directory | `log` / `seal`, `replay_chain` | the subprocess may have written although the call raises |
| Chain sentinel `platform_layer/chain_sentinel.py` | baseline of the boot, seal counter | `boot_check`, `on_seal`, `verify` | a directory shared with other writers; positions as identities |
| Receipt minter `platform_layer/receipt_minter.py` | a window and a batch per event class, a window per principal | `mint`, `flush_batch` | two locks, the clock read outside them, posts outside both |
| Runtime `platform_layer/runtime.py` | the wiring | `build_runtime_context` | what a restart resets |
| Breath gate `kernel/breath_gate.py` | none | `request_confirmation` | blocking input against a deadline |
| Kernel boot `kernel/boot.py`, `scripts/bootstrap.py` | the kernel object | the script's own tests; `boot`; `--full` | the seed is read twice around a human confirmation, file by file |
| Kernel primitives `kernel/primitives/*` | spec registry | register, construct, review, elevate | four checks in four classes, over specs that stay mutable |
| Roles `roles/*` | none | `process`, in two flavours; registration; six factories | syntheses call their peers directly, and one another |
| Node API `platform_layer/node_api/*` | none | read-only queries over HTTP and MCP | pagination by rank over a chain that changes; two transports |
| Installer `installer/*.sh` | the installation directory | install, upgrade, doctor, status | interrupted and repeated runs |
| Publishing, workflows, documents | files | - | no state of the node |

What makes each correct:

* *Cost meter*: no interleaving of checks and reconciliations overshoots a cap by
  more than the calls in flight explain; any stretch of a window is bounded, not
  only the last; the ledgers agree with each other.
* *Pipeline*: the handler sees admitted requests only; no accepted answer and no
  receipt without evidence on the chain; nothing sealed twice; charges match
  artifacts; every call ends.
* *Minter*: bounded rate in every window; nothing batched is lost or counted twice
  by a race; what is said to be minted was.
* *Sentinel*: no alarm over clean growth; damage is noticed within the cadence;
  nothing can be cut out of the directory a process was booted with.
* *Gate, boot*: no kernel whose texts are not the published ones, and none the script
  brings up without a breath of the minimum; no role admitted by classes other than
  those in force; every boot ends.
* *Kernel primitives*: nothing approved that was not constructed from a spec of a real
  parent and reviewed as itself, unless somebody changed one of these specs, which stay
  mutable; gated layers entered with a signature only.
* *Roles*: a brief says the truth about every peer asked for; a household's request
  stays with household handlers; one peer's exception is not the synthesis's; what is
  answered satisfies the node's own critic; every call ends.
* *Node API*: both transports answer alike, whichever principal the MCP server finds; a client that pages gets every cylinder
  once, or a bounded amount less when the chain is disturbed; no refusal without cause.

How the node runs calls. `/invoke` is an `async def` that calls the synchronous
`route_request`, so one HTTP process serves one call at a time. `route_request`
is public ("pure function, testable"), takes all its collaborators as arguments,
and the receipt minter it calls is written for threads (`threading.Lock`). The
models therefore let several calls be in flight, and the bounds are stated in the
number of calls: with one call they are the caps themselves. Python 3.12 with its
global lock is assumed: `x += y` on an attribute is one step, a call is not.

## 2. Modules

| Module | Models | Reads |
|---|---|---|
| `CostMeter` | `kernel/cost_meter.py` | - |
| `CostMeterProofs` | theorems about it | `CostMeter`, TLAPS |
| `AuditedService` | what the pipeline promises, abstractly | - |
| `RequestPipeline` | `route_request`, with the meter's steps inside | instances of `CostMeter`, `AuditedService` |
| `RequestPipelineProofs` | theorems about it | `RequestPipeline`, TLAPS |
| `ReceiptMinter` | `platform_layer/receipt_minter.py` | - |
| `ReceiptMinterProofs` | theorems about it | `ReceiptMinter`, `NaturalLemmas`, TLAPS |
| `ChainSentinel` | `chain_sentinel.py` and `replay_chain` | - |
| `ChainSentinelProofs` | theorems about it | `ChainSentinel`, `NaturalLemmas`, TLAPS |
| `Documents` | JSON and YAML values as Python sees them | - |
| `RoleAgents` | `roles/*` and `role_artifact_critic.py` | `Documents` |
| `RoleAgentsProofs` | theorems about it | `RoleAgents`, TLAPS |
| `NodeApi` | `node_api/*`, the reading side of `replay_chain` | `Documents` |
| `NodeApiProofs` | theorems about it | `NodeApi`, `NaturalLemmas`, TLAPS |
| `KernelBoot` | `bootstrap.py`, `boot.py`, `breath_gate.py`, the loaders, `build_runtime_context` | - |
| `Kernel` | `kernel/primitives/*` of a kernel that `KernelBoot` brought up | `KernelBoot` |
| `KernelProofs` | theorems about both | `Kernel`, TLAPS |
| `NaturalLemmas` | division and remainders, finite sets of naturals, for the proofs | TLAPS |
| `MC*` | constants for TLC | the module they are named after |

**CostMeter.** `sessionTotal`, `roleSpend`, `principalSpend` are the three ledgers.
`phase[c]` says how far call `c` is: one action for each cap check (each reads its
ledger at another moment), one for the clock reading of `reconcile`, one for each
of its writes. `Abandon` is the caller that never reconciles. The per-request
check shares an action with the role's, because it reads no state. Since the one
caller passes the same estimate to check and reconciliation, every entry is worth
`Est` and a ledger is a sequence of timestamps; an estimate above the per-request
cap is refused before it could be recorded. `Restart` is a new process.

**RequestPipeline.** `stage[c]` is the position in `route_request`, `attempts` the
history of what arrived and how it ended, `chain` the cylinders, `receipts` what the
service issued. The steps of the meter are those of the instance `Meter`, conjoined
with the stage they happen in, so what is proved of the meter holds here by construction;
`SealedWithinBudget` (section 5) says what that comes to on the chain. `seal.sh` may fail
before it writes (`SealFails`), write (`SealWrites`), and after that still raise in
the caller (`SealRaises`: timeout, unreadable output, the sentinel's hook) or return
(`SealReturns`). `Mint` may issue a receipt or not whatever the node hears. The
envelope filter is `Screened` and `Verdict`, with the precedence of
`PermissionSpec.check`; what the loaders refuse is assumed of the constants
(`LoadedSpecAssumption`). All four optional integrations are present. `Restart`
loses the calls in flight and keeps chain, receipts and answers.

**AuditedService.** Five variables: how many requests came, which have evidence, a
receipt, an accepted answer, a refusal. Evidence before receipt and answer; nothing
taken back. `RequestPipeline` implements it (`KeepsPromise`) with evidence read off
the chain and answers off the outcomes; an attempt lost in a crash or answered by a
stub or an error is a denial.

**ReceiptMinter.** `pc[t]` puts each thread between the points where another may
come in: after the clock reading, after the class lock, after the principals' lock,
at the post. A request is a number in `requests`, which also holds its fate.
`Delivered` is the service: a receipt issued or not, heard of or not.

**ChainSentinel.** `chain` is the directory in file-name order, a cylinder a record of
the fields the replay compares. `seal.sh` appends a cylinder linked to the last one,
for this process (`Seal`) or another (`SealElsewhere`); `Damage` is everything else
that can happen to the directory. `passed` remembers the directory that last passed.

**RoleAgents.** `stack` holds the frames of `process()` that have not returned. A
forecast or a compliance role answers in one step: `ApplyForecast` says whether the
forecast reads its figures (`Numerals` are the texts `float()` takes), returns, refuses or raises (a growth factor large enough for the horizon
overflows a float, which nothing catches), `ComplianceAnswer` and the nodes of the
LangGraph path say the same about a review. A synthesis takes one peer at a time:
`SkipPeer`, `PeerPayloadRaises` (the lookup of the peer's payload is outside the `try`)
or `InvokePeer`, which pushes a frame; `Leave` pops one and turns what a peer raised
into a result. `Overlay` is what the family handlers add to their parents' answers,
`PeerHandlers` the dict each synthesis was built with, `Review` the critic. The request
ids of nested calls are the paths they are in the code. `told` is a history: which role
answered what to which request in the call under way, so that a brief can be compared with
what the peers really said. `Values` is every document inside a payload; only its closure
is used, and that lists are sequences.

**NodeApi.** The handlers are operators on a *tree* (what a checkout and the environment
look like), a registry and the chain; a route or tool is an operator on what the handler
gives. `Servers` are the ways to start the MCP server: without an `authenticate` callable or
with one that answers a principal or nobody (`ResolvePrincipal`), over a library that checks
results against the declared type or one that does not (`Undumped`: two tools return the
model itself where they declare a dict, and a checking library refuses it). The arguments of
a filter are `Filters`, the kinds a text is found in, because the handler looks for a
substring. Only the audit query meets a file system that changes under it: `ListPage` and
`ReadPage` are its two steps, as `replay_chain` lists the directory and then opens the
files. Directory and listing are sets of files ordered by name, and the sequence number of
a file is its rank in the listing (`Rank`). The client, asking or waiting for the rest of
a page, pages with `since_seq` until a page is not full; `got` is what it was given,
`received` how many it was given, repetitions included. `Seal` may add a name below the
tip: names carry seconds.

**KernelBoot.** `at` is the position in `main`, in the gate and in `boot`, `phase` which
of the two readings is under way, `held` what it has read so far. One action reads one
file; `Edit` replaces a file by another release's between any two of them. A file is
there with one of a few contents, or `Missing`; a text and its SHA-256 are one value. `shown`
remembers what the tests had read that the operator confirmed. How a run ends is kept
apart: `closed` is an orderly refusal, `traceback` an exception nobody catches, such as
the `EOFError` of an `input()` whose terminal is gone (`EndOfInput`) or a Ctrl-C
(`Interrupt`).

**Kernel.** The primitives of a kernel that is `serving`, and the program that carries
artifacts from the Constructor to the Critic and reports to the Governor. The registry holds
mutable objects: `Sign` adds a signature to a registered spec and `Amend` is every other
change of it (a signature taken back, the body emptied, another parent, another id);
`amended` is the history of these. An artifact is the entry it was constructed `from` and the
`spec_id` it carries, which is all the Critic compares. The program may hand
the Critic any artifact with any spec id, and the Governor any set of the Critic's
reports, but it does not forge reports and climbs one layer at a time.

## 3. Runs

| Run | Instance | Shows |
|---|---|---|
| `CostMeter.cfg` | 2 calls, 1 role, 2 principals, 1 estimate of 1 and one above the request cap; caps 2 / 1 / 3; day 2, hour 1, clock to 3; 1 restart | caps are overshot by at most one estimate per further call; windows slide; ledgers agree |
| `RequestPipeline.cfg` | 2 calls, 2 attempts, a wired, an unwired and an unknown role, a class of each kind, 1 restart | audit, charge, receipt and answer stay consistent through every failure; calls end |
| `ReceiptMinter.cfg` | 2 threads, 2 principals, 1 mintable event with a limit of 2, 4 requests, clock to 2 | rate bound, batch accounting, one receipt per request |
| `ChainSentinel.cfg` | cadence 2, 5 initial directories, up to 7 cylinders, 2 damages, 2 boots, replay cap 6 | alarms neither false nor late; no cut |
| `RoleAgents.cfg` | all six factories, each request of six roles over 50 payloads, call stacks four deep, artifacts nested up to four (`MaxNesting`), the missing peer, the peer that raises, the peer that is itself | briefs truthful, answers conform, households closed, flavours agree; calls end |
| `NodeApi.cfg` | 8 trees, 3 registries, 6 MCP servers, up to 5 cylinders of 2 kinds, 4 filters, replay cap 4, pages of 1 and 2, 2 disturbances of a walk | transports agree; what a paging client gets, misses, sees twice |
| `Kernel.cfg` | 4 releases (two good, one faulty, one bare), 3 files replaced per run of the script, 2 roles, minimum 2, timeout 3, clock to 4; 2 specs, 1 of them amended any number of times, 1 artifact, 2 reports, 5 layers | kernels, roles and approvals are earned; boots end |
| `CostMeterReservations.cfg` | as `CostMeter.cfg` | **violated**: "reserve budget if approved" |
| `ReceiptMinterDenied.cfg` | asks for an event of `default_deny_explicit` | **violated**: "EXPLICITLY DEFAULT-DENY" |
| `ReceiptMinterDropped.cfg` | as `ReceiptMinter.cfg` | **violated**: "not silent drops" |
| `ChainSentinelStrict.cfg` | as `ChainSentinel.cfg` | **violated**: "strictly-linked subchain" |
| `KernelUnsigned.cfg` | one good release, 2 specs nobody amends, 1 artifact, 1 report | **violated**: a spec without signatures "cannot be referenced" |

Why the bounds are enough. Two calls (threads) are the least that race, and the
bounds of the meter are proved for any number. The meter's clock goes one unit
beyond the longer window, so entries leave it. Caps of a few estimates put every
boundary within reach. In the pipeline, two attempts are the least in which one
fails between the steps of the other; each attempt alone already passes all its
failures, and a restart falls between any two steps. In the minter, four requests
fill a window of two and its successor: the slack of `RateBound` (one per further
thread) is really used there, a bound without it is violated. In the sentinel,
seven cylinders and a replay cap of six let the cap be hit, two damages let one hide
the other, and two boots let the second process inherit what the first saw.
In the roles, each payload is there for a branch, and a synthesis of a synthesis of a
synthesis is one more level than any property tells apart; the deepest artifact of a
review nests four documents, which is what `MaxNesting` lets the search for drift tokens
reach. In the node API, a page of one is the smallest that shifts, and five cylinders
exceed the replay cap by one. In the boot, three replaced files are what it takes to
publish new texts with their fingerprints between the two readings, so that a kernel
other than the one shown really comes up; the clock passes the timeout by one, so a late confirmation happens; a calling program is given
no edits there, since its one reading is the second reading of the script, but it is given
the primitives. Two specs are a parent and a child, or two that could be taken for each
other; a second artifact changes nothing any property tells apart (two artifacts pass as
well, in more time than a run has). In the proofs every bound is a constant of any value. The
constants `Max*` are the only bounds, each a guard of the action it bounds.

Every property of a passing run has a mutant in `PROJECT.json`: a plausible bug
in the code (a check that forgets the estimate, a batch copied but not cleared, a
seal that is retried) under which TLC finds the property violated.

**Deadlock** is checked in all runs but the two of `Kernel`, where a script really exits. `Idle`
lets a system whose bounds are used up stand still.

**Fairness.** `Answered` needs weak fairness of `Proceed(c)`, the steps of
a call once it was admitted. They are straight-line code of the process, and its two
waits end: `subprocess.run` has a timeout (audit_adapter.py:115), so has the post
(receipt_minter.py:318, 324). It does assume that a handler returns or raises, which
`CallsEnd` shows of the shipped ones: weak fairness of `Serve`, the steps of one
synchronous call that waits for nothing. `BootEnds` assumes that the script runs on,
that the clock ticks and that the person at the terminal goes on typing something
(`Operator`), because `input()` has no timeout: without that the gate waits for ever,
its deadline notwithstanding. That the person ever confirms or declines is not assumed. No fairness
is assumed for arrivals, restarts, edits or the primitives.

## 4. What the runs found

Five places where the code does something else than its own words; see `findings`
in `PROJECT.json` for the lines.

1. `check_and_reserve` reserves nothing: two calls can hold a reservation for the
   same budget. By `SessionBounded` the overshoot is one estimate for each further call.
2. A spec nobody signed can be registered, referenced and approved; only the parent of a
   spec is asked for its signature.
3. Events in the section `default_deny_explicit` of the taxonomy can be minted: the
   loader walks all sections under `events:`.
4. A flushed batch whose post fails is dropped.
5. A cylinder that names `GENESIS` passes the sentinel anywhere in the chain.

Noticed while modelling; the models carry what the code does:

* `apply_synthesis` "always returns an ExecutiveBrief", but a peer payload that is not a
  dict raises outside the `try` (synthesis.py:133); `RaisesAreOwn` says exactly when.
* Refusals by role lookup and envelope are not audited, refusals by cost gate and critic are:
  "audit fires on success AND refusal" (plugin_interface.py:527-528) holds of the latter.
  `AnswersAudited` says which outcome has a cylinder and which has none.
* A forecast whose growth factor overflows a float raises `OverflowError` instead of
  refusing; a revenue series that ends below zero passes at horizon 1 when its next
  value is positive.
* "Both paths produce identical outputs" (runtime.py:133) holds but for the framework
  named in refusals; `FlavoursAgree` says so.
* Peers are called without envelope filter, cost gate, critic and audit. The critic accepts
  the artifacts of the family roles through its list of key hints only.
* The shipped auditor and minter offer none of the queries an Evidence Bundle asks
  for, so five of its sections are always degraded.
* The audit query refuses a chain of more than 500 cylinders, which the sentinel still
  boots from; and its sequence numbers are ranks (`WalkBounds`).
* The contract says newest first (contract_v1.yaml:213), the code answers oldest first.
  `WalkExact` takes neither side: what a client holds is a stretch of the chain without
  holes, whichever end it begins at, and in the end the whole of it.
* An MCP server without `authenticate` refuses every caller: `_resolve_principal` asks the
  library's `Context` for a value it has no method for, and swallows the exception
  (mcp_server.py:83-94, 228-242). "No HTTP-only capability" (mcp_server.py:4-5, and R6 in
  separability.md:57) then holds of a server with a callable only, and such a server takes all its callers
  for one principal, since the callable is given no context. `TransportsAgree` is stated per
  server, against HTTP as that server's principal.
* `breathline_audit_query` and `breathline_breath_gate_pending` return pydantic models where
  they declare `dict[str, Any]` (mcp_server.py:204, 223); whether the caller gets the body or
  a tool error depends on the library. The module's docstring says both raise
  `NotImplementedError` (mcp_server.py:20-22, 198); both dispatch to their handlers.
* A confirmation typed after the gate's timeout counts: the deadline is looked at before
  `input()` blocks (breath_gate.py:134).
* "Operator silence raises" (test_breath_gate_timeout.py) holds of an injected `input_fn` that
  returns; the shipped one blocks, or ends the script with a traceback when the terminal closes.
* The confirmation is not tied to the seed that `boot()` reads afterwards. `KernelEarned`
  says what still holds: the second reading is tested again, and is the first one's if no
  file was replaced. The prompts are not fingerprinted, and `boot()` takes them from a reading
  of the manifest other than the one it tests.
* "Specs are immutable once published" (spec.py:4), but the models are not frozen and the
  registry hands them out: `ApprovalsEarned` holds as far as nobody amended a spec. Nor does
  `is_real()` look at any signature but the proposer's.
* An always-available class passes although the role's own list forbids it, as documented
  (action_classes.yaml:109).
* An empty list of critic reports satisfies the Governor, and a proposal that skips a
  layer is not in its list of gated steps.

## 5. Proofs

`CostMeterProofs` proves, for every set of calls, roles, principals, every cap,
estimate, window and bound that satisfy the assumptions of `CostMeter`:

* `TypeCorrect`: `Spec => []TypeOK`;
* `SessionBounded`, `RoleBounded`, `PrincipalBounded`: the three bounds;
* `AnyDayBounded`: the role's bound over every day there ever was, and `LedgersNeverDrift`:
  `Spec => []` of `AnyDayBound` and `LedgersAgree`.

The bounds are not inductive: between its check and its charge a call carries a
right to charge that no ledger shows. The invariant therefore counts these calls
(*holders*) as if they had been charged: `sessionTotal + Est * |SessionHolders| <=
CapSession + Slack`, where `Slack` is one estimate for each call but one. A check that
passes adds a holder when the total alone left room for one estimate, and the other
holders are at most all the other calls; a charge moves one estimate from a holder to
the total; everything else only loses holders. The same with `RoleHolders` and
`PrincipalHolders` and the entries a window counts. For the windows a further lemma is needed: a clock tick only takes
entries out of a window (`RecentEntries` shrinks), an append adds at most one. The
arithmetic of cardinalities rests on the library's theorems about finite sets.

`AnyDayBound` is about days long gone, which no window counts any more. `OverInv` says of
every day that is over: what it was charged, with the calls that read the clock in it and
have not written yet (*pending*), fits the cap. It becomes true when the day ends, from
`RoleInv`, and from then on a write only turns a pending call into an entry. A restart
empties the ledgers, so entries are counted over `EverSpent`. `LedgersAgree` is
inductive but for the finiteness of the sets it counts (`AgreeInv`): each write of `reconcile`
adds one entry and moves its call past one of the points the equations count.

`RequestPipelineProofs` proves, for every set of calls, number of attempts, registry
and vocabulary that satisfy the assumptions of `RequestPipeline` (which include those
of `CostMeter`, and what the two loaders refuse to load):

* `TypeCorrect`: `Spec => []TypeOK`;
* `SealedWithinBudget`: the artifacts this process has sealed cost no more than the session
  cap and the meter's slack, whatever failed or raced. No run checks it: with the two
  attempts of the run the bound is out of reach. TLC was given three, where the bound is met
  exactly;
* `Audited`, `Sealed`: `Spec => []AnswersAudited`, `Spec => []SealedOnce`;
* `OnlyAdmitted`: `Spec => []OnlyAdmittedRuns`;
* `Charged`: `Spec => []ChargedForArtifacts`;
* `Promised`: `Spec => KeepsPromise`, the refinement of `AuditedService`, and `PromiseIsKept`,
  what it gives a client: `Backed` always holds and every step is `Lasting`, so no receipt and no
  accepted answer is without its artifact on the chain, no attempt is both accepted and refused,
  and nothing said or written is taken back, by failures and restarts included.

They rest on an invariant of several parts. `CallInv`: a call that is not idle works
on an open attempt that no other call works on and whose role is registered; every
proof needs it, because stages belong to calls and everything else to attempts.
`AuditInv`: the chain holds no two cylinders of one attempt (`ChainInv`), none yet for
a call up to the seal, one that says what the call is about for a call past it, and
the call's attempt names it once the seal returned (`EvidenceInv`); `AnswersAudited`
alone says nothing about calls still in flight, and so is not inductive.
`AdmissionInv`: what is at the gate has passed the envelope filter, and what is at the
handler holds its reservation. `Envelope` derives from the filter's order of tests that
a forbidden class never passes: an always-available class skips the role's forbidden
list, so here the loader's refusal of a vocabulary that meets the charter's list
(`LoadedSpecAssumption`) is what the proof uses. For `Promised`, each step maps to one
step of `AuditedService` or to a stutter: `Receive` to `Ask`, a seal of an artifact to
`Record`, a mint that issues to `Issue`, an accepted answer to `Grant`, every other end
of an attempt, and the attempts a restart loses at once, to `Deny`. For `Charged`,
`ConformInv` adds that only an artifact is ever reconciled and `ChargeInv` that a cylinder
names a process up to the present one: a charge then adds an estimate and a call between
charge and seal, a seal trades that call for a cylinder of this process, and a restart
starts a process that has sealed nothing.

`ReceiptMinterProofs` proves, for every set of threads and principals, every taxonomy,
limit, batching choice and bound (`ThreadsAssumption`, `LimitAssumption`, and
`TaxonomyAssumption`: each allowed event has a limit, as `_build_rate_limiters` gives it):

* `TypeCorrect`, `NeverReceiptedTwice`, `ReceiptsAreHonest`, `BatchesAreAccounted`,
  `RatesAreBounded`: `Spec => []` of `TypeOK`, `ReceiptedOnce`, `ReceiptsHonest`,
  `BatchAccounted` and `RateBound`.

A receipt can only be said to be the first of a request if the request was in one place
before. `JobInv`: a working thread has an open request no other thread has. `PlaceInv`: a
batched request is in the batch of its class (`WaitInv`) or in the hands of one flusher
(`HoldInv`), once, and nowhere is one lost (`FoundInv`). `CoverInv`: receipts cover
requests that are past both. `RateBound` speaks of every minute, past ones included:
`RateInv` says of each minute that all its slots are still in the window, or that it is over
and its slots with the threads that read the clock in it and have not come to the limit yet
(`Late`) fit the limit and one more for each further thread. It is these threads that make
the bound more than the limit.

`ChainSentinelProofs` proves, for every cadence, bound and set of directories to boot from
(`LegacyAssumption`: cylinders in the order they were made, each with a hash of its own or
none):

* `TypeCorrect`, `CleanSealsRaiseNothing`, `DegradationIsNoticed`, `NothingIsCutOut`:
  `Spec => []` of `TypeOK`, `NoFalseAlarm`, `NoticedInTime` and `InteriorSurvives`.

`DirectoryInv`: the directory, the one booted with and the one that last passed are ordered
by birth, and a cylinder that is in two of them is the same in both. `BreaksInv` ties the
sentinel's memory of link breaks to the directory it booted with; `CleanInv` says what clean
seals leave as it was, so that no verification can raise; `CadenceInv` bounds what went
unnoticed by the position in the cadence, `sealCounter % EveryN`. For `InteriorSurvives`, of
the cylinders cut out between two survivors the last would be the predecessor of one that
passed; its successor names it, a directory without breaks has a cylinder of that name just
before, and so it passed too.

`NodeApiProofs` proves, for every set of checkouts, registries, callers and kinds, every page
size, replay cap and bound (`CallersAssumption`, `ServersAssumption`, `FiltersAssumption`,
`BoundsAssumption`, and `HomeAssumption`: the client pages through a directory that is found):

* `TypeCorrect`, `UndisturbedWalksAreExact`, `DisturbedWalksAreBounded`,
  `RefusalsAreFounded`: `Spec => []` of `TypeOK`, `WalkExact`, `WalkBounds` and
  `NoFalseRefusal`;
* `TransportsSayTheSame`: `Spec => []TransportsAgree`.

The bounds of a walk relate the end of it to its beginning, over any number of pages with
removals and insertions between and during them. The invariant keeps the account open:
every cylinder there from the start that lies behind the client and was not given to it is
paid for by a removal (`MissedInv`), and every one given twice, to be given again, or
inserted and not in the listing in hand yet, by an insertion (`TwiceInv`). Both are counted
by rank: a removal pulls at most one file behind the client's position and an insertion
pushes at most one over it, which is what the lemmas on exchanges of sets say. `KeptInv` and
`ExactInv` are what an account without removals, and without any entry, comes to; `EndInv`
carries the account to a walk that has ended.

`RoleAgentsProofs` proves, for every caller, set of payloads, drift tokens and bound of the
forecasts (`PayloadsAssumption`: a payload is a dict, and what lies inside one is a document
whose lists are sequences):

* `TypeCorrect`, `BriefsTellTheTruth`, `AnswersPassTheCritic`, `HouseholdsStayHome`,
  `NoPeerTakesACallDown`: `Spec => []` of `TypeOK`, `BriefsTruthful`, `AnswersConform`,
  `HouseholdStaysHome` and `RaisesAreOwn`;
* `FlavoursAnswerAlike`: `Spec => []FlavoursAgree`.

A brief is written when all its peers have returned, so `BriefsTruthful` says nothing of a
synthesis under way. `StackInv` does: each frame above another serves the very request the
lower one waits for (`Serves`), and the results a frame has are those of its first
peers, with what they answered on record in `told` (`ResultsHold`). When the innermost
frame leaves, the record grows by its answer and the frame below by a result that is on
record. The answers come in by `Fits`, one lemma per handler: it raises by the fault of its
own payload, or gives an answer that conforms after the family overlay and has a brief only
if it heard every peer. `HouseholdStaysHome` is inductive with it: a frame above a household
synthesis is a family role's, and a family synthesis has none but family roles to call.

`KernelProofs` proves, for all texts, prompts, releases, action classes, lists of roles,
times, specs, layers and numbers of replaced files that satisfy the assumptions of
`KernelBoot` and `Kernel`:

* `TypeCorrect`, `KernelIsEarned`, `RolesAreAdmitted`, `ApprovalsAreEarned`:
  `Spec => []` of `TypeOK`, `KernelEarned`, `RolesAdmitted` and `ApprovalsEarned`.

Each property speaks of the end of a path, so none is inductive. `Inv` says what is known
on the way: `ReadInv`, what has been read at each place of the run; `FitsDisk`, that it is
what the disk holds while nothing was replaced; `BreathInv`, what the operator had
confirmed when `boot()` was entered, and that it was still the disk's; `KernelInv`, how a
kernel relates to both; `RoleInv`, that all roles so far were admitted by the classes
held. The last two clauses of `KernelEarned` follow because both readings equal the
disk when `edits = 0`. `CustodyInv` chains the primitives, each link with the same proviso
as `ApprovalsEarned`: an artifact made from a spec nobody amended carries its id, and the
spec has a body and a parent that is real or was amended; a report that conforms and names
such a spec is about an artifact of that spec; the Governor's basis is of such reports.
`Sign` keeps the links, and `Amend` takes the spec out of the proviso. TLC checks `TypeOK` and the properties; `Inv` was checked by
it as well before it was proved.

Only model-checked are the liveness properties `Answered`, `CallsEnd` and `BootEnds`:
liveness under fairness is out of reach of the proof system here, and so is induction over
data. What a drift token search finds at which depth (`TextsIn`, a recursive function over
`0..MaxNesting`) is therefore not proved; no theorem depends on it. No module uses a
`RECURSIVE` operator. The parts of the inductive invariants
that TLC can evaluate (some quantify over all naturals) were checked by it on the instance of
their run before they were proved.

## 6. Not modelled

* *Installer*: shell around git, pip and the operating system. Nearly every step is
  an external program; a model would be about those.
* *Publishing*, workflows, documents: no state that changes, none shared with the node.
* `POST /invoke` of `create_app`: JSON in and out around `route_request`, 403 on
  refusal. `route_request` with one of its integrations left out.
* `audit_chain_integrity`, `record_audit`, `--seed`, `--use-langgraph` and an
  `ImportError` in `--full`; the numbers and texts of forecasts, briefs and bundles.
* One `Spec` object registered under two ids (after its id was changed), so that amending it
  changes two entries. A forecast whose growth factor is at the edge of the float range:
  `Overflows` is certain to overflow where it says so, and a little further in the code does
  too. A series given as a text or a dict that is not empty, which Python iterates.
* A client's retry with the same `request_id` is a new attempt, as in the code. Clock
  steps backwards in the meter and floating-point rounding are abstracted away. The
  sentinel's model keeps names in the order of the seals; names out of order are in
  `NodeApi`.

## 7. Plan

Done, in order of importance: meter, pipeline with its abstract service, minter,
sentinel; roles, node API, boot and kernel; the proofs of all of them. Every safety
invariant and action property of a passing run is a theorem.

Next theorem: that the walks of `NodeApi` move on with every page, the safety half of their
end.

Next models: the pipeline with handlers that are `RoleAgents` calls, so that
`OnlyAdmittedRuns` can be asked of peers as well; a restart of the minter.
