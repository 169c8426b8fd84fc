# A formal model of the EA trading system

TLA+ modules of the parts of this repository whose correctness depends on
concurrency, failures, time or the order of steps; TLC configurations that check
them on small instances; and theorems, proved with TLAPS, that hold for every
instance. `PROJECT.json` lists components, runs, mutants, the map from
definitions to source lines, findings, hazards and theorems.

To check a run: `tlc -workers 2 -config decision_race.cfg MCDecisionApi`.
To check the proofs: `tlapm DecisionApiProofs.tla`, and so for the other `...Proofs` modules.

## The system

An expert advisor (EA) in MetaTrader 5 finds trade candidates, asks a decision
service in AWS whether to take each one, and reports what it does. Around it are
a pipeline that builds tick data for backtests, a runner for MetaTrader's Strategy
Tester, and offline analysis of the audit logs that the EA writes. The EA's own product
(controller, risk manager, strategy) is a git submodule that is not in this repository;
its clients of the services and its timing analyzers are.

| component | state | operations | interacts with |
|---|---|---|---|
| request authentication (`auth.py`, `repository.claim_nonce`) | nonces in DynamoDB, with a TTL | `verify_request`, `claim_nonce` | every API calls it first; SSM for secrets |
| trade decision API (`handler.py`, `service.py`, `llm.py`) | one decision item per request id | `lambda_handler`, `decide` | DynamoDB, ML model in S3, OpenAI, SSM; the EA |
| decision client (`DecisionApiClient.mqh`, `StrictJson.mqh`) | the request it is blocked on | `Decide`, `Validate` | decision API; risk manager |
| telemetry API (`telemetry_handler.py`) | append-only event items | `lambda_handler`, `save_trade_event` | DynamoDB, CloudWatch metrics |
| heartbeat API (`heartbeat_handler.py`) | latest heartbeat per source | `lambda_handler`, `record_heartbeat` | DynamoDB, the stop alarm |
| secret cache (`handler.TtlSecretCache`) | secrets with an expiry, per Lambda environment | `get`, `put` | SSM; authentication, LLM client |
| ML inference (`ml.py`) | lazily loaded model | `predict` | S3 |
| tick-data pipeline (`python/tickdata`) | `dataset.json`, stage files, `dataset.lock` | `download`, `normalize`, `validate`, `convert`, `run`, `record-*` | providers; MetaTrader through the month files |
| tick import (`tick-data.ps1`, `ImportOandaTicks.mq5`) | custom symbol in MetaTrader | import, verify | reads `mt5/`, calls `record-*` |
| timing analyzers (`EntryTimingAnalyzer.mqh`, `BreakoutTimingAnalyzer.mqh`) | pending setups, shadow trades | `OnTick`, `Initialize` | the terminal's chart; the audit log |
| timing reports (`entry_timing.py`, `breakout_timing.py`) | - | batch reports | the analyzers' events in the audit log |
| Strategy Tester runner, execution backends (`tools/`) | manifest of a run | run a case, collect its report | MetaTrader on host, VM or over WinRM |
| validation manifests, release gate (`tools/lib`) | JSON evidence | validate, gate | runner's results |
| infrastructure (`infra/`) | - | CDK stack, timeout budget | all of AWS |
| analysis (`python/analysis`) | - | performance, breakdowns, costs, benchmark, overfitting | audit logs of the EA, runner's results |
| training (`python/ml`) | - | features, model fitting | the model object in S3 |

### What is hard, and what makes each part correct

- **Authentication.** Lambda runs any number of invocations at once; a message may
  arrive twice, late, or from a clock that is ahead; nonces are removed by DynamoDB
  at an unknown instant after their TTL; an invocation may die after its claim.
  Correct: no nonce is accepted again while the message that claimed it could
  still pass the timestamp check.
- **Decision API.** Invocations of one request id race between the read, the ML and
  LLM calls and the conditional write; DynamoDB may write and lose the
  acknowledgement, upon which the AWS client retries and is refused by its own item;
  the LLM must answer before the EA's timeout. Correct: one decision per request
  id, never changed, the same for every client and only for the body it was made
  for; every decision traceable to an authenticated invocation; approvals in time.
- **Decision client.** Answers are lost, late, or for a clock that differs. Correct:
  it acts only on an ALLOW that is on record for what it asked, fresh and within its
  timeout; and it always gets on with its work.
- **Telemetry, heartbeats.** Resends, reordering, lost acknowledgements. Correct: an
  acknowledged event is on record, once; the log only grows; metrics count once; the
  latest heartbeat is the newest; a stopped EA is not kept alive by old messages.
- **Tick-data pipeline.** Commands are killed between two writes and resumed, run at
  the same time, are forced to redo finished work. Correct: the manifest tells the
  truth about the files; finished work is kept; only validated data is converted; an
  import on record is of the conversion on record.
- **Secret cache, model.** A warm environment keeps what it fetched while an operator
  overwrites or deletes it; a fetch takes time and may fail; shared keys and the API key
  live in one cache. Correct: an overwritten secret is used no longer than the TTL after
  the fetch that brought it, no value is used that its parameter never held, and only the
  pinned model predicts.
- **Timing analyzers.** Ticks and bars interleave with bars whose data is missing, bars the
  EA slept through and restarts that forget everything. Correct: each variant of a setup
  enters on its own bar, once; a trade ends by the first end it reached; the table of trades
  agrees with the table of setups.
- **Analysis.** Records come from several files in any order, some twice, some without their
  counterparts; trades tie in time and in cost; losses expire at a year's boundary. Correct:
  a report does not depend on the order, its tables add up to the same trades, and its
  extremes are those of an independent definition.
- **Tester runner.** Nested timeouts, processes that survive them. Correct: the
  manifest names every case once, with what really happened to it.

## The modules

    SignedRequest          an invocation from receipt to the claim of its nonce
      DecisionApi          EXTENDS it: decide() and the table of decisions
        DecisionClient     EXTENDS that: the EA in front of the API
        DecisionApiProofs  EXTENDS DecisionApi and TLAPS: types, nonces, answers, the LLM's
                           verdicts in time, decisions and their invocations, refinement
          DecisionClientProofs  EXTENDS DecisionClient and that: the EA's trades
      MonitoringApi        EXTENDS SignedRequest: events and heartbeats
        MonitoringProofs   EXTENDS that and TLAPS
    DecisionRegister       what the decision API promises; DecisionApi refines it
    LambdaEnvironment      what a warm environment keeps: secrets, the model
      LambdaEnvironmentProofs       EXTENDS that and TLAPS
    TickDataset            the tick-data pipeline's stages over one directory
      TickDatasetProofs    EXTENDS that and TLAPS
    Sublists               SelectSeq as a recursion on positions
    TradeReports           EXTENDS Sublists: audit log to trades, performance, drawdown
      TradeReportsProofs   EXTENDS it and TLAPS: induction, sublists, flattened
                           sequences, sums, curves, drawdowns
      TradeContext         EXTENDS it: context of the trades, tables, costs
    Fractions              exact fractions
      ReleaseChecks        EXTENDS TradeReports, Fractions: benchmark, overfitting
        TradeAnalysis      EXTENDS both: all reports on one growing log
          TradeAnalysisProofs  EXTENDS that and TradeReportsProofs
    TimingAnalyzer         EXTENDS Sublists: setups and shadow trades, tick by tick
      TimingReport         EXTENDS it and TradeReports: the two tables
        TimingProofs       EXTENDS that and TradeReportsProofs
    MC...                  small instances for TLC

**SignedRequest.** `Calls` are Lambda invocations, each used once. `calls[c].pc` says
which call out of the process comes next: `window` (the clock), `signature`
(`get_secret`, HMAC), `claim` (DynamoDB), `handle` (the handler's own work). `nonces` holds the
expiry of each claimed nonce. A message is a record; `wellFormed` is the verdict of the
validators and of the header checks, `signed` that of the HMAC. Network faults are "any idle
invocation receives any message", so duplication, delay and reordering need no actions
of their own. `At` gives an invocation no step after Lambda's timeout; `Kill` ends it at
any point. `ClaimNonce` has the five outcomes of a conditional put: done, refused, failed
without effect, and written with a lost acknowledgement (client error, or a retry that
is refused by its own item).

**DecisionApi.** One action per call that leaves the process in `decide()`: `Lookup`
(the consistent read; `created_at` is taken after it), `Predict` (the ML verdict, then
the deadline check), `CallLlm` (`get_api_key`, which may take up to `KeyFetchMax`), `LlmReturns`
(a verdict only within the provider's timeout), `Save` (the conditional put) and
`Reread`. `work` holds the local variables and, as history, when the deadline was
checked and the provider called and done. Secret values, reasons, confidences, audit
fields and metrics are left out; the response keeps its decision, the two statuses
and `created_at`.

**DecisionRegister** has one decision per request id, entered at most once and told
any number of times. `DecisionApi!RegisterSpec` is the refinement:
`decisions` maps to the register, the items in 200 answers to what was told.

**DecisionClient.** `EaAsk` is `Decide()` up to `WebRequest`; `EaHear`, `EaBreak` and `EaExpire` are
its outcomes. `EaHear` contains the whole of `Validate`. `acted` is the history of ALLOWs
handed on. `offset` is the constant difference between the clocks. The assumption
`TimeoutBudget` is `infra/config.py:validate_timeout_budget`: a deployment outside it is refused.

**MonitoringApi.** `StoreEvent`, `CompareEvent` (the read after a refused put) and `RecordHeartbeat`
with the same put outcomes. `metrics` is the history of `RiskRejectedCount` and
`HeartbeatReceivedCount` with their instants. Both APIs share the nonces' table. The sort key of an
event includes its timestamp (`EventKey`), as in the code.

**TickDataset.** What survives a command: `disk` (`dataset.json`), `raw`, `normalized`, `mt5` and
`lock`. A running command has its own copy of the manifest (`man`), the stages it still has to go
through, and the chunk it is at. Each `os.replace` is one step, so a `Crash` may separate a file from its
record. A content stands for its checksum; a normalized file is named by the raw content
it came from, a month file also by the server-time rule. A chunk fills one month file; `Sound`
stands for the row and order checks of `validate_dataset`, taken per content, and a tolerated ratio of
rejected rows is a property of the content as well. A command that its configuration forbids (no rule
for `convert`) does nothing and is left out; `record-quality`, `status`, `diff` too. A failed
attempt of a download may already have replaced the raw file, as `run_download` may fail in the `stat`
or the checksum after its `os.replace`.

**LambdaEnvironment.** `cache` has the ticks that an entry has left, so time needs no bound. A
`get_parameter` call is three steps: `CacheMiss` starts it, `ParameterRead` is the instant at which SSM
reads the value, `FetchCompletes` or `FetchFails` its end, up to `MaxFetch` ticks after its start. The expiry counts
from the `put`, hence from the end of the call. `since` is the history of how long a content has not been
current; `stale` what `since` said when the environment last used a secret. `Recycle` may take an environment
at any moment with all its globals. `Provider`, `Loads` and `LoadModel` are `_ml_dependency` and `S3MlProvider._load`: a load that
fails is tried again by the next request; the content of an object stands for its checksum.

**TradeReports, TradeContext, ReleaseChecks.** The modules of `python/analysis` as operators over a log, a
sequence of records with the fields of their payloads. Pandas' groupings, joins and quantiles are written as what
they do: rows whose key is missing disappear from a group, `drop_duplicates` keeps the first, a tie at a
quantile's edge goes to the tier that `qcut` gives it, a day without a trade returns zero. A context of a candidate is a
sequence of rows with its own columns, and a left merge (`Merge`) gives a row the columns of each row of its candidate, so
that a candidate named twice would double the row, as in pandas. Money and times are whole, rates
are pairs or `Fractions`, so comparisons are exact where the code's are of floating-point numbers. A report that ends in
a `ValueError` is `Refused`; `Loads` is `load_analysis_inputs`, with which all reports on trades begin. **TradeAnalysis** has one variable for the log and one for which report is asked; `Write`
appends a record, so that every order of every choice of records is a behaviour.

**TimingAnalyzer.** One module for both analyzers, which differ in their variants only (`kind`). `Tick`,
`TickWithoutData` and `TickOfNewBar` are `OnTick`: on the bar seen before or when `iTime` returns 0, on a new bar whose data
cannot be read, and on a new bar that is processed, in the code's order (stop and target first, then
age, then pending setups, then a new setup). `BarOpens` is the chart, which does not wait for the EA. `Restart` is
`Shutdown` and `Initialize`. `processed`, `lost`, `skipped` and the `start` of an event are history. The strategy's rules
are not in this repository: a bar carries whether it is a setup, its level, and whether it turns. **TimingReport**
is what the two Python modules make of the events.

## The runs

| run | what it asks | distinct states |
|---|---|---|
| `decision_race` | three invocations, one request id: `TypeOK`, `AnswersAreAudited`, refinement `RegisterSpec` | 105 thousand |
| `decision_timing` | two invocations, time, every kind of bad message: `NoReplayInWindow`, `LlmVerdictInTime`, `DecisionsAreTraceable` | 1.5 million |
| `decision_client` | the EA with two candidates in front of two invocations: `ActedAllowIsOnRecord`, `ActedAllowIsFresh` | 1.1 million |
| `ea_decides` | liveness of the EA with one candidate: `EaDecides` | 235 thousand |
| `monitoring` | events and heartbeats: five properties and `TypeOK` | 272 thousand |
| `tick_dataset` | two operators, three commands, two chunks, kills, `--force`: four properties and `TypeOK` | 2.7 million |
| `secret_rotation` | one environment after another, two parameters and the model's object written meanwhile: `OldSecretBounded`, `CachedSecretsWereHeld`, `ModelIsPinned`, `TypeOK` | 1.7 million |
| `trade_analysis` | seven reports on every small log: twelve properties | 149 thousand |
| `timing_analysis` | both analyzers on charts of six bars, a fault at any point: `TradesEnterOnTime`, `OutcomesAreReached`, `TablesAgree` | 140 thousand |
| `late_approval` | finding: `ApprovalWithinDeadline` fails | - |
| `event_id_reuse` | finding: `EventIdNamesOneEvent` fails | - |
| `forced_crash` | finding: `OnlyValidatedIsConverted` fails under `--force` | - |

Every property of a passing run has a mutant of the code in `PROJECT.json` (a dropped guard, an
unconditional put, a wrong unit, an expiry that is too soon) that TLC finds to violate it.

**Bounds.** Three invocations of one request id are enough for a winner, a loser that
rereads, and a third with another body; two suffice where time matters. A
second is the unit of time; skews, timeouts and lifetimes are one to four seconds, so that
each boundary (the first instant outside the window, a nonce that expires at its
TTL, an answer at the last instant) is met. Messages include a duplicate, a re-signed
retry, a reused id with another body, one that is ahead of the servers' clock, one
each malformed, unsigned and inconsistently stamped. For the pipeline two chunks are
needed for "one stage succeeded here and failed there", three commands for "validate, change,
convert", and `run` goes through all stages in one command. Contents: sound, unsound
of the same size, header only, and raw rows of which no tick is left. `MaxClock`, `MaxRuns`
and `KeyFetchMax` are bounds of the model and named as such; `EaAsk` keeps enough of the
clock for a whole request. For the cache, a TTL of two ticks and a fetch of one let a value be
overwritten before, during and after its fetch; environments share nothing but SSM and S3, which
change at will, so one at a time shows all (the proof is for any number).

Logs have up to four records (six of costs, since a tier needs two trades; three of the funnel and
of folds, which are compared with an in-sample period that made a loss at a Sharpe ratio of zero; other
periods, with a metric missing too, are covered by the proof). The smallest logs that can break each property have fewer: a tie of
times needs two trades, a wrong peak three points, a quantile's edge three costs. The initial balance is
16 so that trades halve and double it exactly; a month has one day and a year two months, so that a loss
that expires after `LossCarryforwardYears` fits into ten months; tax and fee rates are a half and one.

A chart has six bars: a setup, three bars to confirm it and two to hold the last trade; a second setup
comes while the first is pending. Bids let trades stop, reach their target, or do neither; one bar has
no range, which skips an entry. One fault, a missing bar or a restart (`MaxFaults`), meets
every state; the EA sleeps through any number of bars. Probes with TLC confirm that a trigger on the last
bar, one that never comes, a setup found twice over a restart, a variant that enters late by a missing
bar, and two completed setups in one log all happen.

**Deadlock** is not checked: invocations are one-shot, the clock is capped and the number of
commands is bounded, so every behaviour of the models stops by construction; so do a log at its
last record and a chart at its last bar.

**Fairness.** Only `ClientSpec` has any: time passes (`Tick`), `WebRequest` returns when its
timeout passed (`EaExpire`; MetaTrader guarantees the timeout argument), and a started
invocation takes its next step or is killed (Lambda runs it, or stops it at its
timeout). That a message or an answer arrives is not assumed. `Tick` waits for an invocation
that fetches a key longer than `KeyFetchMax`, which is why the invocations' fairness is needed.

## The findings

1. `late_approval`: the deadline check in `service.py` is there so that no ALLOW comes too late;
   the fetch of the API key after it is in no budget.
2. `event_id_reuse`: the documents promise a 409 for an event id that comes back with another
   body; the key includes the timestamp, so another timestamp makes it a second event.
3. `forced_crash`: the document says that convert refuses data that changed since
   its validation; it compares the manifest with itself, and two killed `--force` commands
   leave changed data under an unchanged manifest.

Two looser sentences are no findings of their own:

- `handler.py:33` and `docs/operations.md:74` bound the use of an overwritten secret by the TTL. The expiry counts from the
  end of the fetch, so a value that was overwritten while it was on its way is used for the TTL and the rest of that fetch;
  `OldSecretBounded` states this bound.
- The timing reports define `max_drawdown_r` as a fall from the baseline (`entry_timing.py:221`, `docs/backtesting.md:283`).
  Their curve has no point for the baseline (`entry_timing.py:113-115`), so what a variant loses at its first entry bar is not
  in it. The code's bound is in `TablesAgree`: the drawdown is at most what was lost after that bar (`LaterLosses`); a variant
  with one losing trade has a drawdown of zero.

## The proofs

The theorems hold for all values of the constants that satisfy the named assumptions:
`SignedRequestAssumption`, `DecisionApiAssumption`, `MonitoringApiAssumption`, `LambdaEnvironmentAssumption` and
`TickDatasetAssumption` (kinds of the parameters; messages name one of `RequestIds`), `DecisionClientAssumption` (kinds, and the
timeout budget that the deployment enforces), `TimingAnalyzerAssumption` (prices are whole, a stop distance
divides the unit of R so that R multiples are exact, a bar's close is between its low and high, a setup has a stop
distance, and a chart begins), `TradeReportsAssumption`, and that "no value" is none of the values (`NoneIsNoItem`, `NoneIsNoReply`,
`NoneIsNoHeartbeat`, and parts of the others: `None` is no message, content or process). Timeouts, skews and reserves may be
any natural numbers; invocations, messages, sources, chunks, commands and contents any sets. TLC evaluates every
assumption, and each inductive invariant named below was checked on the component's run before it was proved.
Each proof has one lemma per group of actions, and a lemma for what the helpers `Goto`, `Finish`, `Refuse`
and `TellStored` change.

`DecisionApiProofs`:

- `TypeCorrect`: `Spec => []TypeOK`. `TypeOK` is inductive (`AuthStepType`, `DecideStepType`).
- `NoReplay`: `Spec => NoReplayInWindow`. The property speaks of two invocations at two instants and
  says nothing about the table, so it is not inductive; `NonceInv` carries it. `Stamped`: past the window
  check, a message is not further ahead of the instant that its invocation read than the skew.
  `Covered`: a claimant's nonce is in the table with an expiry that is not before the end of its
  message's window, or that window is over. A second claim needs an absent nonce (`ClaimantsClaim`),
  so `Covered` says that the window is over.
- `AnswersAudited`: `Spec => []AnswersAreAudited`, from `AuditInv`: an invocation that is
  not done has not answered, a decision sits under its own request id, and every 200 tells what is
  on record. The step lemma (`CallStepAuditInv`) needs only that records are added and never
  changed and that one invocation moves at a time.
- `VerdictInTime`: `Spec => []LlmVerdictInTime`, from `TimelyInv`: the deadline check held at `checked`;
  the key is fetched at most `KeyFetchMax` later; a verdict comes at most `LlmTimeout` after the call;
  and nothing that is before its verdict has one.
- `PromptKeyNoLateApproval`: with `KeyFetchMax <= LlmReserve`, `Spec => []ApprovalWithinDeadline`. This is the
  exact reach of the first finding: the comment's promise holds as long as SSM answers within the reserve.
- `DecisionsTraceable`: `Spec => []DecisionsAreTraceable`, from `TraceInv`: the witness must be past its put, so
  that what it vouches with can no longer change, and each earlier step must hold what the put needs.
- `RegisterImplemented`: `Spec => RegisterSpec`. Under `TypeOK` and `AuditInv` a put that is answered at once maps to
  `DecideAndTell`, a put whose acknowledgement is lost to `Decide`, `TellStored` to `Tell`, and everything else to a
  stutter (`StepMaps`).

`DecisionClientProofs`. To the service the EA is any client (`EaIsAnyClient`: `ClientSpec => Spec`), so every theorem above
holds of the composed system. `ClientInv` carries the rest:

- `ActedOnRecord`: `ClientSpec => []ActedAllowIsOnRecord`, because an answer is on record when it is heard (`AuditInv`) and
  records never change (`RecordsOwn`).
- `ActedFresh`: `ClientSpec => []ActedAllowIsFresh`. That a decision is younger than the question does not follow from the
  answer; it needs that the service knows nothing that the EA has not sent (`OnlyAsked`), so that a fresh request id has neither
  a record nor an invocation when the EA asks, and that whatever is decided on it later was decided since (`DecidedSinceAsked`).
  The offset of the clocks may be any integer.
- `ActedOnce`: the EA acts on a candidate at most once (`AskedOnce`).
- `ActedApproved` joins this with `TraceInv` and `TimelyInv`: behind every ALLOW the EA acts on there is one invocation that
  authenticated this very message within the window, in which the ML model passed and the LLM answered in time.
- `ClientTypeCorrect`: the kinds.

`MonitoringProofs`. The four safety properties are proved together, since each is the others' strengthening. `Inv` adds
`CallInv` (what an invocation has done by each of its steps: no answer before its end, a claimed nonce, a clock read at which its
message was fresh) and `MetricInv` (what was counted is on record, so nothing with its key is written again). A step of an
invocation is first summed up by what it does to the events, the heartbeats and the metrics (`EventsOutcome`,
`HeartbeatOutcome`, `MetricsOutcome`); the properties follow from these summaries alone.

- `AuditLogIsSound`, `MetricsCountOnce`, `LatestIsNewest`, `StopAlarmFires`: `Spec => []` of `EventsStoredOnce`, `CountedOnce`,
  `LatestHeartbeatIsNewest` and `StoppedEaFallsSilent`.
- `EventsStay` and `HeartbeatsAdvance`: no step changes an event on record or makes a latest heartbeat older.
- `OneTimestampOneEvent`: if no event id comes with two timestamps, `Spec => []EventIdNamesOneEvent`. This is the exact reach of the
  second finding. It uses that every event on record is that of a message (`EventsAreSent`).
- `TypeCorrect`: the kinds, with the message of a started invocation.

`TickDatasetProofs`. `Inv` says of each running command what it holds while others crash: the commands exclude each other
(`Exclusive`), the copy of the manifest is what is on disk but in the step before a save, and there it keeps the settled
entries (`Running`); and of any manifest that it agrees with the files without `--force` (`Sane`) and, with it too, that a
report that passed names sound contents only (`Vetted`) and that an import is of the conversion beside it (`ImportMatches`).
One lemma per action shows which of these it can disturb.

- `RecordsMatch`, `OnlySoundIsConverted`, `ImportIsOfConversion`: `Spec => []` of `RecordsMatchFiles`, `ConvertedDataWasValidated`
  and `ImportIsOfThisConversion`. The second is the reach of the third finding: it takes `--force`.
- `ProgressIsKept`: `Spec => ProgressKept`, since only `Save` and a first `Load` write the manifest.
- `OneCommandAtATime` and `TypeCorrect`.

`LambdaEnvironmentProofs`:

- `TypeCorrect`: the kinds.
- `OldSecretsDie`: `Spec => [](TypeOK /\ OldSecretBounded)`. The property is about the last use and says nothing of
  what lies in the cache; `AgeInv` adds that an answered fetch brings a value that has not been out of date for longer than
  the fetch took since (`FetchYoung`), and that an entry's age and the ticks it has left add up to no more than the TTL
  and one fetch (`EntryYoung`): a tick takes from one what it gives to the other.
- `CacheIsFaithful`: `Spec => []CachedSecretsWereHeld`. `HeldInv` says the same of the answers on their way, and that a
  parameter's history includes its content.
- `ModelPinned`: `Spec => []ModelIsPinned`, with the invariant that a loaded model is loadable and is the one the
  environment's configuration pins.

`TradeReportsProofs`. A theorem with an operator for a parameter cannot be used by the provers, so induction is stated for
sets (`LeastNatural`, `SetInduction`) and a fact about all sublists for a set of positions: `Those(s, Test)` is `Sublist` of the
positions at which the test holds, a recursive function whose solution is proved to exist (`SublistRecursion`). A sublist, and a
sequence flattened by the library's `FlattenSeq`, hold each of their elements once (`SublistPicks`, `FlattenPlaces`),
and so it can be counted what they have of a kind. A sum passes by the trades that are not in a sublist (`NetPnlOfSublist`);
from some trades to more of them it falls at most by what all the losing trades lost (`FallIsLost`); the curve that
`SummarizeDrawdown` reads has the running peak (`CurveOfPoints`); comparing rates by products is transitive
(`RatesAreOrdered`), so that there is a first deepest fall (`TroughOfCurve`), and a drawdown is a fall between two points
(`DrawdownIsFall`).

`TimingProofs`. Three invariants, each on the one before:

- `OutcomesReached`: `Spec => []OutcomesAreReached`, from `IInv`. `TypeInv` gives kinds to everything in the sequences; `ChartInv`
  says that the processed bars are bars of the chart in its order; `OutcomeInv` says of each open trade that none
  of the bars since its entry reached an end of it and that it is as old as they are many, and of each closed event that its
  result is that of the bar that ended it; `Waiting`, that no pending setup is completed.
- `EntriesOnTime`: `Spec => []TradesEnterOnTime`, from `EntryIInv`. A trade is represented by its terms (setup, variant,
  bar of entry). `PendingInv` says that the pending setups are those of the bars since the start that are not completed, each once;
  `EnteredInv`, that the trades of this start are in one-to-one correspondence with the terms that were due.
- `TablesAlwaysAgree`: `Spec => []TablesAgree`, from `TablesIInv`. `AccountedInv` is a balance for each variant: the
  trades that ended, run, were lost or skipped are as many as the setups, on record, pending or lost, that call for one. The
  drawdown of a variant's table is at most what its trades lost after its first entry bar (`DrawdownIsFall`, `FallIsLost`); a variant whose curve
  is not positive has no row, as `build_drawdown_curve` refuses it.

`TradeAnalysisProofs`. The output is a function of a log of any length, so the invariant is short, `LogInv`: the input is a
sequence and the output is the report on it (`ReportsAreOfTheLog`). What remains is what these functions compute, by induction
over positions or over the days of the report:

- `ReportAlwaysAddsUp`: `Spec => []ReportAddsUp`. A value that is additive on disjoint groups is the sum over the groups
  (`GroupsAddUp`), for the number of trades and for their profit alike; the sort
  keeps every trade (`SortedRows`), and a trade has exactly one strategy and one month.
- `ReturnsAlwaysCompound`: `Spec => []ReturnsCompound`. Periods that begin where the one before ended form a chain
  (`PeriodsChain`); the balance at a day's end is that of the trades closed by then, or the equity of its last snapshot.
- `DrawdownAlwaysDeepest`: `Spec => []DrawdownIsDeepest`. The summary is the deepest fall of its points (`SummaryIsDeepest`), and
  the point of the initial balance, put before the others, is one more point, or is replaced in the case that the property names.
- `StreakAlwaysLongest`: `Spec => []LosingStreakIsLongest`, since the running count is the longest run that ends there (`StreakIsRun`).
- `WorsePeriodCannotHelp`: `Spec => []WorsePeriodNeverHelps`. A worse metric is degraded at every limit at which the better one
  was, so each metric's score is monotone, and with it the sum, the mean over the folds, their classes and the maximum.
- `RowsAlwaysTheTrades`: `Spec => []RowsAreTheTrades`. `FirstPerCandidate` keeps the first record of each candidate and no second
  one; hence a context has a candidate at most once (`Context`), a merge with it keeps the rows and their number, and a
  column survives the merges after the one that brought it, through all eight and the one of the costs (`Carries`, `Gives`).
- `ReversalsAlwaysAgree`: `Spec => []ReversalsAgree`: both summaries count positions of the same rows, and the positions of
  trades that lost and of trades that broke even are apart.
- `BreakdownsAlwaysAddUp`: `Spec => []BreakdownsAddUp`. The groups of a breakdown partition the positions whose column has a value
  (`KindsAddUp`, `BreakdownCounts`); every row balances its costs, and so do the sums over all rows and over each tier
  (`CostsBalance`, `TiersAddUp`); a rejected bar has one of the stages (`FunnelAddsUp`).
- `TiersAlwaysThirds`: `Spec => []TiersAreThirds`. A quantile lies between the values of two neighbouring places
  (`QuantileLies`); with four different edges, a tier counts the inner edges below a cost (`IntervalsOfThirds`), so it is monotone. When
  all costs differ, as many are up to a quantile as the place below it (`QuantileCounts`), and these places cut any number of
  costs into thirds (`PlacesAreThirds`, `TierSizes`).

The assumptions on constants are those that the modules state: positive thresholds and balances, and that `Missing` is no number, as
`None` is none.

Only model-checked, of the analysis: `ReportIgnoresOrder`, `TaxedGainIsDue` and `DeferralNeverLoses`. The
first needs that a sorted log does not depend on how it was permuted; the last two
fold exact fractions, whose normal form rests on `Gcd`, a recursion over two numbers at once. Of everything else only the
liveness property `EaDecides`: liveness and ENABLED are out of the prover's reach.

## What is not modelled

Parsing and validation of JSON and CSV, HMAC, numerical inference, wording, logs and
most metrics; more than one signing key; API Gateway's own
timeout, which lies between the EA's and Lambda's; changes of a dataset's range, chunk unit or normalizer
version between commands. Of the analysis: the Sharpe ratio's and the CAGR's values (their
inputs and comparisons are there), medians, CSV inputs, Markdown and JSON output, `shadow_evaluation.py`,
and the columns of the context that are copied without being grouped. Of the timing analyzers: a trade's checkpoints
and the strategy's rules. Training and features fit numbers. The tick import, the Strategy Tester runner and the release
gate are PowerShell around other programs' processes and files. `PROJECT.json` gives the reason for each.

## Plan

1. `TickImport`: the import session of `tick-data.ps1`, without the lock, composed with
   `TickDataset`; the truthfulness of `record-import`; month files of an abandoned rule.
2. `TesterRun`: cases, nested timeouts, surviving processes, the manifest.
3. Pure operators against references: server time of the New York close, `plan_chunks`,
   the release gate's categories.
4. Proofs: the reports of `TradeAnalysis` that are only model-checked, with their remaining folds and sorts as recursive
   functions as in `Sublists`; the tick import and the Strategy Tester, once modelled.
