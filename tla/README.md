# Returns Orchestrator: formal verification

TLA+ models of the returns service in `src/app`, checked with TLC on small
instances and, for the properties named below, proved with TLAPS for every
instance. Paths below are relative to the repository (`app/...` is
`src/app/...`).

## 1. The system

A FastAPI server (`app/main.py`). Its endpoints are plain functions, so the
framework runs each request in a thread of a pool; all threads share one
`ReturnsOrchestrator`, one `ReturnStore` (SQLite behind one lock) and one
`ReviewBoard`. The merchant's systems register orders, customers file returns,
the decision engine approves, rejects or escalates, agents review and inspect,
a carrier webhook moves parcels, settlement pays through an outbox, operators
flush that outbox and sweep old labels.

| component | code | state it keeps | operations |
|---|---|---|---|
| lifecycle | `models.py`, `orchestrator.py:46-87` | none | the transition table, `_transition` |
| store | `store.py` | five tables: return_cases (with a version per row), orders, customers, idempotency_keys, payment_outbox | `save` (insert or compare-and-swap), lookups, `register_order`, `idempotency_record`, `outbox_enqueue/pending/mark` |
| intake | `create_return`, `_resolve_against_order`, `_issue_label` | locals of a thread | lookup of the key, order, prior returns, decision, label, save, record of the key |
| case actions | `review`, `cancel`, `carrier_update`, `sweep_expired_labels` | locals: the copy of the case, the sweep's list | read, change the copy, save the copy, notify |
| settlement | `record_inspection`, `_settle`, `flush_outbox` | locals: the copy, the flush's list | replacement order, or outbox entry, save, flush, notify |
| decision engine | `policy.py` | none | `resolve`, `evaluate`, `policy_facts`, the snapshot |
| outside systems | protocols at `orchestrator.py:102-118` | labels, payments, replacement orders, messages | each call may raise |
| review board | `agents/coordinator.py` | one LangGraph thread per case, checkpointed in SQLite; the graph's state in memory while a thread of the server runs it | `review_case`, `resume_review`, the nodes specialists, synthesize, decide |
| specialists, LLM client | `agents/specialists.py`, `agents/llm.py` | the client, usage counters shared by all reviews | LLM calls with retries |
| console | `streamlit_app.py` | none of its own; a simulated LLM | buttons that call the orchestrator and the board |
| triage evaluation | `scripts/eval_triage.py` | the results of its reviews | `run_board_eval`, the gate of `main` |
| retriever, security, config, CI | `agents/retriever.py`, `security.py`, `config.py`, `.github/` | none | |

**How they interact.** Handlers call the store; every store call is one
critical section and one commit, and *between* two calls of one handler any
call of another may run. No lock spans a handler. A handler keeps a
`ReturnCase` in memory; only `save`'s version check connects it with what
others did meanwhile. Calls of the carrier, gateway, order system and notifier
also take time and may fail. A crash loses the threads' locals and keeps every
commit.

**What makes each part correct.**

- *store and lifecycle*: saves never lose another's save; recorded statuses
  follow the table; terminal means terminal; labels do not change.
- *intake*: no more units come back than were bought; one case per key.
- *case actions*: a label expires only unused; notices tell the truth and are
  audited.
- *settlement*: what is recorded as settled has its payment intent or
  replacement order; a case is paid once, and only when settled; goods are
  replaced once; executed means paid; payable entries are paid in the end.
- *decision engine*: verdict and facts agree; strictest terms govern; the
  snapshot explains the decision.
- *review board*: only agreed approvals are applied without a human; what it
  saves after waiting for its models undoes nothing; advice is recorded once per
  review, and acted on as recorded; a finished thread's case is decided; a review
  that humans keep answering ends; what a human decides is what is applied.
- *LLM client*: calls end; usage is attributed to the review that caused it;
  members that cannot be reached never add up to an approval.
- *evaluation*: the gate counts every false approval the board would apply.

**What is hard about it**: interleaving of handlers at every call, stale copies,
crashes between two commits, lost answers of the gateway and the order system,
client retries, flushes that overlap, time passing between a sweep's listing
and its saves; for the board, two databases (cases and checkpoints) that a crash
catches in different states, seconds between its read of a case and its save,
nodes that run again from their top, and reviews overtaken by agents and
customers. `PROJECT.json` lists each hazard at its line with the property
that covers it, or why none does yet.

## 2. The modules

```
ReturnLifecycle ── CaseLedger (abstract)
      │
 ReturnStore ── HandlerSteps ─┬─ Intake ──────┐
                              ├─ CaseActions ─┼─ ReturnsService ─ ServiceProperties ─ ServiceInvariant
                              ├─ Settlement ──┘                      (CaseCopies)        │
                              │                                    MCReturnsService ─────┤
                              │                                    MCServiceHistory ── ServiceHistory ── HistoryInvariant
                  CaseActions ─┬─ ReviewBoard ── BoardService ── BoardProperties ── BoardInvariant ─┬─ MCBoard
                               │                  (CaseLedger)                      (CaseCopies)    └─ BoardHistory ── MCBoardHistory
                  BoardRules ──┼─ LLMClient ── BoardEval ── MCBoardEval
                               │
 PolicyEngine ─────────────────┴─ SimulatedBoard ── PolicyProperties ── MCPolicy

proofs:
 CaseCopies ── DocumentProofs ─┬─ ServiceProofs ── ServiceTheorems ── SettlementProofs (HistoryInvariant)
             (ServiceInvariant)┘                                      │
               BoardRules ── BasicProofs ─────────────────────────────┤
                                  ├─ BoardProofs (DocumentProofs, BoardHistory)
                                  ├─ EvalProofs (BoardEval)
                                  └─ PolicyProofs (PolicyProperties)
```

- **ReturnLifecycle**: statuses, `Transitions`, and `DurableMoves`, what one
  save may do to a row: one transition, or two with a status in between that is
  only ever held in memory (requested, approved, inspecting).
- **CaseLedger**: the abstract specification. One variable, the recorded status
  of each case; a case is opened once and advances by `DurableMoves`.
- **ReturnStore**: tables as functions, operations as conditions (`CanSave`),
  reads (`ByTracking`, `OutboxPending`) and changes (`Put`, `OutboxMark`). A
  document keeps id, version, status, label, replacement order and its audit
  trail; the request it was filed with stands for order, lines and resolution.
- **HandlerSteps**: what a thread holds (`op` the request, `pc` its next call,
  `doc` its copy, `ask` and `rest` for create and sweep) and the steps several
  handlers share: `IssueLabel`, `SaveCase`, `Notify`, `NoteNotice`. A step is
  one call that leaves the thread, with the local computation around it.
- **Intake, CaseActions, Settlement**: the remaining steps, one action for each
  call. `Start...` is the arrival of a request together with its first read of
  the case and the changes to the copy that precede the next call. Requests
  the transition table refuses return 409 and change nothing; they are not
  steps.
- **ReturnsService**: composes them (`Arrival`, `Progress`), with `Register`,
  `Tick` and `Crash`, and the fairness. What arrives is named by endpoint:
  `CreateReturn`, `CaseCall` (review, inspection, cancel), `CarrierWebhook`,
  `InternalCall` (flush, sweep). `Offered` is the set of operations an instance
  has clients for.
- **CaseCopies**: what a row in order is, and when a handler's copy continues a
  row (`Continues`, `MayBecome`), shared by the invariants of service and board.
- **ServiceProperties, ServiceInvariant**: the properties; the inductive
  invariants, `IInv` and what each further property adds to it (section 4).
- **ServiceHistory**: the service next to an observer that records, and never
  keeps a step from being taken: which intents belong to settlements not saved
  (`intent`, `strays`), which replacement orders a lost answer or a failed save
  left behind (`lostOrders`), which cases were filed for which key (`filings`),
  which keys an overlap or a crash touched (`contested`), and which orders an
  overlap, a sku on two lines or a new body did (`strained`). The promises the
  code makes and races break are stated over it, for everything those did not
  touch. **HistoryInvariant**: the inductive invariants of these properties.
- **BoardRules**: `derive_confidence` and `_may_apply` as operators on counts of
  votes.
- **ReviewBoard**: the graph. `thread` is each case's checkpoint (the node ahead
  and the values), `run` the graph a thread of the server is in: the call it
  makes next, its case, its copy of the values, and the decision a resume
  carries. One action for each call: `Peek`, `Clear`, `Invoke` of
  `review_case`; `Consult` (the specialists' superstep); `ReadCase`,
  `RecordAdvice`, `CheckpointVerdict` of synthesize; `Decide`, `InReview`
  (the steps of `review`, those of CaseActions and HandlerSteps) and
  `FinishThread` of decide; `Load` of `resume_review`. `Finalize` is the
  console's pair of buttons.
- **BoardService**: the board on escalated cases (`FileCase`) next to agents and
  customers (`Desk`), with `Crash` and the fairness. **BoardProperties**: its
  properties; it implements `CaseLedger` too. **BoardInvariant**: its inductive
  invariants. **BoardHistory**: the board next to an observer of the same kind,
  which remembers the reviews that two requests drove at once, whose checkpoint a
  crash lost, or whose thread was cleared (`strayed`), with `AdviceOnce` and its
  invariant.
- **LLMClient**: the calls of a board's members: attempts, refusals, a missing
  key, and the counter they share. **BoardEval**: the evaluation script over
  that client: reviews of sampled rows, the sweep, the gate.
- **SimulatedBoard**: the console's simulated members as operators on a case,
  the policy, the day it was filed and the day it is reviewed.
- **PolicyEngine**: the engine, and the amounts of `_settle`, as operators; both
  roundings of `orchestrator.py:383-385` are in it. **PolicyProperties** makes a
  state of one question to the engine and steps of what may differ between two
  questions (a day later, a line more, another policy), so that properties that
  compare two decisions are action properties.

Operators commented "Mutant of ..." are altered forms of the operator they
precede, plausible bugs against which each property was seen to fail.

### Abstractions

- Money: amounts, fees and prices are left out of the service, not of the
  engine: there a line's value is a whole number of parts of a cent (`Cent` of
  them make one) and a fee rate of parts of one (`Unity`), both as fine as wanted.
  Where a rounding falls on half a cent it goes either way, as binary floats do.
  An outbox entry keeps case, kind and status; attempts and error text are left
  out.
- The engine's decision in `CheckAndDecide` is any of the three, since prices,
  conditions and dates are not in the request; `PolicyEngine` has the rules.
- Ids and tracking numbers are fresh when drawn (`uuid4`).
- The gateway honours the idempotency key it is given (`moved` is a set of
  entry ids), so a repeated entry moves money once. It may refuse, or move the
  money and lose the answer. The order system gets no key: every call that
  reaches it makes an order. The notifier delivers or raises, not both.
- `expired` in the sweep compares whole ticks; `LabelExpiry` is in ticks. Reading
  the clock, listing and filtering are one step, for a row changed in between
  is renewed and would not be taken.
- Rows are read whole; a handler that reads a case and is refused by the
  transition table is left out, as above.
- Event details, actors, messages and log lines are left out. The lead's
  `verdict_...` event stands for the board's advice; the specialists' events are
  saved with it.
- LangGraph is not in the repository. Taken of it is what the code and its
  comments rely on: the latest checkpoint is the thread's; an input is merged
  into the thread's values, votes being added; a node that did not finish runs
  again from its top; a resume value reaches only the node the thread stands at;
  the specialists are one superstep and one checkpoint.
- The models' answers are open: any votes, any verdict, a member that fails
  counting as "escalate". In ReviewBoard a call of the models is one step; its
  attempts are LLMClient's. The model's own confidence gates nothing and is left
  out. Every completion names its usage.
- `resume_review` reads the thread's state and invokes the graph; the graph is
  given the latest checkpoint at `Load`, which may have moved on since.
- In the evaluation the reviews are of BoardRules' votes and LLMClient's calls,
  with no thread or store: each row is a new case in a store of its own, reviewed
  with `auto_apply=False`.

## 3. The runs

`tlc -config <name>.cfg <module>`: races and filings are of MCServiceHistory;
board of MCBoardHistory; policy of MCPolicy; answers and human_overridden of
MCBoard; eval of MCBoardEval; the others of MCReturnsService.

### Runs that pass

| run | instance | what it shows |
|---|---|---|
| races | 2 threads, 1 case of any resolution, 2 labels, 1 crash, all handlers but the sweep | `FollowsLedger` (refinement of CaseLedger), `AuditTrailGrows`, `LabelsStay`, `NoticesAreTrue`, `SettledIsBacked`, `ExecutedWasPaid`, `TypeOK`; `NoticeInv` (with `IInv`) holds; `OneIntentPerCase` and `OneReplacementPerCase`: a case is paid and its goods are replaced once, not counting settlements under way, overtaken or cut off |
| filings | 2 threads, 2 cases for one unit under one key, 2 labels, tracking events, sweeps, a clock of 2 instants, 1 crash | `OneFilingPerKey`: only an overlap, or a crash before its record, files a key twice; `StrainedOrMet`: only an overlap reserves more than was bought; `KeysArePermanent` under racing and replayed requests; `ExpiresOnlyUnused` against tracking events and second sweeps; `IInv` with two documents in a sweep's list |
| payments | 1 thread, 2 cases, every handler but review and the sweep, 3 entries, of which the second is payable, 1 crash | `RequestsEnd`: every request ends; `PaymentsComplete`: an entry is paid in the end, also behind one that may fail for ever, and when a crash came between its payment and its mark |
| policy | 3 kinds, up to 2 lines, ages 0 to 4 around a window of 1, 2 or 3 and a grace of 0 or 1, 4 policies, values in half cents, fees of 62.5% and 50.5% | `FactsAgree`, `DelayNeverHelps`, `StrictestLineGoverns`; `SnapshotDecides`: policies with one snapshot and one `return_rate_min_orders` decide alike; `RefundWithinValue`; `BoardKeepsToFacts`: the simulated board approves alone exactly the escalated cases with no disqualifier on the day of the review |
| board | 2 threads on the board, 1 case, 1 specialist, threshold 60, cancels, 1 crash, a carrier that may refuse | `AutoApprovalsUnopposed` also when two reviews share a thread and their votes add up; `FinishedIsDecided`; `FollowsLedger`, `AuditTrailGrows`; `AdviceOnce`: advice is recorded once but for an overlap, a crash before its checkpoint, or a cleared thread |
| answers | 1 thread on the board and 1 beside it, 2 specialists, agents, the console, cancels, 1 crash | `BoardActsOnItsAdvice`, and with fairness `ReviewsEnd` |
| eval | 2 specialists and a lead, 2 attempts per call, up to 2 rows, thresholds 50, 65 and 100, no false approval allowed | `GateHolds`, `UsageAddsUp`, `OutagesNeverApprove`, `EvalEnds` |

### Runs that refute what the repository says

Each is a short counterexample to a sentence of a document, comment or test,
quoted under `findings` in `PROJECT.json`.

| run | what happens |
|---|---|
| over_return_race | two requests check the order before either saves; both get the only unit |
| key_race | a retry overtakes its first request; one key, two cases |
| paid_twice | crash between the entry and the save; the repeated inspection enqueues a second one, with another idempotency key |
| paid_before_saved | the flush of another thread finds the entry of a case that is not saved yet and pays it; if the save then fails, the money has moved for a case that is still received, against `orchestrator.py:20-22` |
| human_overridden | the carrier refuses the label of an approval the board applied; the thread stays at decide, and only a resume is accepted; the human resumes it with a rejection, the node runs from its top, asks the board first, and approves |

`OneIntentPerCase`, `OneFilingPerKey` and `StrainedOrMet` are the other side of
these runs: what overlaps, lost saves and crashes break, nothing else does.

More behaviours of the code follow from the modelled steps and have no run of
their own.

Of the service:
- one request that names the only unit of an order on two lines passes the check
  line by line (`Returnable`), against "quantities not already returned" at
  README:24-25;
- two flushes race, and the one whose call fails marks pending what the other
  marked executed (`OutboxMark`): a paid entry is offered again, under its own
  key, and missing from the executed total until then, although
  `orchestrator.py:313` calls `flush_outbox` "safe to call repeatedly";
- a crash between the save and the record of the key lets the replay make a
  second case, as `key_race` does;
- `register_order` replaces an order's body, and one with fewer units leaves its
  returns with more than it has (`RegisterOrder`);
- two inspections of one case at once make two replacement orders, and so do
  two in a row when the answer to the first was lost (`CreateReplacement`);
- a notice that was sent is missing from the audit trail when another save comes
  between the sending and the event (`NoteNotice`); the notice of a refund goes
  out also when the flush failed (`EndFlush`);
- a tracking event keeps an old label from the sweep, because it renews
  `updated_at` (`Stale`);
- `return_rate_min_orders` decides and is not in `policy_snapshot`
  (`ReturnsTooOften`, `Snapshot`), against `models.py:163`; hence the exception
  in `SnapshotDecides`;
- the highest fee of a case's lines is taken of all of them (`RestockFee`), and a
  total below zero is paid out as a negative amount (`Amounts`).

Of the board:
- after a crash mid-review, asking for the review again is answered with 409
  "awaiting a human decision" (`Peek`); it goes on only by a resume, whose
  decision the nodes before decide do not see (`Load`). README:73-75 says that it
  resumes from the last completed node;
- a crash between the save in synthesize and its checkpoint makes the lead give a
  second verdict and the trail record both; so do two reviews that both found no
  thread (`Peek`, `Invoke`), against "exactly once" at `coordinator.py:186`
  (`AdviceOnce` excepts these by name);
- two reviews of one thread add up their votes (`Invoke`, `Gathered`);
- advice is recorded on a case that was cancelled meanwhile (`ReadCase` asks
  nothing of its status);
- the thread of a case that was decided elsewhere stays pending for ever
  (`Apply`), and `Clear` is reached only by a review that lost a race, for a
  finished thread's case is decided (`FinishedIsDecided`);
- the usage of reviews that overlap is mixed (`UsageDelta`);
- no LLM failure reaches `main.py:57`'s 503, since members swallow it
  (`GivesUp`); with no key the evaluation's gate passes on escalations alone;
- the gate counts nothing for a threshold off the sweep's list
  (`FalseAtThreshold`), and raises with no row to review (`Gate`).

### Bounds

`Workers` 2: every hazard listed is between two handlers. `Cases` 1 or 2: a case
races only with calls on itself, on its order, its key, or the shared outbox;
each run has the cases its question needs (1 to race on a row, 2 to race on an
order, a key or a place in the sweep). `Labels` 2: the second is for the approval
that loses, or for a second case. `MaxTracking` bounds tracking events per case,
of which one already makes a stale copy. `MaxEntries` 2 or 3 and
`MaxReplacements` 2: at least one more than correct behaviour needs per case.
`MaxCrashes` 1, `MaxNow` 1 with `LabelExpiry` 1: before and at expiry. Threads,
cases, labels and keys are interchangeable, and runs without liveness use that
(`Symmetry`). In filings there is one order of one unit and one body for it, so
that keys and units are both scarce; a sku on two lines and a second body are in
the theorem (`OrdersAreNotOverReturned`), which is for any requests and bodies.
The passing runs of the service report deadlock; the small violation runs offer
so few operations that they do stop once ids are used up, and say
CHECK_DEADLOCK FALSE.

`BoardSize` 1 with two threads on the board: two reviews on one thread are what
brings two votes, opposed or not; 2 and 3 where one review votes. `Threshold` is
60 with one or two specialists, so that one abstention can pass; the default 75
with three. `MaxAdvice` bounds how often advice is recorded on a case, 2 or 3
where correct behaviour needs 1 and a crash adds 1. `MaxSample` 2 rows: a
false approval beside a true one, and usage measured after an earlier review.
`MaxRetries` 2: one attempt that is tried again and one that is not. The board
and the evaluation do stop, once a case is decided or the script ended, and
their configurations say CHECK_DEADLOCK FALSE. The ages of policy go past
window and grace on both sides of each boundary.

### Fairness

`Scheduling` is weak fairness of each thread's `Progress`: the operating system
runs it, and calls of outside systems return or raise. Nothing is assumed of
clients: arrivals are not fair, and nothing says which way a call goes.
`RetrySpec` adds what README "failed attempts are retryable" depends on:
operators flush whenever they can again and again (strong fairness of
`StartFlush`, since a busy server may delay it), and for `Payable` entries only,
a gateway that accepts an entry if it is tried without end. Entries outside
`Payable` may fail for ever.

`AnsweringSpec` is that of the board: its `Scheduling` is weak fairness of each
thread's next call; humans resume a review as often as one asks for it (strong
fairness of `ResumeReview` with a rejection, since a busy thread or a crash may
put it off), and a carrier that is asked for a label without end makes one
(`LabelMade`). README:77-80 makes a paused review end by a human's decision;
that the carrier recovers is needed because the board's own approval is tried
first whatever the human says. `EvalSpec` is weak fairness of the script's next
step: it is one process, and its calls return or raise.

## 4. What is proved

Every invariant and every action property of the passing runs, and both
refinements of CaseLedger, are theorems. They hold for every number of threads,
cases, labels, orders, keys, lines, units, specialists, entries and crashes,
under the named assumptions on constants, which say no more than what the values
are: `None` is no case, label, book, key or request; requests name orders and
resolutions that exist and list finitely many lines; quantities are naturals
(`ge=1` in `models.py`); windows, graces, values and thresholds are integers.
A theorem that needs more says so in its ASSUME, the third column.

| theorem | states | assuming |
|---|---|---|
| `ServiceProofs!InvariantHolds` | `Spec => []IInv` | |
| `ServiceProofs!TypeCorrect` | `Spec => []TypeOK` | |
| `ServiceTheorems!TrailsGrow` | `Spec => AuditTrailGrows` | |
| `ServiceTheorems!LabelsAreKept` | `Spec => LabelsStay` | |
| `ServiceTheorems!ImplementsLedger` | `Spec => FollowsLedger`, the refinement of CaseLedger | |
| `ServiceTheorems!NoticesAreInOrder` | `Spec => []NoticeInv` | |
| `ServiceTheorems!NoticesTellTheTruth` | `Spec => []NoticesAreTrue` | |
| `ServiceTheorems!KeysKeepTheirCase` | `Spec => KeysArePermanent` | |
| `ServiceTheorems!OnlyUnusedLabelsExpire` | `Spec => ExpiresOnlyUnused` | |
| `SettlementProofs!ExecutedMeansPaid` | `Spec => []ExecutedWasPaid` | |
| `SettlementProofs!SettlementsAreBacked` | `Spec => []SettledIsBacked` | |
| `SettlementProofs!IntentsAreOne` | `HistorySpec => []OneIntentPerCase` of ServiceHistory | |
| `SettlementProofs!ReplacementsAreOne` | `HistorySpec => []OneReplacementPerCase` | |
| `SettlementProofs!KeysFileOneCase` | `HistorySpec => []OneFilingPerKey` | |
| `SettlementProofs!OrdersAreNotOverReturned` | `HistorySpec => []StrainedOrMet` | finitely many cases |
| `BoardProofs!RunsInOrder` | `Spec => []BoardInv` of BoardService | |
| `BoardProofs!UnopposedApprovals` | `Spec => []AutoApprovalsUnopposed` | `Threshold > 50` |
| `BoardProofs!FinishedThreads` | `Spec => []FinishedIsDecided` | |
| `BoardProofs!TrailsGrowAtTheBoard` | `Spec => AuditTrailGrows` of BoardProperties | |
| `BoardProofs!BoardImplementsLedger` | `Spec => FollowsLedger`, BoardService's refinement of CaseLedger | |
| `BoardProofs!ActsOnItsAdvice` | `Spec => []BoardActsOnItsAdvice` | finitely many reviewers |
| `BoardProofs!AdvisesOnce` | `HistorySpec => []AdviceOnce` of BoardHistory | |
| `EvalProofs!EvalTypes` | `EvalSpec => []EvalTypeOK` | finitely many members |
| `EvalProofs!UsageIsReported` | `EvalSpec => []UsageAddsUp` | the same |
| `EvalProofs!GateBoundsApprovals` | `EvalSpec => []GateHolds` | the same |
| `EvalProofs!ApprovalsWereAnswered` | `EvalSpec => OutagesNeverApprove` | the same |
| `PolicyProofs!EngineMatchesFacts` | `PolicySpec => []FactsAgree` | |
| `PolicyProofs!BoardFollowsFacts` | `PolicySpec => []BoardKeepsToFacts` | |
| `PolicyProofs!SnapshotSuffices` | `PolicySpec => SnapshotDecides` | |
| `PolicyProofs!LaterIsNoBetter` | `PolicySpec => DelayNeverHelps` | |
| `PolicyProofs!MoreLinesNoBetter` | `PolicySpec => StrictestLineGoverns` | |
| `PolicyProofs!RefundsStayWithin` | `PolicySpec => []RefundWithinValue` | fee rates are between 0 and 1, which the code does not check |

No theorem of the service or about advice limits threads, overlap or crashes.
Where the code's promise fails under them (the violation runs), the theorem says
of what it fails: `OneIntentPerCase` is about the intents that no settlement is
still to save or gave up, `OneFilingPerKey` about the keys without overlap or
crash, `StrainedOrMet` about the orders without overlap, doubled sku or new body,
`AdviceOnce` about the reviews without overlap, lost checkpoint or cleared
thread. What is excepted is recorded per intent, key, order or review by the
step that touches it, so that a race on one says nothing about the others.
`BoardActsOnItsAdvice` names one reviewer in itself: a second one may advise the
case while the first applies its verdict.

**Copies and rows.** "No lost update" is not inductive: a state can hold a copy
with the row's version and other contents, and its save would pass the check.
`IInv` says what connects copies and rows. `FollowOK`: the copy a thread holds
is never newer than its row, and *while both have the same version* the copy
`Continues` the row: its trail extends the row's, the row's label is its label,
and its status is one the row may move to at this call (`MayBecome`). Every
successful save raises the row's version, which makes every other copy of
the case older (and thereby unable to save). `InsertOK` covers the case not
yet inserted, which nobody else holds; `RestOK` the documents of a sweep's list.
The case that makes `Unlabelled` necessary is an approval: the copy at "label"
has no label, so issuing one cannot replace one the row has.

`DocumentProofs` has what handlers make of a document; `ServiceProofs` what one
thread's step leaves alone in the other threads' parts, one lemma per action,
and their composition. `ServiceTheorems` derives the action properties: only a
save changes a row, and a save the check lets through continues it. The other
invariants of the service each add to `IInv` what their property turns on:

- `NoticeInv`: a thread past its save with something to announce finds the row
  still in that status, because the announced statuses are terminal and nothing
  follows a terminal one.
- `KeyInv`: what a key names is in the table; the thread that records a key has
  saved its case (`RecordedExists`), and rows are never deleted.
- `ExpiryInv`: a document in a sweep's list, or a copy about to be saved as
  expired, was stale when listed, and *while its version is the row's* so is
  the row, for staleness only grows with the clock.
- `PaidInv`: the entry a thread is about to mark executed is one the gateway has
  paid, also when another flush marks it in between.
- `BackedInv`: every copy with a settled status has its entry or its replacement
  order, but at the one call where the entry is still to be recorded.

`HeldCasesComeFrom` carries all of these: whatever the step, a case a thread
holds is the one it held, one read from its row, one the sweep listed, or one
just built.

**What only races can do.** The four invariants of HistoryInvariant say how
the observer's memory and the threads' hands make up what the tables do not show;
`ObserverLooksOn` has every theorem about `Spec` hold of `HistorySpec` too.
`SettledInv` is what they share: an inspection's copy is of a case still to be
inspected while its version is the row's (`FreshOK`), so a settlement saved is
the only one of its case.

- `IntentInv`: a thread between outbox_enqueue and save has an intent of its case
  in `intent`, nobody else's and no stray (`IntentOK`). The save that the version
  check lets through moves that one intent behind the case (`BehindOK`); one
  refused, or a crash, moves it to `strays`.
- `OrderInv`: each replacement order is in one thread's hands, lost, or the one the
  case names, and no two of these at once (`HandOK`).
- `FilingInv`: for a key without contest at most one request is past its lookup
  and the key is free until then (`LookedUpOK`), and a case filed for it is what
  the key names or is about to.
- `StrainInv`: while an order is not strained, the one request between its check
  and its save still finds the room it was checked for (`RoomOK`), for other
  handlers only release units (`ReservationsShrink`), and its save takes no more
  (`ReservationsGrow`). It needs that the request of a case never changes
  (`AskedInv`), and arithmetic on sums over sets of cases: `SumExists`,
  `SumSplits`, `SumGrows` of BasicProofs.

**The board.** `BoardInv`: *a run at "by_board" holds a verdict and votes the
rules let it apply*. It is needed because votes and verdict are checked at
`Decide` and stay in the run while `review` makes its calls. `OnlyUnopposed` is
the arithmetic: `_may_apply` at a threshold above one half implies an approval
and, by the tie rule, no rejection. At one half or below it fails: abstentions
alone reach it, which is why the assumption is in the theorem.

`DeskInv` is for the board what `IInv` is for the service: handlers' copies
continue their rows and add no advice (`CopyOK`), the copy synthesize holds
while the lead reviewer answers *is* the row while their versions agree
(`ReadOK`), and a finished thread's case is decided (`ThreadOK`), which stays so
because nothing leads back to manual review (`StageOK` for a run at its
finish). `AdvisedInv` adds what holds with one reviewer: its run is where its
thread stands (`RunFollows`), and what the thread says is what the trail says
last (`ThreadAdvised`, `Advised`). `OnceInv` is for any number of reviewers: a
review that did not stray has one driver, who is where the thread stands
(`StagesAt`), and once its advice is in the trail the thread has moved on or is
about to (`ReviewOK`); a crash after the save of the advice and before its
checkpoint is exactly the step that breaks it.

**The evaluation and the engine.** `UsageInv` bounds usage by the members that
came out for or against, each of which had an answer counted; with a threshold
above one half two of them must have. `GateInv` keeps the count of false
approvals once the gate has passed. Of the engine, `WindowIsLeast`, `TotalIsSum`
and `FeeIsARate` say what the folds over lines return, `MoreRulesNoBetter`
compares two answers, and the theorems apply it to a later day and to a line
more. `RefundsStayWithin` bounds both roundings: a whole number of cents is
refunded within itself, any other total at most half a cent above it.

**Induction.** The library's induction theorems cannot be used here, for they
take an operator as a parameter. Facts about sums and minima over finite sets
are proved from the least counterexample instead: `LeastOf` and `FiniteLeast`
of BasicProofs come from `WFMin`, and `SumExists` builds the function the folds
choose.

**Only model-checked**: liveness (`RequestsEnd`, `PaymentsComplete`,
`ReviewsEnd`, `EvalEnds`), which is out of the prover's reach, as is ENABLED and
so the absence of deadlock. Refuted by the violation runs, and so not proved as
they stand: `NoOverReturn`, `OneCasePerKey`, `OnePaymentPerCase`,
`PaidIsSettled` and `HumanIsHeard`.

## 5. Not modelled

Roles and webhook signatures (one check on one request, no state); the retriever
(a ranking of text chunks whose result only enters a prompt); prompts, the
description of a case and the members' own confidence (text and numbers no rule
reads); configuration and datasets (constants of the modules); the rule engine's
confusion counts in the evaluation (sums over a dataset); the console's display
and demo data; read-only endpoints; token counts and backoff times; the CI
workflow.

## 6. Plan

1. *(done)* lifecycle, store, handlers, service, decision engine; the invariant,
   the refinement and the truth of notices proved.
2. *(done)* review board, its rules, its composition with `review` and `cancel`;
   LLM client; evaluation gate; refund amounts; the console's simulated board;
   `AutoApprovalsUnopposed` proved.
3. *(done)* every invariant and action property of the runs proved: expiry, keys,
   settlement, the board's refinement of CaseLedger, its advice, the evaluation's
   gate and usage, the engine's comparisons.
4. *(done)* the promises that races and crashes break, stated next to an observer
   of what those touched, and proved with any number of threads and crashes:
   payments, replacement orders, keys, returned units, advice.
5. Abstract payments: what settlement promises of each entry (an intent keeps its
   case and kind, money moves once and only for an intent, executed only once
   moved), shown to be implemented by the concurrent service.
6. More operator facts worth a theorem of their own: what `derive_confidence`
   does when a vote is added, and that a review whose votes are doubled by a
   second run of the thread is still decided as one.
