# CortexKitchen: specifications

TLA+ models, TLC runs and machine-checked proofs about
[CortexKitchen](../src/README.md), a FastAPI service in which a LangGraph of
agents plans the operations of a restaurant, an approval-gated queue acts on the
plans, two LLM assistants talk to owners and guests, and a client of Swiggy's
tools reads the market, imports orders and books and buys for guests. Paths
below are relative to `src/apps/api/app`, unless they begin with `docs/`.

`PROJECT.json` lists the components, the runs, the mutants that show that each
property can fail, the lines behind each definition, the divergences found and
the hazards that the properties are for.

## 1. Inventory

### Parts that keep or change state

| Component | State | Operations | What is hard |
|---|---|---|---|
| **Action queue** `domain/services/action_queue_service.py`, `action_execution_service.py`, `api/routes/action_queue.py`, `infrastructure/whatsapp` | rows of `action_queue`: org, category, status, approver, execution time, error, payload | create, approve (edit, approve, send, record), reject, mark executed / error, draft a vendor message | synchronous routes run in a thread pool: several calls on one row, each with a session of its own that reads, commits and refreshes; an external send between two commits |
| **Trust ladder** `trust_ladder_service.py` | none: a query over the rows | count the approval streak | rows are ordered by creation, decisions are not |
| **Workflow triggers** `workflow_trigger_service.py` | rows it adds to the queue | restock alert with a draft per vendor, overstock alert, pricing review | coroutines that interleave at each LLM call; a check before and a write after; partial failure |
| **Planning graph** `orchestration/` | the channels of one run, a checkpoint after each superstep | fifteen nodes, a parallel fan-out of five, up to two replans | nodes return whole states that a reducer merges; conditional edges; failures of nodes; LangGraph's limit on supersteps |
| **Critic** `critic_service.py` | rows of `DecisionLog` | evaluate, correct the verdict, log | the verdict is committed before it is returned |
| **Planning routes and plan caches** `api/routes/planning.py`, `infrastructure/cache/` | an exact cache in Redis, a semantic one in Qdrant, the planning memory, run rows | run, stream, friday-rush | caches, records, triggers and graph in sequence, each with failures; what a key stands for; which runs may fill what |
| **Swiggy client, circuit breaker** `infrastructure/swiggy/client.py`, `circuit_breaker.py` | in Redis, per server: failures, open flag | call a tool, record success or failure | counter and expiry are separate requests, from many processes |
| **Swiggy sync, connectors** `infrastructure/swiggy/sync/`, `swiggy_connector.py` | imported orders, feedback, the connector's status | sync | overlapping syncs, syncs cut short, rows without a unique key |
| **Swiggy enrichers** `infrastructure/swiggy/enrichers/` | a cached context per organization and day | competitor prices, occupancy of the area, prices of what runs short | tens of calls, any of which may fail; what a cached answer was made for |
| **Chat copilot** `chat_service.py`, `api/routes/chat.py` | conversations, a semantic cache of answers | a loop of model calls and tools; one approves an action of the queue | cached answers about a queue that moves on; disconnects; deletion during a reply |
| **Guest concierge** `concierge_service.py`, `api/routes/concierge.py` | a session per guest in Redis; carts, orders and bookings in one Swiggy account | chat turns of up to four rounds of tools, delete | turns run concurrently on copies of a session; lost answers; the account is shared; a resend after a 5xx |
| **LLM providers, usage** `infrastructure/llm/` | the usage records of a request, the provider that answered last | complete, with fallback; drain the usage of a node | parallel agents share one object |
| **Vector memory** `infrastructure/vector/` | past plans and sessions | store, retrieve by similarity and age | what is stored under which fields |
| **Replay**, **Checkpointer pool** `orchestration/replay_support.py`, `api/dependencies.py` | one connection pool per process | re-execute one node; create the pool on first use | side effects of a replayed node; failed setup |
| **Async jobs** `infrastructure/jobs/async_runner.py` | Redis | enqueue, poll | nothing calls it |

### Parts that compute

| Component | What it computes | What is hard |
|---|---|---|
| **Market rules** in the enrichers, `market.py` | averages, alerts, ranks, breadth, the signal of how full the area is | the page, the plan and the critic each compute their own |
| **Stock rules** `inventory_service.py` | drawdown, alerts, guarded restock actions and their check | rounding; quantities read back from text |
| **Review rules** `forecast_service.py`, `reservation_service.py`, `scenario_*`, `cost_aware_scoring.py`, `evaluation_sanity.py` | forecast, bookings in the service window, fallbacks, cost scores, the critic's differences | the same figure is derived twice, with other roundings and windows |

Run records, analytics and briefing, vendors and settings (single-row CRUD),
authentication (a library), reports and ingestion (layout), the schema and the
web UI only read, format or pass on.

### How they interact

A planning route takes a plan from a **cache** or runs the **graph** once, files
the run, stores what it learnt in the **planning memory** and hands the response
to the **triggers**, which add rows to the **queue**. The graph's agents call the
**providers**, the **enrichers** and the **vector memory**; the **critic**
decides whether the plan is redone, from **rules** and the model's judgement. An
owner approves a row, on the queue page or by asking the **copilot** to, and the
queue sends a WhatsApp message. The **trust ladder** reads the queue's rows. The
enrichers, the **sync** and the **concierge** go through one **Swiggy client**,
whose **circuit breaker** is in Redis. Components share the database, Redis,
Qdrant and the Swiggy account, and no other variables.

### What makes each modelled component correct

- Queue: a message leaves only for an action that was approved, by a user of
  its org, at most once per approval, in a wording somebody wrote down; a row
  says executed only after a send; no approval ends in silence.
- Trust ladder: the badge agrees with the owner's decisions.
- Triggers: nothing the plan calls for is missed, nothing is raised twice while
  the first is pending, alerts and drafts come together.
- Graph: the verdict a response carries is on the menu it contains, and the critic saw
  that menu as it is, or else with a dish moved; ready plans are justified; a run
  ends in a response, but for what the code neither catches nor times out.
- Planning routes: caches hold completed plans of the organization; an answer has
  a known age, names a run that made it, and answers what was asked, or the
  reason why not is one of the few the code admits.
- Breaker and sync: old failures do not open the circuit and it closes again;
  feedback doubles and a connector hangs in "syncing" only for known reasons.
- Enrichers: numbers come from neighbours that are not sponsored (prices: and open),
  none twice, and what a cache answers was made for the same organization, lately.
- Copilot: what it says of the queue is about the reader's own organization and, if
  it has it from a tool, was recently true; replies answer their conversation's
  questions; an approval stays untold for the reasons listed only.
- Concierge: a session shows all orders its answers named, and by an id none but
  its own; one without an id is an answer that named none; it knows its cart; the
  cap holds but for the causes listed.
- Rules: figures derived twice agree, unless a node that failed left none; a cap is
  a cap; a refusal has a cause in the owner's, the guests' or the model's numbers.

## 2. Modules

| Module | What it is |
|---|---|
| `ApprovalGate` | abstract: grants, dispatches and acknowledgements, without rows or statuses |
| `ActionQueue`, `...Properties`, `...Proofs` | the table and the approve and reject calls, one action per statement that commits, refreshes or sends; properties, invariants, refinement mapping; proofs |
| `TrustLadder` | the streak as an operator on the rows, with the decisions that change them |
| `WorkflowTriggers`, `...Proofs` | evaluations as coroutines on one event loop; properties and invariant; proofs |
| `PlanReview` | abstract: drafts, reviews, publication |
| `PlanningGraph`, `...Properties`, `...Proofs` | channels, supersteps, the merge and all fifteen nodes; properties, refinement mapping, invariant; proofs |
| `PlanningService`, `...Properties`, `...Proofs` | the routes around the graph, both caches, memory and run rows |
| `SwiggyClient` | one endpoint of the client and its breaker, for any caller |
| `SwiggySync`, `...Properties`, `...Proofs` | syncs, each making its calls through `SwiggyClient` |
| `SwiggyEnrichers`, `...Properties`, `...Proofs` | the three enrichers: calls, failures, caches; what they compute is in `MarketRules`; the proofs are also those of `PlanNumbers` |
| `ChatCopilot`, `...Properties`, `...Proofs` | requests, tools, cache of answers and conversations |
| `Concierge`, `...Proofs` | turns, sessions, the shared account; properties and invariant; proofs |
| `Rounding`, `MarketRules`, `StockRules`, `ReviewRules` | the arithmetic, as operators without state |
| `PlanNumbers`, `...Properties` | one plan's numbers, step by step, from the market to the critic, through those operators; properties and invariants |
| `MC*` | instances for TLC: definitions for constants, symmetry |

`SwiggySync` extends `SwiggyClient`, and `SwiggyEnrichers` and `PlanNumbers` both
extend `MarketRules`. `PlanningService` takes one run of `PlanningGraph` as a step
with a free outcome, and `PlanningGraph` takes the numbers of `PlanNumbers` as free
choices: one run, its caches and its numbers each have a state space of their own.

A definition described as "As X, ..." or "Mutant of X" in its comment is the form a
bug would give X. It takes part in no specification.

### Action queue

`table` holds the rows; a call `req[r]` holds the snapshot its SQLAlchemy session
has of the row. `Load` is the route's read with its 404s; `WriteOverride`,
`WriteApproval`, `MarkExecuted`, `MarkError` and `WriteRejection` are commits,
which write only the columns that differ from the snapshot (`Flush`), as the unit
of work does; the `Refresh...` steps and `Respond` are the `db.refresh` after each
commit. `Deliver` and `FailSend` are Twilio's answers; a send that raises may have
been delivered. `Abort` is a crash or a refused statement between any two steps.
`approvals` and `wordings` are history. Whether a vendor is found (`reachable`) is
fixed when the row is created. `sent` is a set: one call sends at most once, which
`StageInv` proves, so nothing is merged in it. A call is one of the routes' threads;
the copilot's `approve_action` takes the same steps on the event loop, so that while
its send hangs every coroutine of the process does. Not modelled: the expired status,
which no code writes, and the text of errors.

### Trust ladder

`statuses` is the column in creation order. `Decide` takes any row at any time, as
approve and reject do, and `Execute` any row that was approved once.

### Workflow triggers

An evaluation runs from await to await; `loop` says which one is between two
awaits, and the only await is the LLM call of a draft (`AskLLM`, `Answer`).
Owners' decisions come from other threads and may fall between any two
statements. `Fail` is an exception anywhere in the evaluation, which the route
catches; `Crash` is the end of the process. A row is known by category, author
and ingredient.

### Planning graph

`chan` holds the channels. A superstep runs each active node on the state it was
given; a node returns that whole state with its changes, and `Merge` applies the
returned states in any order through `keep_last`, which ignores `None`. `Advance`
follows the edges. `latest` is history: what the node that sets a channel returned
last. Channel values are abstracted to what the properties tell apart: an output
is there or not, a menu has a version, the feedback it has heard and whether it
highlights a dish of a low ingredient, a bundle says which menu and which
assumptions it was made of and whether a dish was moved in it, a verdict which menu
it is on and whether it was given on the menu as patched. An answer of an LLM is
"odd" when its JSON has not the shape that the aggregator reads without a try: then
the run raises. What the agents
compute, verdicts and scores of the LLM and the sanity checks included, is chosen
freely. Critic and final assembler are modelled with all their corrections and
failures. Not modelled: the SSE stream of progress, traces, usage. LangGraph
(supersteps, the channel protocol, the limit of 25) is external.

### Planning service

`turn[r]` is what the handler of a request holds; `pc[r]` the await it is at. A
request is received (`run_planning`, `stream_planning`, `friday_rush`) with its
look into the exact cache (`redis`), may find a plan in the semantic cache
(`SemanticHit`), starts the graph, which settles the date (`GraphStarts`), ends it
(`run_planning_scenario`, `stream_planning_scenario`, `GraphFails`) and is recorded,
cached and answered (`Deliver`). A plan is a record of what it was made for, what
the critic said and when; `dated` says whether the request named its day. `Failing`
lets any of Redis, Qdrant and the database fail at a step, as the handlers swallow.
The clock is in ticks; no request takes longer than `Patience`. The triggers that
`Deliver` evaluates are `WorkflowTriggers`. Ranking in Qdrant is not modelled: a
semantic lookup finds any point of the organization that has not expired.

### Swiggy client and sync

The breaker's two keys count down in ticks; `record_failure`, `set_expiry` and
`set_open` are the three requests to Redis, each of which may be lost
(`record_lost`), and `Never` is a counter without expiry. `_post` is one attempt,
sent once more after a 5xx. `within` is history: how many failures were recorded in
the last so many ticks. A sync asks for the orders, imports them, asks again for its feedback
round, and looks up, tracks and records each order (`choose_order`,
`track_order`); it ends in success or error, is cut short (`Crash`), or raises: its
report reads the connector's row on the Session that a failed statement has left in
need of a rollback, and then it raises too and the row stays as it was (`sync_raises`,
`broken`). That a
round trip to Redis takes less than a tick is a bound of the model. Reservations
are left out: nothing registers a booking, so that part of a sync has nothing to do.

### Swiggy enrichers

A `job` runs its series of calls (`todo`), each of which may fail, keeps what was
read, and stores a result with the restaurants it came `from` and the context it
was made for; the cache's key has only the organization and the day. The
limits on calls per enrichment (`_MAX_...`) are constants. What is made of the
answers is in `MarketRules`. `organic` and `listed` are the loops over a page of
results, as recursive functions. Which of the restaurants found Dineout renders is
its choice, so that the cap of six on them needs no constant; it is taken to list
none twice. The cap of fifteen neighbours is not modelled (the instance has seven),
nor is the text made for prompts.

### Chat copilot

Steps end where the generator awaits: looking in the cache, thinking, calling
tools, streaming the fallback, answered. Of an answer only its claims about the
queue are kept, each with the time it was true (`as_of`) and whether a tool or the
client's history told it (`source`): a model says nothing else, which abstracts its
text. The history is sent by the client, and is taken to be some of what its user has
been answered before (`Heard`), in whatever conversation and however long ago; one
made up is the reader's own doing. `approve_action` is the call of `ActionQueue`,
whose sending is not repeated here; it may raise after its commit. `persist` may fail
on any Session a tool's query has broken. `CacheHit` replays an answer
to a like question of the organization. `AnswersNothing` restarts the question
without the tools' results; `ModelFails`, `Disconnect` and `delete_chat_session`
may come at any step. `DecideOnPage` is external. Not modelled: the compression of the
history, the summaries in the session memory, the context of the prompt.

### Guest concierge

A turn works on a copy of its session, which it loads first and saves last,
whatever happens in between (`save_session` in the `finally`); `CutShort` is the
turn whose save is lost. Each tool that changes something is one action, or two
where the code awaits between a check and its use: `view_food_cart` and
`place_food_order`, `view_supplies_cart` and `order_supplies`, `create_cart` and
`book_table`. A request may be lost or refused, its answer may be lost or name no
order, and after a 5xx it is sent once more (`Request`): a refusal in the payload is
ordinary data to the client. The account is external. That an order empties its
cart is assumed. Left out: tools that only read, the budget, occasion, headcount
and location, the four rounds of the loop (the bound on calls is smaller).

### Rules and the numbers of a plan

`Rounding` is Python's rounding (ties to even) on whole units: quantities in
hundredths, orders and percentages in tenths. `MarketRules`, `StockRules` and
`ReviewRules` translate the functions of the enrichers, the inventory, forecast
and reservation services, the scenarios, the capacity and quantity checks and the
scores under their names. Alerts and order lines are sets whose members know the item
of the shelf they are of, since no rule depends on their order. `PlanNumbers` computes one plan with them in the order the
graph does: market, assumptions of it, scenario (a preset, the recommender's
fallback, the composer's, or a window the model gave), forecast, each agent, menu,
checks, scores. The reservations node may fail, which leaves no figure of the house,
and the menu node, which leaves no assumptions. Text is abstracted to the quantities
it names and the numbers of guests it mentions, those of the reservations' advice,
which are reworded, and those `elsewhere` in the bundle, which the check reads as
well. Floating point is modelled by exact fractions before rounding.
Not modelled: checks that only match phrases, words of the order line's template that
are an ingredient's name (`evaluation_sanity.py:452`), the cap on the rows of the
market page (`market.py:319`), Prophet (its answer is an input), the ranking of
complaints.

## 3. Runs

| Run | Bounds | Shows |
|---|---|---|
| `queue` | 2 calls, 2 users of 2 orgs, 1 action of either category, 2 texts | `IInv`; a message or an executed row has its grant and its send; nothing approved ends in silence; a call that has its row to itself does what the API promises; the refinement of `ApprovalGate`; an answer to each call whose own send returns |
| `trust_ladder` | 4 rows, 5 decisions | agreement with the decisions when they come in order, direction of the moves in any order |
| `triggers` | 2 evaluations of any 2 plans, 2 ingredients | `IInv`; doubles of restock alerts and drafts come from overlap or failure only; nothing missed |
| `planning` | one run of any request, 2 replans, scores 60 and 90, the real limit of 25 supersteps | no agent's output lost in the merge, the verdict on the menu of the response and what the critic was shown of it, ready plans justified, the refinement of `PlanReview`, an answer to each run whose calls return |
| `planning_service` | 3 requests of 2 orgs over every route, 2 ticks a day, `TTL` 1, `Patience` 1, `MaxClock` 3, 1 failing store | what the caches may hold and what an answer may be |
| `swiggy_sync` | 2 syncs, 1 order, threshold 2, window 2, open 2 | what the counter counts, that the circuit closes, feedback doubled only by overlap, why a connector stays at syncing |
| `chat` | 2 requests, 3 users of 2 orgs, 2 questions alike, 1 action, 2 iterations of 1 call, `TTL` 1, `Patience` 1, `MaxClock` 4; a history is any part of what was answered | what replies say and whom they answer, and which approvals stay untold |
| `enrichers` | 2 enrichments, 7 contexts, 7 neighbours on 2 pages per cuisine, 2 calls of each kind, `TTL` 1, `MaxClock` 2 | what a result was made from and for |
| `concierge` | 3 turns of at most one call each (`MaxCalls`), 2 sessions, 2 totals on either side of the cap, 2 products | the concierge's properties |
| `numbers` | every choice of 4 neighbours and 4 menus; then 5 houses, 4 shelves, 3 demands, 3 texts, every preset and 3 windows | that figures derived twice agree, and what errors are due to |
| `concierge_cap` | as `concierge` | divergence: `OrderWithinCap` |
| `numbers_guard` | as `numbers` | divergence: `GuardedActionsPass` |

**Why the bounds are enough.** A race on a row needs one call between another's
read and commit; two texts tell whose edit went out. Two evaluations overlap, and two critical
shortages are the least that trigger a restock alert. The planning run is not
reduced: one run has no unbounded data, and its replan limit and superstep limit
are the real ones; a score matters only by which side of 0.7 it is on. Three
requests let one fill a cache, one copy it and one read the copy; in four ticks of
a `TTL` of one every entry is seen fresh, at its limit and expired, and midnight
falls between two ticks. Two callers around one counter create it, expire it and
open the circuit in each other's round trips, and two syncs overlap. In the chat,
an answer is stored, replayed by a second member, and expired; the third user is of
the other organization. Two enrichments fill and read one cache; seven neighbours
include a closed one, a sponsored one and one that both pages list. Three concierge
turns cover two that race and a third that sees the result, or one that fills, one
that checks and one that changes a cart; what two calls of one turn do in sequence,
turns in sequence do as well. The instances of `numbers` sit on both sides of each
threshold of the rules: a house at, below and beyond nine tenths, one of ten thousand
seats where roundings differ most, a reservations node that fails, a number of guests
mentioned elsewhere, a window across midnight and one beyond hour 23,
stocks just short of need and far above it, and a menu and a shelf with two items of
one name.

**Symmetry** is over interchangeable values (calls, runs, ingredients, requests,
turns, sessions, products) and only in runs without temporal properties on them.
**Deadlock** is not checked: bounded sets of calls, runs and turns come to an end.

**Fairness.** `queue` assumes that a thread goes on by itself (`WF` of each step but
the provider's answer), as the operating system schedules it and the database answers
or breaks the call. It does not assume that a send returns: `whatsapp_service.py:26`
builds Twilio's client without a timeout. `Answered` says what is left: a call ends,
or its own send hangs; another's does not hold it up. A crash stays possible.
`planning` assumes that LangGraph goes on and that the nodes that only compute return
(`WF` of `OwnStep`), not that a node that calls out does: `gemini.py:18` sets no
timeout. So `RunAnswers` allows a run to wait for ever in such a node; no verdict is
assumed either, and a plan may be rejected each time. `swiggy_sync` assumes that time
passes and that each caller goes on (its client has a timeout on every request);
nothing is assumed of its answers. None assumes that calls arrive.

## 4. Proofs

Each holds for every value of the constants that the named assumptions admit, from
an inductive invariant `IInv` that TLC checked on the run's instance first.

**`ActionQueueProofs`**, for every number of calls, users, orgs, actions and texts
(`OrgOfAssumption`, `DistinctAssumption`, `NoRowAssumption`): `Invariance`, with
`TypeCorrectness`, `DeliveryIsGated` and `ExecutionIsReal` as consequences, and
`Refinement`, that the queue implements the approval gate. `GatedDelivery` is not
inductive: it speaks of messages that have left, and a step that sends one must
know that its call was granted. `StageInv` says, by the stage a call has reached,
whether it is granted and has sent; `SessionInv` that a call past its load works on
a row of its user's org, which needs that commits never change a row's org
(`CommitEffect`: a commit keeps every column the call did not change); `DraftInv`
that texts were written down. `CallMoves` lists what a step of one call does to the
others. The refinement uses `IInv` and shows for each step that it is a step of the
gate or a stutter; that no call sends twice is `Unsent` in `StageInv`.

On top of it, `NothingIsSilentlyLost`: what a session has
seen recorded is still in its row (`OutcomeInv`), because a commit writes only what
its session changed and nobody resets a record (`Grown`); so an outcome written over
a stale snapshot is there too (`CommitGrows`). With whole rows written back, as in
the mutant of `Flush`, this fails.

`SerialCallsKeepPromises` is about a call whose action no other call has touched.
Until it comes its row is as it was proposed (`FreshInv`), and from then on its
snapshot is its row (`SerialInv`, by the call's stage), so that a commit writes
exactly the row the session has in mind (`FlushFresh`), the text that is sent is the
owner's, and the outcome in the row is that of its own send.

The last section of the module is about the trust ladder, a state machine of its
own that counts the rows of the queue: `BadgeAgreesInOrder` and
`StreakMovesTheRightWay`, for any number of rows and decisions. `LadderInv` says that
a row is pending until it is decided, and that while the decisions come in order a
row says rejected exactly if its decision does: an execution cannot undo that, since
the row it marks was approved and in that order not decided again. Then the map from
decisions to their rows takes those since the last rejection one to one onto the rows
that count (`CountsDecisions`). The directions need no order: the set of rows that
count only shrinks, or only grows.

**`PlanningGraphProofs`**, for every request, any limits on replans and supersteps,
any scores and all that the nodes may return or raise (`BoundsAssumption`; that
`None` is no number, text, menu, bundle, verdict or response is `NoneAssumption`):
`Invariance`, `NoWriteIsLost`, `VerdictsAreOnTheMenu`, `ReadyPlansAreJustified` and
`Refinement`, that a run implements `PlanReview`. The three properties speak of the
end of a superstep or of the run, so `IInv` follows a superstep from inside.
`WritesInv` says what a return that waits to be merged may hold: new values of its
own keys and, for the others, what is in the channel already, or nothing where a
sibling of the fan-out writes. `MergeInv` follows from that: whatever a channel lacks
is in a return still to come, so the order of the merge does not matter. `Position`
says how far the plan is, by superstep and by the nodes that are done. It is stated
twice, of the channels with the nodes merged and of the last returns (`latest`) with
the nodes that have returned, because for a while the two differ. `Begun`,
`Drafted`, `Bundled`, `Reviewed` and `Settled` are the stages of one attempt, which
the counter of replans ties to the menu's version, and the refinement maps to drafts.
`Bundled` and `Reviewed` also say whether a dish of the menu was moved in what the
critic was shown, which is what `VerdictsAreOnTheMenu` traces to the response.

**`ConciergeProofs`**, for every number of turns, sessions, products and calls
(`TotalsAssumption`, `NoneAssumption`): `Invariance`, `SessionsShowTheirOwn`,
`SavedOrdersStay`, `CartIsKnown` and `BreachesAreExplained`. What Redis shows it was
given by a turn, and a turn shows what it loaded and what it has placed itself:
`ShownInv` is `NothingFabricated` for both. `NothingLost` needs `KeptInv`: a turn that
is going on holds the orders its answers named and those of every turn that was over,
and safe, when it began; one that saves beside it costs the other its mark `alone`
(`TurnInv`), so what two turns of one session that save over each other lose is
outside it. `unnamed` is the history of answers that named no order, which is what
an order without an id is traced to. `CartIsWhatSessionKnows` needs `MartInv`: between the turns of the
session that set the cart, it is Redis that knows it. `ToolKeeps` is the step every
tool is an instance of: it changes one turn, which shows nothing new that it has not
placed.

**`WorkflowTriggersProofs`**, for every number of runs, ingredients and plans
(`DistinctAssumption`, `InputAssumption`): `Invariance`, `OnePendingAlways`,
`DoubleAlertsOverlap`, `DoubleDraftsAreExplained`, `AlertsComeWithDrafts` and
`NothingIsMissed`. `IInv` has two halves. `CheckInv` is about check and write:
`OnePending` rests on there being no await between `_has_pending` and
`create_action`. `LoopInv` says that only the evaluation with the event loop is
between two awaits, and `ClearInv` that what it found absent stays absent, though
owners decide at any time. The same argument fails for restock alerts, whose check
and creation lie on two sides of an await; for these `HistoryInv` says what is true
instead. In `OverlapInv` an evaluation that handles shortages overlaps with each
other one that does and with each whose alert is pending, since neither found the
other's. `Drafted` follows the loop over the ingredients: a draft for each vendor
found, but for the one being worded, and then the alert. `Raised` says, by stage,
what was raised of the plan or was pending when the evaluation looked. Both speak of
all rows, pending or decided, which are only ever added to.

**`PlanningServiceProofs`**, for every set of requests and bodies, any `TTL`,
`Patience`, length of day and number of faults (`ServiceAssumption`):
`TypeCorrectness`, `NothingFalseIsCached`, `AnswersAreFresh`, `RunIdsAreTrue`,
`WrongPlansAreExplained`. The four properties are about answers; `IInv` adds what a
request in progress holds (`TurnFits`: its plan is the one the graph makes for its
body, or one of the semantic cache no older than `TTL` when the request found it),
what an entry of the exact cache was filed for (`EntryFits`: its key, its source,
how much older than the entry its plan is, and that the run it names has its plan)
and that points of the semantic cache are real plans. The bound `2 * TTL +
Patience` is the sum of the three: age in the semantic cache, the fill, age in Redis.

**`SwiggySyncProofs`**, for every number of syncs and orders (`ClientAssumption`):
`DuplicatesOverlap`, `SyncingIsExplained` and, for every window and threshold,
`CountsAreRecent`. `TrackedIsNew` says that what is there
of the order a sync tracks comes from no sync that was over when it began, which the
lookup established and which stays true because a sync that is over inserts nothing.
`SyncingIsExplained` counts a sync whose report raised (`broken`) as over: it is one of
the causes it names. `BreakerInv` is what
the counter needs: one whose expiry is still to be set has counted in this tick only,
because no caller stays between the two requests over a tick, and one that expires in
`t` ticks has counted only since `WINDOW - t` ticks ago. A counter that lost its
expiry is outside the theorem, as it is outside the property.

**`ChatCopilotProofs`**, for every number of users, organizations, questions,
actions and iterations, and any history sent of what was answered before
(`ChatAssumption`): `Invariance`, `ClaimsAreTrue`, `ConversationsAreTheirOwners` and
`ApprovalsAreTold`. The first half of `IInv`, `ClaimInv`, says whose claims a request
in progress, the cache and a conversation hold, and how old those are that come from
a tool (`TurnFits`, `PointFits`): what comes from a history has no age, but stays with
its organization, as what a user was answered is about the user's own; and that a conversation is its opener's
(`OwnerFits`), without which a reply could reach another organization. The second,
`TalkInv`, says that who has answered in a conversation is done (`SpeakersFit`), so
that nobody answers twice; that the question of a request in progress stands there
until the conversation is deleted (`QuestionStands`), so that a reply follows it; and
that what the tools of a turn did is among what they said, and then in its answer
(`DeedsFit`). A deleted conversation is never opened again: its number is that of a
request that has begun. `Quiet` is the step that all but the last of a reply are
instances of.

**`SwiggyEnrichersProofs`**, for every number of enrichments, any neighbourhood, any
limits on calls and a positive `TTL` (`EnricherAssumption`): `ResultsAreExplained`.
`IInv` says at which stages an enrichment of each kind may be (`StageKind`) and that
an entry is filed under the kind and organization of its result and expires one
`TTL` after it was made (`EntryFits`). On top of it, `OnlyNeighboursAlways`, for
pages of any length that may repeat restaurants: `CleanInv` says that what is still
to be asked is of those that were found, and that they are rivals, each once. It
needs what the loops over a page yield (`OrganicKept`, `ListedKept`), by induction:
`SetInduction` is the induction theorem for a set instead of an operator, from the
least element of what it leaves out; `LoopExists` that the recursion has a solution;
`LoopKeeps` that what every round keeps holds at the end.

The same module proves the four properties of `PlanNumbers`, which computes with the
enrichers' results, for any area, menus, houses, shelves, demands and texts
(`AreaAssumption`, `NumbersAssumption`: what is listed is finite, amounts are not
negative, a house has seats): `HousesAgree`, `QuantityErrorsHaveReasons`,
`QuietServicesScoreLight` and `MarketTellsOneStory`. The invariants say of which
inputs the figures are: `HouseInv` that menu and critic work with the reservation of
one house and window, or with none, `ShelfInv` that alerts, orders, checks and scores
are of one
shelf and forecast, `MarketInv` that the market's numbers are of one choice of menus
and neighbours. What remains is arithmetic: a rounded quotient is within a half of the
quotient (`RoundedNear`) and grows with it (`RoundedGrows`), so that fewer orders draw
no more (`DrawsNoMore`), leave no more shortages (`FewerShortages`) and press no harder
(`PressureGrows`). A sum over a set is the fold of the community modules, which takes
an element at a time: `AllSums` and `SumNumber` say by `PickInduction` that such a sum
exists and is a number, and `OffersSum` that the open tables of all neighbours are as
many as the pairs of a neighbour and its time, which `TimesBound` counts the other way
round, by time, to compare the badge with the chart. `FirstFive` says of any order of a
finite set that a rank below five is taken by exactly five, if there are more; that
"farther from its average" is an order is `FractionsInOrder`.

The attempt to prove them corrected them. The flag of overbooking differs from nine
tenths by up to half a guest in a house of up to a thousand seats, beyond that by half
a tenth of a per cent of them; the market page shows the last of two items of one
name, which need not be the one flagged; and a quantity the critic reports may belong
to an overstocked item of that name, not only to another short one.

**Only model-checked:** `Answered`, `RunAnswers` and `OpenCloses`, since liveness under
fairness and `ENABLED` are out of the prover's reach. Every invariant and every action
property of a run is a theorem.

## 5. Divergences

Checked by a run (the text is in `PROJECT.json`): a food cart that cannot be read,
or that another guest refills, passes the cap (`concierge_cap`); guarded restock
actions fail the quantities check they were made to pass (`numbers_guard`).

Seen while reading, each with the property that bounds it, if one does (the runs
above are kept for what no property of a passing run can say):

*Queue and triggers*
- Two approvals of one order may send the other's edit
  (`action_execution_service.py:36`; `SerialOutcome` is about calls that have their row to themselves).
- `mark_executed` leaves `error` as it was; `mark_error` may write to a row that was
  rejected between its approval and the failed send (`action_queue_service.py:64-77`).
- Twilio's client has no timeout (`whatsapp_service.py:26`): a send may hold its thread
  for ever, with the approval committed and no outcome in the row (`Answered`).
- The trust ladder orders by creation where its docstring says "most recent
  decided" (`trust_ladder_service.py:31`).
- Overlapping evaluations raise two restock alerts (`workflow_trigger_service.py:86`;
  `RestockDuplicatesOverlap`).

*Graph and critic*
- `final_assembler.py:4` speaks of "the critic-validated bundle", but line 58 takes the
  menu from the agent's output: the response may highlight a dish that the critic saw
  moved (`VerdictIsOnTheMenu` says when). A menu
  that fails on a replan keeps its predecessor's assumptions, since `keep_last`
  ignores the `None` it returns (`menu_intelligence.py:118`), and the aggregator's
  "contradiction-free plan" is computed of the unpatched state (`aggregator.py:86-88`).
- `critic_threshold` is no key of the graph's state, so an org's threshold never
  reaches the assembler (`graph.py:504`).
- Plans that exhaust their replans get a briefing as approved ones do (`graph.py:275`);
  the briefing reads the highlights at the wrong level (`situation_summary.py:72`).
- The aggregator raises, and the run with it, on a menu answer that is a list or a text
  (`aggregator.py:327-338`), on waste actions that are no texts (line 389) and the like
  (`RunAnswers`). The LLM clients have no timeout (`gemini.py:18`) and are called
  synchronously, so that one that hangs stops the event loop.
- `market_intel_node` may raise, though its docstring says that it never does;
  `_route_after_critic` says that replans go to the aggregator, they go to the menu.
- `_detect_contradictions` reads `forecast_data["demand_ratio"]`, which nothing
  writes; two of the critic's differences (2 and 3) can never be found
  (`FullHouseAgrees` for the first), and two (6 and 7) compare tonight's free tables
  with a plan of another day.

*Planning routes and caches*
- A request without a date is cached under today, though it is planned for a later
  day (`plan_cache.py:39`); the semantic cache stores debug and custom plans, against
  the comments at `planning.py:144` and `graph.py:445`, and its answers are copied to
  the exact cache (`WrongPlanExplained`, `AgeBound`).
- `planning.py:256` says that triggers are not evaluated on cache hits; line 182 does
  so, and the stream never evaluates them.
- `planning_memory` reads fields responses never have and stores `run_id` None.

*Swiggy*
- `client.py:8-9` says three failures in five minutes and thirty minutes open, and
  `docs/ARCHITECTURE.md:383` 1800 seconds; `circuit_breaker.py:24-29` has five, five
  and ten minutes.
- A booking or an order is resent after a 5xx (`client.py:160`), against
  `docs/SWIGGY_INTEGRATION.md:783` (`NothingFabricated` allows for it).
- The report of a failed sync reads the row on the Session the failure left in need of
  a rollback (`swiggy_connector.py:85-86`, `connector_repository.py:57`): it raises, and
  the connector stays at syncing (`SyncingExplained`).
- A sync that read nothing reports success (`swiggy_connector.py:72`), which
  `provider_registry.py:51` relies on; orders that could not be tracked are recorded
  as on time (`feedback_sync.py:87`); the lookup of feedback is a `LIKE` in which an
  underscore matches anything (`feedback_sync.py:150`); nothing registers reservations.
- The enrichers' cache keys leave out cuisine, menu and shortages (`AnswersExplained`),
  while `chat_service.py:522-560` counts on them for consistency;
  `deals_active_count` counts coupons (`competitor.py:438-445`); `_best_variant` does
  not look for "the first in-stock variant"; nothing makes the "nearby available
  competitors" of `occupancy.py:129` available ones, but for what Dineout renders; calls without an organization share the key of number 0.

*Assistants*
- `trigger_planning_run` says that a run "has been queued" and starts none
  (`chat_service.py:413-420`); the chat's feedback tool reads every organization's
  rows; an approval asked for in words like an earlier one's is answered from the
  cache, not made (`ClaimsAreOwnAndRecent`). The history of a question is what the client
  sends (`routes/chat.py:50`), compared with no stored message, so that an old answer
  may be told anew; an approval whose send or refresh raised after the commit is
  reported to the model as failed (`chat_service.py:424-426`; `UntoldExplained`).
- `MAX_SESSIONS_STORED` is used nowhere, and summaries of deleted conversations stay
  in Qdrant.
- The concierge's tools "never silently fabricate a booking/order that didn't actually
  happen" (`concierge_service.py:21-22`), but a refusal that comes as an answer
  (`client.py:230-245`) is appended as an order without an id (lines 1219-1223,
  1325-1332), and a booking is then shown as "confirmed" (line 1075)
  (`NothingFabricated`).
- A concierge session that is deleted during a turn is written back by the turn's
  save (`concierge.py:75`).

*Rules*
- `menu_service.py:108-110` calls the menu's view of the capacity "genuinely computed",
  and line 112 takes it that there is room when the reservations node has failed; the
  critic then finds nothing (`FullHouseAgrees`). `evaluation_sanity.py:126` says that
  the menu "never has access to reservation data".
- A service window across midnight counts no bookings, and one beyond hour 23 fails
  the reservation node (`FullHouseAgrees`); the flag of overbooking and the "90%" of
  the menu may be half a guest apart, or half a tenth of a per cent of the seats.
- The number of guests an owner writes into the focus ("80 guests"), or that any agent
  but the reservations' mentions, can get the plan refused: only that agent's are
  reworded (`FullHouseAgrees`).
- Prices on the market page, alerts and impacts use different cut-offs
  (`MarketAgrees` says how far they agree), and of two items of one name the page shows
  the last; an off-peak plan may score more pressure,
  through overstock (`OffPeakExplained`).
- The weather's effect is always that of 18 to 22 o'clock, whatever the window.
- The recommender's fallback may give "low stock weekend" on a weekday.

*Shared objects*
- Parallel agents write to one usage buffer (`llm/base.py:106`), so a node may be
  charged for another's call; a checkpointer whose setup fails leaves its pool behind
  (`dependencies.py:72`).

## 6. Not modelled, and what is left

- **LLM providers and usage**: the fallback chain is sequential, and its account is
  only shown. **Replay**: runs a node of `PlanningGraph` once more; it would add the
  hazard of a second `DecisionLog`. **Checkpointer pool**: made once per process.
- **Vector memory**: ranking by similarity and age; what is retrieved becomes words
  of a prompt. What may be stored is in `PlanningService` and `ChatCopilot`.
- **Run records, analytics, briefing, vendors, settings, authentication, reports,
  schema, web UI**: read-only, single-row or layout. `async_runner` has no caller.
- Proofs left: none of a safety property; liveness stays with TLC.
