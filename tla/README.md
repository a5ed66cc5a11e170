# Formal models of the enterprise AI agent

TLA+ specifications of the Python service in `src/app`, the TLC runs that check
them on small instances, and TLAPS proofs of their main properties for every
value of the constants. Every definition is translated from the code; the
`map` of `PROJECT.json` names the lines each one stands for.

## The system

A FastAPI service answers chat messages from a user's documents and with tools.
All state that outlives a request is in PostgreSQL; all handlers are coroutines
of one event loop, so they interleave at their awaits (flushes, queries, tool
and embedding calls), and each has one database session and one transaction.

| Component | State | Operations | Hard behaviour | What makes it correct |
|---|---|---|---|---|
| Chat turn (`services/chat_service.py`, `api/routes_chat.py`) | messages, audit rows | `process_message`, plain and streamed routes | failures after some rows are flushed, a client that leaves a stream, response before commit | the history agrees with what the caller was told; no half turn behind an accepted reply |
| Database session (`db/session.py`) | one transaction per request | commit, rollback, close | commit after the response, crash | all or nothing |
| Plan-and-Execute agent (`agents/plan_execute_agent.py`, `llm_planner.py`) | plan, results | plan, execute, verify, finalize | two planners and three places that bound a plan; swallowed exceptions; an answer chosen twice | plans are bounded, verdict and answer agree with the results |
| ReAct agent (`agents/react_agent.py`) | decision, one step | plan by a model or by rules, tool or RAG step, audit | swallows exceptions of planner and tool; `max_steps=0` | the audit row tells the run; a planner's failure never fails it |
| RAG agent, retrieval (`agents/rag_agent.py`, `rag/*retriev*.py`, `reranker.py`) | two rankings, one result list | vector, keyword, hybrid retrieval; fuse, rerank, generate | two statements of one answer; failing reranker | shows only ready documents its user may read; fusion keeps the best, reranking keeps all |
| Documents (`services/document_service.py`) | documents and chunks | upload, delete, get, list, chunks | failure or crash during ingestion, racing deletes, reads of several statements | documents are whole, deletion is for good |
| Chunking (`rag/chunking.py`) | none | `chunk` of two chunkers, break points | progress of the loops, boundaries | nothing lost where chunks overlap, chunks bounded, the loop ends |
| Tools (`tools/`, `routes_tools.py`) | a registry per request | `invoke_tool`: find, policy, validate, call, audit | a tool that raises, a 404 after the call | a row tells the truth of its call; roles kept under every name |
| MCP (`mcp/`) | transports, tool table, child process | initialize, call, disconnect, health check | timeouts that stop the child, silent servers, servers that change after discovery | an answer belongs to its request; a call reaches the server its name says |
| Accounts (`core/security.py`, `routes_auth.py`, `routes_admin.py`, `create_admin.py`) | users | register, login, patch, demo user, seed script | two registrations of one email, racing patches, a row read before it changes | one account per email and username; nobody acts as what they never were; patches merge |
| Providers (`llm/`, `rag/embeddings.py`) | attempts of a call | generate, embed | retry loops, time-outs, cancellation | bounded retries, one ending, named after the last answer where it can be parsed |
| Frontend (`frontend/src`) | selection, message list, requests under way | select, create, load, send, log out | answers in any order, lost, or of a transaction that fails later | shows whole turns, and in the end what was stored |

Components interact by calls within a request (route, service, agent, tool or
retriever, repository) and, between requests, only through the database. The
audit log and the history are the two traces others rely on.

## Modules

| Module | Models | Lines |
|---|---|---|
| `TurnStore` | abstract: the rows of a chat request appear in one step, in a legal shape, for good | what readers of the history rely on |
| `ChatTurn` | one message from the request to its rows; extends `TurnStore` | `process_message` and its four modes, the two routes, `get_db_session` |
| `ChatProofs` | theorems about `ChatTurn` and `ChatClient` | |
| `PlanExecute` | one run of `PlanExecuteAgent.query` | both planners' bounds, the loop, Verifier, Finalizer, the override |
| `PlanExecuteProofs` | its theorems | |
| `TextChunker` | one call of `TextChunker.chunk` | early returns, loop, break points |
| `RecursiveChunker` | one call of either chunker; extends `TextChunker` | `RecursiveTextChunker.chunk`, `get_chunker` |
| `ChunkerProofs` | theorems about both chunkers | |
| `DocumentLife` | abstract: a document appears whole, and is at most deleted | what readers of the documents rely on |
| `DocumentStore` | concurrent requests on documents; extends `DocumentLife` | `DocumentService`, the retrievers' filters, `get_db_session` |
| `DocumentStoreProofs` | its theorems | |
| `AccountBook` | abstract: accounts appear with an email and a username of their own and keep both | what everything keyed by an account relies on |
| `Accounts` | concurrent requests on accounts; extends `AccountBook` | the dependencies of `security.py`, `routes_auth.py`, `admin_patch_user`, `get_or_create_demo_user`, `create_admin.py` |
| `AccountsProofs` | its theorems | |
| `CallOnce` | abstract: a call takes effect at most once, while it is open, and returns with its own answer or an error | what a caller of an MCP server relies on |
| `StdioTransport` | calls over the pipes of a child process; extends `CallOnce` | `mcp/transports/stdio.py`, the loop of `demo_stdio_server.py` |
| `StdioTransportProofs` | its theorems | |
| `ToolCalls` | one call of a tool from the route to its audit row | `MCPManager`, the adapters, the registry, `ToolService`, `routes_tools.py` |
| `ToolCallsProofs` | its theorems | |
| `ModelCall` | abstract: a call of a model sends a bounded number of requests and ends as its last answer says | what callers of providers rely on |
| `ProviderRetry` | one call at a time, request by request; shown to implement `ModelCall` | `generate`, `_async_embed` |
| `RagAnswer` | one question from embedding to answer; extends `ProviderRetry` | `RAGAgent`, `RetrievalPipeline`, `LLMReranker` |
| `AgentRun` | the run behind a message of mode rag or react; extends `RagAnswer` | `ReActAgent`, `LLMPlanner.plan_react`, the audit rows |
| `AgentRunProofs` | their theorems | |
| `ChatClient` | a chat page and the server's transactions | `App.tsx`, `ChatWindow.tsx`, `client.ts`, `get_messages` |
| `MC*` | values of the constants for TLC | |

Operators named in a comment as a *slip* are not used by any specification. Each
is a plausible mistake in the code, kept beside the definition it would replace,
to show that some property notices it.

### ChatTurn

`pc[r]` follows the handler of request `r`: `opened` until the mode and the owner
are checked and the question flushed, `running` while the agent takes steps,
`answered` when the run's own audit row is flushed, `saved` with the answer, then
`finish` (on to the commit) or `unwind` (on to the rollback). `pend[r]` are the
rows flushed in the open transaction, `db[r]` the committed ones, `trail[r]` the
outcomes of the tool and RAG steps, `client[r]` what the caller has been told.

An exception of a plain request unwinds through `get_db_session`, and the error
is answered after the rollback. In a stream the generator's `try` catches it, an
error event goes out, the generator *returns*, and the transaction commits what
had been flushed. Only the flush of the answer is outside that `try`: it breaks
the stream and rolls back. A client that leaves a stream cancels the handler at
its await; the commit still follows. `poisoned[r]` says that a statement of the
transaction has failed: nothing can be flushed or committed after that, however
the agent goes on. A plain response, and the last event of a stream, go out
before the commit: `Respond` before `Commit` or `CommitFails`.

A row is its kind; `tool.invoke` rows carry the number of the step. `plan_execute`
takes up to `MaxSteps` steps (30 in the code), the others one. Which tool, which
text and which session are not told apart.

### PlanExecute

A run chooses its bound (`max_steps`), what the rules make of the question
(`question`: the wanted steps in order, and whether the rule of *first ... then
...* questions made them) and what the LLM planner may return (`reply`), then
takes the steps of `query`: `MakePlan`, one `MarkFinal` or `TakeStep` per step,
`Conclude`. A step is its `action_type`; a result is its status, whose text it
carries and whether it has citations. Which keywords pick a rule, and the texts,
are abstracted away. The operators stand for the functions of the code:
`Rules`, `Trim`, `ByLLM`, `Usable` for the planners, `Outcomes` for the executor,
`Verify`, `Finalize` and `Override` for the end of `query`.

### TextChunker

`Cut` is one iteration of the loop in `chunk`: the end by size, the break point,
strip and keep, the step back, the exit. Characters are words, spaces or
newlines; a chunk is the interval it is cut from. `Window` is the look back of
`_find_break_point`, 100 in the code. The constants are the texts (already
stripped) and the configurations, which are those `__init__` accepts. An overlap of zero
is one of them: the first cut then leaves `start` equal to its end, which `Cut` takes for
an endless loop and returns. `CoversText` states both cases.

`RecursiveChunker` puts the other chunker beside it, for the same texts and
configurations; `strategy` says which one `get_chunker` gave. `level` is the loop it is
in: over paragraphs, over the lines of a paragraph that is too long (`para`), over the
cuts of a line that is too long (`line`). `place` is how far in the text they are. A
chunk is the list of pieces it joins and its length; `current` is the one being packed.
The inner functions return lists that are appended behind the chunks made before; as
what is current was made a chunk first, the model appends to `result` at once. The two
packing loops differ in the length of the separator and in what splits a piece.
`chunk_with_metadata` of either chunker is called by tests only and is left out.

### DocumentStore

`pc[r]` follows a request on documents statement by statement: an upload through
`processing`, `chunked`, `marked` and `stored`; a delete through `found` and
`stored`; a read counts its statements in `done[r]`. `docs` are the committed
rows, `pend[r]` the row `r` has written; at READ COMMITTED each statement sees
`docs` as it is then, and `SoftDelete` waits while another request has written
the row. `seen[r]` collects what an answer shows. A row is its status, owner,
visibility, number of chunks and the count in its metadata. `UploadFails` covers
every statement of the `try` block; `StatementFails` those outside it. A delete is for
the owner or an admin, as `delete_document` and its docstring have it
(`OnlyEntitledDelete`, which leaves a private document to an admin too; the README of
the repository does not, `OnlyOwnersDeletePrivate`).
`barred[r]`, the documents deleted before `r` arrived, is history: no action
reads it.

### Accounts

Registration, login, a request with a token (`use`, or `patch`, the admin's change
of a user), a request without one in the demo mode, and the seed script, each
statement by statement. `users` are the committed accounts, `pend[r]` the row `r`
has written, `self[r]` and `loaded[r]` rows as `r` has read them: the ORM sends in
an UPDATE only the columns whose value is not the one read, which is what
`Merged` says. An insertion waits while another transaction holds its email or
username (`KeysFree`) and fails when one is committed (`Taken`). A fresh uuid is
the request itself. Passwords are right or wrong; a token names an account.
`had[r]`, the rows its user had since `r` arrived, is history.

### StdioTransport

Requests and answers are lines on the pipes of a child process, and neither
carries a number: an answer belongs to a request only because it is the next
line. `child[k]` is the `k`-th child with its pipes: request lines it has not
read (`todo`), the request it is at (`doing`), answer lines nobody has read
(`said`). A child is `closing` when its pipes are closed and `poll()` is still
None, which is when a write fails though `connect` was satisfied. `proc` is
`_process`. `pc` follows the one call under way: the transport is synchronous and
runs on the thread of the event loop, so two calls never overlap.

A time-out is `TimeOut`, then `Stopped` once `wait` has returned: `disconnect`
runs before the exception. `Check` is `health_check`, which only connects. A call
to `list_tools` and one to `call_tool` do the same to the transport.

Assumed of the environment: one answer line per request, as the bundled server
writes; a killed process ends within the second `disconnect` waits for it, so that the second
`wait(timeout=1)` never expires; no
grandchild keeps the pipe open; a write does not block on a full pipe.

### ToolCalls

A `ToolService` lives for one request, and so do its registry and its manager. `pc`
follows the request: `discovering` and `registering` go through the servers in the
order configured, one definition at a time, as `initialize` does; `ready` has the
registry; `invoked`, `audited`, then `finish` or `unwind` as in `ChatTurn`. `tools`
is `_tools`, `transports` the place in `configs` of the server whose transport is
kept under a name. A tool's name is a record: the server it is below, or none for
a builtin tool and an alias. An adapter is the entry it wraps.

The environment is `offers` (what each server lists) and `up` (which answer): a
server outside the process changes both at any time, between discovery and call
too (`ServerMoves`); the demo server in the process never does; the `http` transport
lists nothing. `Execute` covers a tool whose answer is lost after it has run, `Miss`
a call that reached no tool. `ran` records what ran and where; it is history, read
by no action. `NotFound` is the route's test of the error text, which any error may
meet. Statements failing is `AuditFails`; schemas are `valid` or not.

A builtin tool may raise what it does not foresee (`CalculatorTool` lets an
`OverflowError` out): `InvokeBuiltin` then goes to `unwind` past the audit. A validation
error quotes the name of an unknown field, so `Refuse` may answer 404 for it. A listed
tool of a builtin tool's name ends the request in `Build` (`NameClash`).

Two assumptions about the configuration, which the code does not check, are named. That
servers have names of their own (`OwnNames`) the theorems need, and TLC checks that the
instance meets it. That a server's tools have short names of their own (`OwnShorts`) only
the theorem about aliases needs: the instance has servers where a later tool replaces
an earlier one of its short name. `RoleKept` is of the server's role and of the tool that
creates tickets. A tool whose own listed role becomes "admin" after discovery runs for
users until the next discovery, and no property forbids it.

### ProviderRetry, RagAnswer, AgentRun

Three layers of one run, each extending the one before; `AgentRun` is what is checked.
`ProviderRetry` has the call of a model under way: `phase` and `attempt` follow the
loop, `tried` is what its requests met, `log` the calls that are over. A call is begun
by its caller and then moves by itself (`Receive`, `Wake`): the caller waits for
`~Under` and reads `Outcome`. `Promise == INSTANCE ModelCall WITH ...` maps it to the
abstract call. Of an answer only its class matters (`Replies`). A body that cannot be
parsed ends a call with an exception of the parser; `ModelCall` promises nothing of its
kind (`Ending`), and that it should be one of the providers' is `ErrorsAreTyped`. Only
the embedding waits at an await, so only it can be cancelled; `generate` and its sleeps
hold the event loop. One constant bounds all calls; the code takes
`provider_max_retries` for the language model and its default, 2 as well, for the
embeddings, whatever the setting says. A negative bound, which would send nothing and
raise, is excluded.

`RagAnswer` follows `RAGAgent.query` by `pc`. A search may return any ranking of
readable chunks (`Rankings`); `found` and `matched` are the two lists of a hybrid
retrieval and `results` what `retrieve` works on. Fusion computes the sums of
reciprocal ranks as fractions, which the code rounds, and cuts. A sort is said by what
it returns: `InOrder` is the set of the sequences of some chunks that go by a relation,
of which there is one. `Before` is a stable sort by score, `Sooner` what the model named
first, then the rest as it was. The reranker's model may name
any ids, known, unknown or twice (`Naming`), or fail in any way; `Reranked` swallows
it and notes a `reason`. `Construct` raises for a provider that cannot be made.

`AgentRun` puts ReActAgent before it: `Plan` and `Decided` for the two planners and
the fallback between them, `CallTool` for the one tool call, then `Audit`. A
decision is "a tool" or "none": what the regular expressions match and what the tool
does are abstracted. `conf` are the settings of the run. A reason is never an empty
text. `ChatTurn` takes the whole run as one step that returns or raises;
`OnlyTheseFail` says which failures of models those are.

### ChatClient

One user's page. `selected` and `list` are `selectedSessionId` and `messageList`,
`loads` the calls of `loadMessages` under way, `sending` the flag of the mounted
`ChatWindow`, `turns` the messages sent with where their transaction is (`running`,
`committing`, `stored`, `lost`), which rows it flushed and what the client has yet to
hear. The server's part is what `ChatTurn` shows in detail, reduced to what a page can
tell apart: an answer goes out before its commit, an error of a plain request after
the rollback, one of a stream before the commit of its question. Answers arrive in
any order, or get lost (`Drop`), also while the handler still runs: its rows are then
stored after the error is shown. A page starts with no session known and learns of them
by `LoadSessions`.

`Transcripts(s)` are the lists `get_messages` may give: by `created_at`, which all rows
of a turn share, so question and answer may change places, and cut at `Limit` (100 in
the code). Nothing orders rows of equal time, so another listing may show them
otherwise; no order within a turn is promised anywhere, so none is checked. Nor is it
promised that an answered turn is stored, as the answer goes out before the commit:
`ShownIsWhole` permits the page to show a turn whose commit failed, and
`QuietScreenIsRight` is of sessions within the limit. `clean` is history: since the last
quiet selection things were asked for one at a time and nothing failed behind the page's
back. Left out: the text shown while a stream runs, which belongs to no list, and the
reload of the sidebar, which may only take sessions off it.

## Runs

| Run | Instance | Shows |
|---|---|---|
| `chat_turn` | one request, every call, 3 steps | the committed rows agree with what the caller was told and with what the run did; refines `TurnStore`; every caller is answered |
| `agents` | plans: bounds 1 to 3, replies of up to 4 steps, up to 3 wanted steps; runs: every setting, 4 chunks, `TopK` 3, 3 ids named, 2 retries | plans are bounded and ordered, verdict and answer agree with the results; calls refine `ModelCall`, planner and reranker never fail the run, fusion keeps the best and reranking all, the audit row tells the run |
| `documents` | requests: 2, 1 document in any earlier state, 3 users, 1 chunk; chunkers: both, texts of up to 7 characters, window 3, sizes up to 5, overlaps from 0 | documents are whole, answers readable, deletion is for good; refines `DocumentLife`; every request ends; no text lost by either chunker where chunks overlap, every cut moves on, recursive chunks fit |
| `accounts` | 2 requests, 1 earlier account of any kind or none, 2 emails, 2 usernames | tokens act as what their account was, patches merge; refines `AccountBook`; every request ends |
| `mcp` | tools: every name, role and validity, the demo server alone, before and after a second of any kind; transport: 4 calls, 3 children | audit rows tell the truth, roles are kept under every name; at most once, own answers, no child left; refines `CallOnce`; every call returns |
| `chat_client` | 2 sessions, one of them old, 2 messages, 2 listings at once, limit 3 | the page shows whole turns, the transcript again when quiet; a window that sends can send again |

Three runs check two modules each, which share no state and know of each other only what
a constant or a choice of outcomes says (`MCAgents`, `MCDocuments`, `MCMcp`). A
behaviour runs the one that `which` names and the other stands at one of its initial
states, so each property is checked of every behaviour of its own module.

Why the bounds are enough. Chat requests share no row, so one shows every
interleaving of a handler with its environment; three steps make a plan with a
tool row before, at and after a failing step. Replies one longer than the largest
bound reach every cut. A window of 3 puts break points before, at and after the
overlap. Two requests on one document are every pair that can disturb each other
(a third would wait for the same row lock); two on one account and its new rivals
likewise. Four calls on three children let a child serve two calls and then be
replaced, twice. Two servers are enough for one to be silent, to change or to be
asked before the other; what they offer includes tools named like the demo server's,
two of one short name, one of a builtin tool's name, and one whose own role and whose
server's role differ. Four chunks in two rankings of
three make a fusion longer than the cut, with ties; two retries, a first, a middle and
a last attempt. Two sessions and two listings are a late answer for another session,
two messages a turn before and beside another; a limit of 3 cuts the second turn in
two. `agents` takes the chunks as symmetric: no action or property names one.

`CHECK_DEADLOCK FALSE` where a model has a bounded number of requests and stops when
they are over; in `agents` a run that is over may stutter (`Stopped`) instead, and in
`chat_client` the user can always go on, so there deadlock is checked.

Type invariants are proved for every value of the constants and not checked again by
these runs.

Runs that TLC must find violated, each a disagreement between a comment, a
docstring or the documentation and the code (`findings` in `PROJECT.json`):

| Run | The code or its documentation says | It does |
|---|---|---|
| `chunker_loops` | "Prevent infinite loop" | a break point within the overlap of the start loops for ever |
| `failure_is_recorded` | "Update document status to failed" | the same exception rolls it back |
| `only_owners_delete` | "仅文档所有者可以查看、搜索和删除" (only the owner can view, search and delete a private document) | an admin deletes it |
| `each_call_audited` | "Write AuditLog for each invocation" | a tool that raises leaves no row, and a call answered 404 loses its own |
| `errors_are_typed` | "Invalid JSON in response" is a `ProviderResponseError` | it raises the parser's `ValueError`, and JSON of another shape a `TypeError` |
| `history_shown` | "选择会话后显示消息历史" (choosing a session shows its message history) | a late listing of another session fills the page |

One more disagreement is stated by a property that holds: with `RAG_CHUNK_OVERLAP=0`
`TextChunker` keeps only the first chunk of a longer text (`CoversText` of `documents`).
Seen while modelling and in no property: a message answered 201 is lost when its commit
fails (`CommitFails` of `ChatTurn` after `Respond`).

`AuditMatchesRun` of `ChatTurn` says of `tool.invoke` rows that every call that returned has
one and that none is of no call. A call that raised may have a row or not: the code leaves
none, and `each_call_audited` reports it.

## Fairness

Liveness is checked under weak fairness of the handlers' own steps: the event
loop resumes every coroutine whose awaited call has returned, and awaited calls
have time-outs or are local statements. A request waiting for a row lock or a key
is not enabled, so nothing is assumed of it but that it goes on when the lock is
free. Nothing is assumed of clients, of failures, nor of crashes.
In `StdioTransport` the caller goes on, its time-out fires, and a process that is
told to stop ends (`Kill` after `terminate` or `kill`); nothing is assumed of the
child's work. In `ChatClient` the server ends every message it runs, which
`EveryCallerAnswered` of `ChatTurn` shows, and the browser reports an answer or its
loss; users, listings and commits may stop anywhere. `AgentRun`, `PlanExecute` and
`ToolCalls` state no liveness: their steps follow one another without a loop that
could go on, `AgentRun`'s retries being bounded.

## Proofs

Each `*Proofs` module states an inductive invariant, proves that `Init` establishes
it and every step of `Next` keeps it, with one lemma or step per action, and draws the
theorems from it; `theorems` in `PROJECT.json` lists them. They hold for every
value of the constants that meets the named assumptions.

- `ChatProofs`, about `ChatTurn`: the type invariant, the four safety invariants and the
  refinement of `TurnStore`. `Stage(r)` says, for each `pc`, which rows are pending; the
  invariants alone say nothing of rows not yet committed. About `ChatClient`:
  `ShownIsWhole` and `QuietScreenIsRight`, from `PageInv`: the rows, the transaction and
  the reply of each turn agree (`TurnsInv`); neither the list nor a listing on its way
  holds an answer without its question, unless `Limit` parts them, or half a turn that
  is not stored (`PageWhole`); and while `clean` at most one thing is under way and a
  quiet screen holds what is visible of its session (`OneAtATime`). The last is stronger
  than `QuietScreenIsRight` in what it says of turns not yet committed, without which
  the commit of one would have to change the screen.
- `PlanExecuteProofs`: the type invariant and the four invariants that are checked, from
  lemmas about `Prefix`, `Trim` and `ByLLM`; `Stage` ties the results to the plan's
  steps.
- `ChunkerProofs`, about `TextChunker`: the type invariant, `CoversText` and `ChunksFit`
  for every configuration `__init__` accepts, `MovesOn` for roomy ones. The invariant:
  with an overlap, what is before `start` plus the overlap is covered; without, the loop
  never starts its second round. About `RecursiveChunker`: `RecursiveKeepsAll` and
  `RecursiveMovesOn`, for every configuration `__init__` accepts. `RecursiveInv` says of
  what is made so far, the current chunk included, what `RecursiveKeepsAll` says of the
  result: it is in order, fits, and holds every word before `place`; and that nothing of
  it reaches behind `place` but the rest of a line that is being cut (`Bounded`),
  without which the next piece might repeat text. The lemmas under it say what one more
  chunk (`ChunkAdded`), one more part of a chunk (`PartAdded`) and the next piece of a
  split (`PieceFacts`) are like. `OneChunkerWorks`: beside the recursive one
  `TextChunker` meets its own specification, so its theorems hold for the specification
  that is checked.
- `DocumentStoreProofs`: the type invariant, the three safety invariants,
  `OnlyEntitledDelete` and the refinement of `DocumentLife`. `RInv(r)` says what a row
  written at each point looks like and that a delete's row is still its own; `Distinct`,
  that two uploads never share an id.
- `AccountsProofs`: the type invariant, `ActsAsItIs`, `ChangesOnlyAsked` and the
  refinement of `AccountBook`. `Apart` says that two open transactions never hold
  clashing rows or the same account: the locks at work.
- `StdioTransportProofs`: the type invariant, `OneChild`, `QuietBetweenCalls` and the
  refinement of `CallOnce`. The invariant follows the one request under way: unread, in
  the child's hands, or answered (`Serving`), and nothing at all between calls
  (`Silent`).
- `ToolCallsProofs`: the type invariant and the two safety invariants that are checked,
  for servers with names of their own; and that aliases agree, when also no server lists
  two tools of one short name. What a call does follows from the table, so `Table` is
  the heart: every entry is of a server asked already, whose transport is the one of its
  name and whose role it carries (`Placed`), below its proper name or its alias
  (`Named`). `Pending` says that what is still to register replaces nothing when
  `OwnShorts` holds, on which the aliases rest.
- `AgentRunProofs`: the type invariant, `OnlyTheseFail`, `RowTellsRun`,
  `FusionKeepsBest`, `RerankKeepsAll`, and that calls refine `ModelCall`. `CallInv` says
  that while a call is under way all it met are errors of the server, as many as
  `attempt` counts. `RunInv` says, for each `pc`, which calls the log holds and for
  what, and what the decision and the tool have left: without it nothing ties the audit
  row to the calls of before. `Lists` says that each of the three lists names chunks,
  none twice. For the fusion, that a chunk which both searches rank above another has
  the greater sum (`DominatesScores`, on fractions), and that an order of a finite set
  by an irreflexive relation names all of it once (`OrderFacts`), so the cut takes the
  worse chunk first. `ListsComeOut` shows these theorems are about something: score and
  place are a total order, and so is the reranker's, hence an order of any finite set of
  chunks exists (`OrderExists`).

Only model-checked: the liveness properties `EveryCallerAnswered`,
`EveryRequestEnds`, `EveryCallEnds`, `EveryCallReturns` and `SendingEnds`, which are out
of the prover's reach. Every other property of a run that passes is a theorem. Where the
model would have computed a list by a fold or a sort, about which nothing can be proved
here without induction over data, it says instead what the list is like (`InOrder`) or
takes the loop round by round (`RecursiveChunker`).

## Not modelled

`components` in `PROJECT.json` lists every part with its reason. Left out for
good: password hashing and JWT encoding, parsing libraries behind the loaders,
logging, start-up, metrics, declarations of schemas and tables, `IngestionPipeline`
(which the application does not use), the dashboards of the admin. Scores of a search
and texts of prompts are data no property tells apart. Of the frontend only the chat
page is modelled. Not yet: the plan.

## Plan

Done: `TurnStore`, `ChatTurn`; `PlanExecute`; `TextChunker`, `RecursiveChunker`; `DocumentLife`,
`DocumentStore`; `AccountBook`, `Accounts`; `CallOnce`, `StdioTransport`;
`ToolCalls`; `ModelCall`, `ProviderRetry`, `RagAnswer`, `AgentRun`; `ChatClient`; the
theorems on all their safety properties. Next:

1. What the liveness properties rest on, as far as it can be proved: for each handler a
   measure that every step of its own lowers.
2. The manager's `health_check` and the admin's list of servers.
