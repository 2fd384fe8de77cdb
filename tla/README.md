# gubbi in TLA+

gubbi is a multi-tenant journal server: an MCP endpoint and a REST API over
PostgreSQL, an ingest endpoint that takes exported conversations, an arq worker
that extracts journal entries from them with an LLM, and two ways of
authenticating (a self-hosted OAuth server on SQLite, or an external Hydra).
This directory holds TLA+ models of the parts of it whose correctness depends on
the order of things, the TLC runs that check them and the TLAPS proofs about
them. Paths below are relative to `src/gubbi/`.

## Inventory

| component | state it keeps | operations | what is hard |
|---|---|---|---|
| ingest endpoint `api/v1/ingest.py` | one request's counters, its list of jobs to enqueue | dedupe pre-check, TXN 1 (conversation), pre-charge, TXN 2 (job row), enqueue loop | five transactions and two Redis calls per conversation, each of which can fail alone; racing requests |
| job repository `storage/repositories/extraction_jobs.py` | `extraction_jobs` rows | create, mark running / completed / failed | a partial unique index that inserts *and* revivals can violate; status guards instead of locks |
| worker job `extraction/jobs/extract_conversation.py` | the attempt's locals, `processed_at`, entries | three phases, three exits, outer except | re-runs after crashes and stops, a time-out that bypasses `except Exception`, two idempotency checks, refunds outside the transaction |
| orphan sweeper `extraction/orphan_cleanup.py` | its place in the cycle, rows still to refund | pending sweep, running sweep, refunds | races live workers and queued jobs; dies with the API process |
| arq (external), configured in `extraction/worker.py` | queue, in-progress keys, try counters | pick-up, finish, give-up, time-out, stop | keys outlive a crashed worker |
| entries and vectors `storage/repositories/entries.py`, `tools/entries.py`, `api/v1/web/entries_admin.py`, `tools/conversations.py` | `entries.indexed_at`, `entry_embeddings` | append, update, delete, linked upsert, best-effort embedding after each | the vector is computed between transactions; stamp and vector are written by different ones |
| reindex `tools/admin.py` | a cursor and a claimed batch | claim, encode and save, compensating reset | claim stamps first, so failures must un-stamp; several passes |
| conversations and archive `storage/repositories/conversations.py`, `tools/conversations.py` | rows, messages, linked entries, JSON files | save, delete superseded file, read | files and rows are not one transaction; readers take row and messages in two statements |
| self-host OAuth `oauth/*` | codes, access and refresh tokens, attempts | exchange, rotate, revoke, clean up, rate limit | rotation races, multi-statement revocation; counting and recording an attempt are apart |
| Hydra introspection `auth/hydra.py` | TTL cache, in-flight calls | introspect | one shared call per token, cancelled leaders and waiters, stale answers |
| auth strategies and scopes `auth/*`, `middleware/auth.py`, `api/v1/auth.py`, `tools/registry.py` | none per request | decide | who decides when several strategies could; three places that read scopes |
| configuration and scaffold `config.py`, `users/bootstrap.py`, `bootstrap/*` | settings, the operator's user row | validate, scaffold, resolve | replicas that boot together, deletion of the operator |
| topics `storage/repositories/topics.py`, `api/v1/web/topic_admin.py` | topic rows, the rows' topic ids | create, rename, delete with reassign, merge, move | concurrent appends, foreign keys |
| event stream `api/v1/extraction.py` | per-user count of open streams in Redis | open, refuse, close | three Redis calls, key expiry, crashes |
| key rotation `scripts/rotate_encryption_key.py`, `crypto/cipher.py` | batches of rows under two keys | rotate, resume | read-then-write against live writers |
| search `services/search.py`, `storage/repositories/search.py` | one call's hits | search twice, merge, hydrate, rank | rows deleted and statements failed between the steps |
| lifespan `main.py`, `bootstrap/*`, `extraction/worker.py` | pools, clients, background tasks | start, tear down | failure of any step |
| audit `audit/decorator.py` | audit rows | write, in-band or after the call | a call can commit and then raise or be cancelled |
| lists `api/v1/web/*`, `tools/*` | none; the client's offset | page | the list changes between pages |
| telemetry, string validation, LLM providers | none the program decides on | | |

How they interact: ingest writes `conversations` and `extraction_jobs` and hands
job ids to arq; arq starts the worker job, which reads and writes the same rows;
the sweeper, a background task of the API process, rewrites rows behind both;
all three move one budget in Redis (pre-charge, actual cost, refund). The worker
appends entries through the repository that the tools use; tools, web handlers
and reindex passes share `entries` and `entry_embeddings`. Nothing in the
program locks across these parties: correctness rests on unique indexes, status
guards in `WHERE` clauses, the order of transactions, and time thresholds.

What makes each component correct, in one line each: a slot has one active job
and a job's entries are written once; a completed row is processed and stays
completed; a job never runs before its row exists; a pre-charge is settled;
every row is closed in the end; a stamp means a current vector; a pass embeds
what it owes and ends; a row's `json_path` exists on disk and row, messages and linked entry are of one save; a login
has one live refresh token and a finished revocation leaves nothing behind; nobody is accepted
on an answer older than the cache allows; a topic goes away only with its rows
carried over; no interleaving admits more streams than the cap; a rotation loses
no text but one it overtook and a finished one covers its table; the sweeper
never runs without its pools; replicas agree on the operator; the order of the
strategies does not decide who a caller is; a window admits no more attempts than
the limit and the requests in flight; pages partition a list that stands still;
every audit row has a commit.

## Modules

| module | models | state |
|---|---|---|
| `ExtractionJobs` | the job repository as operators on a table, the unique index, the sweeps' UPDATE | - |
| `ExtractionPipeline` | ingest, worker job, sweeper, the arq behaviour they rely on, faults and time | `job`, `conv`, `req`, `queue`/`lease`/`tries`, `att`, `sweeper`, history |
| `JobLifecycle` | what the pipeline promises about a job row and `processed_at` | `status`, `slot`, `done` |
| `ExtractionPipeline_proofs` | theorems about job rows and the refinement | |
| `PipelineAccounts_proofs` | theorems about settlements, entries, counts and the sweep | |
| `EntryIndex` | tools, web handlers and reindex passes over `entries` and `entry_embeddings` | `entry`, `emb`, `tool`, `pass`, history |
| `EntryIndex_proofs` | theorems about entries, vectors and passes, and about `HybridSearch` | |
| `OAuthTokens` | codes, token pairs and the requests to `/login`, `/token` and `/revoke`, restart and clean-up | `codes`, `access`, `refresh`, `linked`, `codeAge`, `pair`, `req`, history |
| `OAuthTokens_proofs` | theorems about codes and tokens | |
| `ConversationArchive` | saves of conversations with their files, and their readers | `row`, `platform`, `messages`, `entry`, `disk`, `rowLock`, `save`, `read` |
| `SavedConversations` | what the archive promises: saves that take effect in one step | `row`, `transcript`, `text`, `holder`, `archived`, `used`, `answer` |
| `ConversationArchive_proofs` | theorems about rows, files, saves and readers, the refinement, and about `ListingPages` | |
| `Topics` | topics, and every way in which rows get into or out of one | `path`, `minted`, `home`, `hidden`, `shelf`, `call` |
| `Topics_proofs` | theorems about moved rows and dropped topics, and about `RowLocks` | |
| `KeyRotation` | the rotation script on one column, beside servers | `cell`, `unborn`, `script`, history |
| `Introspection` | Hydra introspection: cache and shared calls | `tick`, `dead`, `cached`, `inflight`, `request` |
| `EventStreams` | the cap on a user's streams | `hour`, `counter`, `expiry`, `stream`, history |
| `ServerLifecycle` | startup and teardown of three processes | `mode`, `config`, `phase`, `step`, `opened`, `known`, `stuck`, `served` |
| `RowLocks` | the locks that write transactions take on rows of topics, conversations, messages, entries and vectors, in order | `kind`, `prog`, `locks` |
| `HybridSearch` | one search while entries are deleted | `keyword`, `near`, `corrupt`, `live`, `search` |
| `DeployShapes` | settings, boot of replicas, strategies, scopes | `settings`, `booting`, `bound`, `users`, `deleted` |
| `Access_proofs` | theorems about `Introspection`, `DeployShapes` and `AttemptLimit` | |
| `AttemptLimit` | the attempt limits of login and registration | `page`, `at`, `events`, `attempts`, `unrecorded`, `clock` |
| `ListingPages` | a client paging through a changing list | `sort`, `newestRow`, `key`, `walk`, `offset`, `shown`, history |
| `AuditTrail` | writes, their answers and their audit rows | `op`, `stage`, `committed`, `recorded`, `counted`, `answer`, `alive` |
| `Operations_proofs` | theorems about `AuditTrail`, `KeyRotation`, `EventStreams` and `ServerLifecycle` | |
| `MCExtractionPipeline`, `MCEntryIndex`, `MCOAuthTokens`, `MCJournal` | instances for TLC | |

### ExtractionPipeline

A PostgreSQL transaction is one action; whatever the code does between two
transactions is a control state (`pc`), so every `await` that another party can
use is a place where it can act. Phase 3 of the worker is the exception: it reads
`processed_at` and commits later in the same READ COMMITTED transaction, so it is
two actions, `Phase3Write` and `Phase3Commit`, with the budget delta applied in
the first, before the commit, as in the code.

- `req[r]` is one POST: `todo` the conversations left, `cur` the one in hand,
  `enq` the job ids collected in `enqueue_tasks`, `sent` those already enqueued,
  and the counters of the response. The conversations of a body are taken in any
  order (the code's order is the client's).
- An upload is (platform id, conversations row, platform). The row stands for
  `UNIQUE (topic_id, slug)`: two uploads with one title are one row. There is one
  user; row-level security keeps users apart.
- `SaveConversation` is TXN 1 with both outcomes: commit, or the violation of
  `idx_conv_platform_dedup` when another row holds the platform id.
- `CreateJob` needs a free slot. When the slot is taken, only `Txn2Error` can
  happen: `create_pending` does look up the existing job, but in a transaction
  that PostgreSQL has already aborted, so the lookup raises as well and the
  branch that would reuse the job is never reached
  (the skipped test in `tests/storage/repositories/test_extraction_jobs.py:125`
  records the same fact).
- `att[j]` is the coroutine that runs job `j`: its place, the quanta left until
  `job_timeout`, and `known`, the code's `_period_start_known`. `Timeout`,
  `WorkerStop` and `WorkerCrash` end it at any point with no handler running:
  `CancelledError` is not an `Exception`.
- `lease` and `tries` are arq's in-progress key and try counter. arq is external;
  the model keeps what decides whether and when a job runs again: a finished or
  raised job is deleted, a stopped worker leaves it queued and frees the key, a
  crashed worker leaves the key until it expires, `max_tries` ends it.
- `sweeper.next` is the sweep that comes next, `sweeper.owed` the rows whose
  refund loop has not come round yet.
- `settled[j]` counts applications of `record_actual_cost` for the job's
  pre-charge, `writes[j]` its committed batches of entries. `marks[j]` is history:
  a refund that was dropped, an attempt that was interrupted, a phase 3 that was
  rolled back after its delta, a sweep. No guard reads any of them.

### JobLifecycle and the refinement

`JobLifecycle` has no queue, worker, clock or fault: rows are created into free
slots, start from pending or failed when their conversation is not processed,
complete together with `processed_at`, fail, and are final when completed.
`ExtractionPipeline` implements it under
`status <- job[j].status`, `slot <- <<conv, source>>`, `done <- processed
conversations`. `ProcessOnly` is there because it happens: a row failed by a
sweep while its worker is committing stays failed and its conversation becomes
processed.

### EntryIndex

A vector is represented by the text it was computed from, so "stale" is
`emb[e] # entry[e].text`. Every transaction is an action, except the re-embed
transaction of an update, which compares the text without locking the row and
writes afterwards (`CompareText`, `StoreUpdated`). `GiveUpEmbedding` stands for a
failed encoding, a failed transaction and a dead process alike: the row stays as
it is. `Claim` chooses which rows are locked by open transactions (SKIP LOCKED)
among all rows it could select, since an open transaction is not a state of the
model. Ids of new rows come in any order, because they commit in any order.
`raced` and `lost` are history: vectors stored for a text the entry no longer
had, and stamped rows that nobody is going to embed. `owe`, in a pass, is history
too: rows unindexed when it began and touched by nobody else since.

The texts tell (content, reasoning) pairs apart. That an update embeds content
and reasoning while append and reindex embed the content alone is abstracted
away: it changes the meaning of a vector, not whether it is current.

### OAuthTokens

A method of `OAuthStorage` holds the storage's `asyncio.Lock` and commits once, so
it is one action; `OAuthProvider` awaits one after the other, and between two of
them a request is at a `pc`. Access and refresh tokens are only ever issued
together with one row of `token_pairs`, so a pair id `p` stands for the three:
`p \in access`, `p \in refresh` and `p \in linked` say which of them are still in
their tables. Revoking takes four calls: read the row (`FindPaired`, `found` is
what it returned), delete the token, delete the row (`Unlink`), delete the
counterpart (`DropPaired`). Rotation is one transaction.

Tokens are random, so an issued pair is new. Ages are counted from issue; a
loader and the clean-up reject at `expires_at < now`, so a token of age TTL still
passes. `cleanup_expired` runs only in `setup_oauth`, hence inside `Restart`,
which also ends every request. `Abort` is an exception of a storage call.
Refused requests that change nothing (unknown token, foreign client of a refresh
token) are left out; a foreign client of a code is not, since it burns the code.
The order in which `/revoke` asks the two loaders, and its client check, belong
to the MCP library and are external: `LoadToken` allows both.

`halted`, `revoked` and `doubled` are history: pairs whose revocation stopped after
its first deletion, pairs whose revocation returned, and codes of which a code or
refresh token was used by a second request that had loaded it before the first
used it. `delete_auth_code` and `rotate_refresh_token` do not look at what they
delete, so this happens, and each of the two requests gets a pair; the properties
say what holds apart from it. No guard reads a history variable.

### ConversationArchive

A save stands for everything fresh it makes: its file (uuid4), its batch of
messages, its text. `row[c] = s` is a row whose `json_path` and content are those
of save `s`. A transaction's writes show at `CommitSave`; its upsert takes
`rowLock` until then, which is all that serialises two saves of one title. The
old `json_path` is read before, with no lock (`PrepareFile`), so two saves may
hold the same one. READ COMMITTED: a statement sees what is committed when it
runs, hence `seen` (the messages the DELETE found) and the two steps of a reader.
`FailSave` stands for every way in which a transaction does not commit, and
`heard` for a caller that dies with its commit. `prev` and `rank` are history.

`SavedConversations` is the same store with no transactions, locks, failures or
files to clean up: `Take` changes row, transcript, linked text, platform id and file
in one step, at most once for each save and only with a platform id that no other
conversation has; a conversation never loses its archive; a reader sees a row and
later one whole transcript of it (`See`, `Get`). In `ConversationArchive`'s instance
of it the transcript is `messages`, the text what the linked entries say, the holder
`platform`, a conversation is archived when the file its row names is on disk, and a
save is used up once it has committed. `CommitSave` is then `Take`, the reader's two
statements are `See` and `Get`, and every other step changes nothing one could see.

### Topics

A reassignment is four steps (`BeginDelete` or `BeginMerge`, `MoveConvs`,
`MoveEntries`, `DropTopic`) and a commit; its writes show at the commit and lock
their rows until then. Row locks and the waits of foreign key checks are guards
(`EntryFree`, `ConvFree`, `TopicFree`, `HeldAsDst`); aborting a waiter is
`Refuse`. Appends, saves and moves look their topic up in one statement and write
in another. `late` is history: what came into a topic after the reassignment had
moved, or counted, the rows it found. A `blocked` request is the
ForeignKeyViolation that no handler catches.

### KeyRotation, Introspection, EventStreams

`KeyRotation` is `_rotate_table` on one of the five columns: `read` is what the
SELECT returned, `written` the rows its open transaction has updated and locks.
Servers hand out ids before their rows are committed (`unborn`), edit in any of
their active versions, and delete. Rows may fail to verify, the environment may
lack the old key, the script may be started again after any crash.

`Introspection` takes what happens between two awaits of `introspect` as one
step, which `_inflight_lock` and the event loop guarantee. A waiter awaits the
shared future itself, so its cancellation cancels the future.

`EventStreams` has INCR, EXPIRE, the comparison and the DECR as separate steps,
a key that expires (an EXPIRE that comes after that does nothing, an INCR or DECR
makes a key without a time to live), and streams that never decrement (bounded by `LastMissed`).

### ServerLifecycle and RowLocks

Startup is a sequence of steps that open a resource inside a helper (`Opens`),
open it and keep the handle (`Takes`), are handed what a helper opened
(`Handed`), or only may fail (`Check`). Teardown closes what it has a handle of:
unwinding suppresses errors, a plain `finally` ends at the first.

`RowLocks` reads a program of lock requests off each transaction's statements;
nothing else of the transactions is in it. `Programs` lists, in fifteen kinds, the
transactions that write rows of topics, conversations, messages, entries and
vectors:

| kind | code |
|---|---|
| `append`, `update`, `delete`, `move` | the entry repository's functions of these names |
| `patch` | `update_entry` of the REST API: text and topic in one transaction |
| `reembed` | the vector of an update and its stamp (`tools/entries.py`) |
| `save`, `first` | `save_conversation` of a conversation that exists, and of a new one |
| `persist` | phase 3 of the worker |
| `rename` | rename of a topic, and deletion of an empty one: one row |
| `merge` | `delete_with_reassign` and `merge` |
| `reset` | `reset_indexed_at` and `reset_indexed_at_for_ids`: one UPDATE of many entries |
| `rotate` | one batch of the key rotation: an UPDATE per row, by ascending id, of one table |
| `claim` | `get_unindexed` with SKIP LOCKED, then `mark_indexed_batch`: it never waits |
| `single` | transactions over one row: a vector stored, a stamp, `mark_processed`, an INSERT that only shares a parent's key |

A statement over several rows takes them in any order, except where the rows are
written one by one in a loop. The advisory lock of the full reset only keeps full
resets apart; the compensating reset of a reindex pass does not take it. Out of
scope are waits of another sort: for a transaction that has inserted the same unique
key (two first saves of one title, two topics of one path) and for rows of
`extraction_jobs`.

### HybridSearch, DeployShapes, AttemptLimit, ListingPages, AuditTrail

Keyword ranks and similarities are any numbers up to `TopRank`, so every query is
covered. A list of hits is a set: each hit carries its rank and its `place` in the
merged list (keyword hits first, from 1; vector hits from `Limit + 1`), and sorting and
cutting is counting who outranks whom (`Best`). Rows of one rank come in any order
(`Placings`). `aborted` is the transaction state that a swallowed PostgresError leaves
behind. In `DeployShapes` the settings are a set of flags, validated as in
`config.py`; a caller is a kind of bearer token and a kind of gateway envelope.
`AttemptLimit` numbers the rows of one time, since only how many there are in a
window matters. `ListingPages` reduces a row to whether it is in the list and to
its sort key; the list's order is given by each row's rank, the number of rows that
come before it. `AuditTrail` follows each call from its transaction to its answer
and its audit row.

## Runs

| run | instance | shows |
|---|---|---|
| `pipeline_calm` | 2 requests, 2 jobs, 2 titles with one platform id, 2 tries, no process dies | `OneActivePerSlot`, `EntriesAtMostOnce`, `SweepSparesLiveJob` |
| `pipeline_faults` | 1 request of 2 uploads of one title, 1 job, one crash, one stop, one API restart | `CompletedMeansProcessed`, `WorkerNeverAheadOfRow`, `EntriesOncePerJob`, `DoubleSettleHasCause`, `ResponseAccounts`, `ImplementsLifecycle`, `EventuallyClosed` |
| `pipeline_platforms` | 1 request of 2 uploads of one title from 2 platforms, 2 jobs | `NoSilentCharge` where two jobs of one conversation work at once and one bails out of phase 3 |
| `sweep_running` | one crash | violation of `SweepSparesLiveJob` |
| `two_sources` | one title from two platforms | violation of `EntriesAtMostOnce` |
| `sweep_pending` | no fault at all | violation of `PendingSweepTakesLostEnqueues` |
| `index_passes` | 3 rows, batches of 2, one tool call, one pass | `PassDrains`, `PassEnds` |
| `index_races` | one plain and one linked entry, 2 texts, 2 tool calls, one pass | `TypeOK`, `StampMeansCurrent` |
| `oauth_tokens` | 1 code, 3 pairs, 2 requests, any number of aborts and restarts | `RevokedMeansGone`, `AccessHasRefresh`, `OneLiveRefresh`, `UsableTokensKept` |
| `journal_parts` | each of the twelve parts from `ConversationArchive` to `AuditTrail`, below | `FilesMatchRows`, `OneSaveThroughout`, `ImplementsSaves`, `BlockedByLateRows`, `DropCarriesRows`, `TextsKeptUnlessOvertaken`, `FinishedRunCovers`, `AcceptedWhileAlive`, `FlightsLed`, `CapUnlessForgotten`, `TeardownCovers`, `DeadlocksKnown`, `HitsExplained`, `OperatorAgreed`, `AnswersFitShape`, `LimitHolds`, `PagesPartition`, `AuditFollowsWrites` |
| `index_stale` | 2 updates of one entry | violation of `NoStaleVector` |
| `index_append` | append and update of one entry | violation of `ReindexWouldHeal` |

Bounds. Time is counted in quanta of `job_timeout` (10 minutes); `AgeCap` is one
above the largest threshold, and no guard tells larger ages apart. The running
threshold is two quanta by definition; the pending threshold (30 minutes) three
in the instances that depend on it, two in `pipeline_faults` and
`pipeline_platforms`, where only its being finite matters. arq's in-progress key lives as long as the job's deadline
and a little more: two quanta. Two requests and two jobs are enough for every
race on a slot, since a slot has two contenders at a time; `MaxTries`, normally
five, is two, so one re-run and the give-up both happen. Each fault is bounded by
one because every property is about one job and its neighbour; the violations
show that one fault suffices. `EntryIndex` needs no bound on calls: texts are a
finite set and an entry may return to an earlier text. In `OAuthTokens` two
requests are enough for every race, since each property is about two requests on
one pair or one code; three pairs allow a rotation by each of two requests, or a
rotation of a rotated pair. Lifetimes are 0, 0 and 1 with ages up to 2: an access
token (an hour) and a code (five minutes) expire before the refresh token (thirty
days), and "accepted", "expiring now" and "expired" are three different ages.
Aborts and restarts need no bound.

`journal_parts`. The twelve parts share no state, so one run checks them side by
side: `part` is chosen at the start and never changes, the other eleven stay in an
initial state, and the state space is the sum of theirs, not the product. A part
that never finishes stutters no one: each is a complete specification with an
`Init`, `Next` and `Spec` of its own. Their bounds:

| part | instance | why it is enough |
|---|---|---|
| archive | 3 saves, 2 titles, 1 reader, 1 platform id | two saves race, the third follows or fails; a reader spans two commits |
| topics | 2 topics, 2 paths, 2 entries, 1 conversation, 2 requests | two reassignments in opposite directions, or one against an arrival |
| rotation | 2 rows, 2 texts, batches of 1, servers in the old and the new version | a second batch, a row edited between SELECT and UPDATE, any number of runs |
| introspection | 1 token, 3 requests, TTL 2, flight 1, 4 ticks | leader, waiter and late comer; an entry is stored, expires and is stored again |
| streams | 3 requests, cap 2, one missed decrement, expiry after one tick of 2 | one request more than the cap |
| life | all three processes, both optional resources | complete |
| locks | 2 transactions of fifteen kinds, 2 topics, 2 entries, 1 conversation of 2 messages, statements over up to 2 rows | a deadlock takes two transactions and two rows; rings of orderly writes are excluded by a statement about pairs (whoever blocks one that has locks waits for a row further on) |
| search | 3 entries, 1 conversation, ranks 0 to 2, limit 2; the conversation or every entry does not decrypt | either search has more than it may return, ties, and an entry cut by the vector search behind entries that are listed by their keyword rank |
| deploy | all settings, 2 replicas, 2 user ids | two rows cannot be agreed on by chance |
| attempts | limit 2, 2 requests in flight, window 2, clock to 3 | two windows overlap, a restart prunes in between |
| pages | 3 rows, 2 keys, pages of 1 | three pages, ties, a row that enters, leaves or moves |
| audit | 2 writes of ten kinds | one write deletes the other's entry |

`SweepSparesLiveJob` and `EntriesAtMostOnce` hold in the calm instance and fail in
the two violation runs: the passing run says under which circumstances the
thresholds and the idempotency checks do their work (nobody dies; one platform
per title), the violations what breaks them.

### What the violations show

1. `sweep_running`. `mark_running` is a no-op on a row that is already running,
   so the re-run after a crash inherits `started_at` of the first attempt. The
   running sweep, "well past any legitimate completion", then fails the row of a
   live worker and refunds it; the entries are committed all the same and the row
   says failed.
2. `two_sources`. The same title from two platforms selects one conversations
   row but two slots. Both jobs pass the second idempotency check, which reads
   without a lock, and both commit their entries.
3. `sweep_pending`. The pending sweep cannot tell a lost enqueue from a long
   queue: a queued job is failed and refunded, then revived and charged.
4. `index_stale`. Between the comparison and the save of a re-embed an update can
   commit; the old text's vector is stored after the update deleted it, and
   stamped.
5. `index_append`. Append stamps in a transaction of its own; an update in
   between leaves a stamped row with no vector, out of any reindex pass's reach.

### Fairness

`pipeline_faults` assumes that the clock advances, that arq enforces
`job_timeout`, that the sweeper's loop keeps coming round, that its refund loop
goes on, and that database errors do not hit the second sweep of every cycle
(strong fairness of the running sweep). The loop catches `PostgresError` and
`OSError` and never returns; other exceptions would end it, and the model does
not include them. Nothing is assumed of the worker, of requests or of Redis:
`EventuallyClosed` says that the sweeper alone is enough. `index_passes` assumes
only that a pass, one coroutine, takes its steps; encoding may fail for ever and
tools may interfere for ever. Over an ever-growing table a pass could follow
newly appended rows for ever; the model's set of ids is finite.

## Proofs

`ExtractionPipeline_proofs` proves, for every set of jobs, requests, uploads,
conversations and every value of the thresholds and fault bounds that satisfies
`ConstantsAssumption`, `AgeCapAssumption` and `NoneAssumption`:

| theorem | statement |
|---|---|
| `TypeCorrect` | `Spec => []TypeOK` |
| `Invariance` | `Spec => []IInv` |
| `SlotSafety` | `Spec => []OneActivePerSlot` |
| `CompletionSafety` | `Spec => []CompletedMeansProcessed` |
| `EnqueueSafety` | `Spec => []WorkerNeverAheadOfRow` |
| `CompletionIsFinal` | `Spec => CompletedIsFinal` |
| `Refinement` | `Spec => ImplementsLifecycle` |

The argument. `TypeOK` alone is not enough: a step that closes a row needs to
know that the row is there and what it is for. `IInv` adds `UploadInHand` (a
request between taking up and TXN 2 has an upload), `RowsFilled` (a row that
exists has a conversation and a source), `EnqueuedRowsExist` (ids collected for
the enqueue loop belong to committed rows; without it `WorkerNeverAheadOfRow` is
not inductive), and `StartedAttempts` (an attempt past phase 1 has a row that was
started: neither absent nor pending). The last one carries
`CompletedMeansProcessed` and the refinement: `mark_completed` accepts pending
rows too, and only `StartedAttempts` excludes that a row completes without ever
having run. `OneActivePerSlot` rests on the fact that exactly two operations make
a row active, `create_pending` and `mark_running`, and both are subject to the
index. `IInv` was checked by TLC on the instances before it was proved. In the
refinement, `CreateJob`, `Phase1`, `MarkSkippedNoTopic`/`Phase3Commit`, the sweeps
and `MarkJobFailed` map to `Create`, `Start`, `Complete` or `ProcessOnly` or
`Fail`; everything else stutters. No run checks `CompletedIsFinal`: `JobLifecycle` has
no step that leaves the completed status, so `ImplementsLifecycle` contains it.

`PipelineAccounts_proofs` proves, from the same assumptions and from
`ThresholdAssumption` (a job time-out is no longer than the running sweep's
threshold, which `orphan_cleanup.py:62` defines as two of them):

| theorem | statement |
|---|---|
| `ChargeSettled` | `Spec => []NoSilentCharge` |
| `EntriesWrittenOnce` | `Spec => []EntriesOncePerJob` |
| `SecondSettlementHasCause` | `Spec => []DoubleSettleHasCause` |
| `ResponseAddsUp` | `Spec => []ResponseAccounts` |
| `EntriesOnceWhileCalm` | `Spec => [](Calm => ...)`: one batch of entries for a conversation of one platform, in every state before the first worker fault |
| `EntriesOnce` | `Spec => []EntriesAtMostOnce`, if `MaxCrashes` and `MaxStops` are 0 and each conversation has one platform |
| `LiveJobsSpared` | `Spec => SweepSparesLiveJob`, if `MaxCrashes` and `MaxStops` are 0 |
| `ActivationsBounded` | `Spec => RowsSettleDown`: a row can be made active `MaxTries + 1` times at most |

`EntriesOnce` and `LiveJobsSpared` have as hypotheses what the run that checks them sets; the runs with
faults and with two platforms show that without it both fail. Several accounts are
kept of one job, and the next-state relation has many steps: `JobSteps` says once
what any step of the system may do to one job (its row, its attempt, its
settlements, its writes), and each account is an invariant over that list.
`ChargeOk` says who still owes the settlement of a terminal row (the sweeper, or the
attempt that has yet to refund) and before which exits it is behind. `WriteOk`: a job
that has written has a processed conversation, and an attempt of it that comes later
stops at an idempotency check. `SettleOk`: a job settled once and left undisturbed is
neither run nor queued again, for which `EnqueuedOnce` is needed. `CalmInv` carries
the last three: while no worker has died, the age of a running row and the time its
attempt has left stay within the time-out together (`InTime`), so the sweep spares the
row (`LiveOk`), so the slot stays taken and no second job of the conversation gets to
write (`BatchOk`).

`ActivationsBounded` is the part of `EventuallyClosed` that needs no fairness: the
sweeper's work is finite. A swept row can come back to life, because `mark_running`
accepts failed rows, but each time costs one of arq's tries, and the counter starts
over only when the job has left the queue, to which one request sends it once.
`ActivationsLeft` counts the creation, the tries left and the one of an attempt that
has not begun; no step raises it, crashes, stops and restarts included, and each step
that makes a row active lowers it. TLC checked `RowsSettleDown` on the instances of
`pipeline_faults` and `pipeline_calm` before it was proved. That an active row is
closed in the end is then a matter of fairness alone, of the clock and the sweeper.

`EntryIndex_proofs` proves, for every finite set of entry ids, every set of texts,
calls and passes and every batch size that satisfies `IndexAssumption`:

| theorem | statement |
|---|---|
| `IndexInvariant` | `Spec => []IInv` |
| `IndexTypeCorrect` | `Spec => []TypeOK` |
| `StampsTruthful` | `Spec => []StampMeansCurrent` |
| `PassesDrain` | `Spec => []PassDrains` |
| `PassesShrink` | `Spec => PassesAdvance`: each step of a pass leaves it fewer steps, no other step leaves it more |

`StampMeansCurrent` is not inductive because append stamps a row in a transaction
of its own: what it stamps must already be accounted for. `VectorsAccounted` says
so of unstamped rows too, for unlinked entries (a linked upsert keeps the vector
of the old text and unstamps the row, and appends never touch a linked entry:
`ToolsAtWork`). `PassDrains` needs to know where the owed rows are: `OwedAhead`
puts them beyond the cursor while the pass claims, and beyond the batch or in its
unfinished part while it embeds; `ORDER BY id` and the cursor at the largest row
that succeeded carry it from one batch to the next, and a row that was reset lies
before the cursor. The existence of the minimum and maximum the walk uses is
proved from the well-foundedness of strict inclusion on finite sets.

`PassesShrink` is the part of `PassEnds` that needs no fairness. `StepsLeft` ranks a
pass by the rows ahead of its cursor first, and then by what is left of its round: the
whole table while it claims, the batch not yet embedded afterwards. Claiming and
embedding lower the second part; closing a batch moves the cursor to a row of it,
which by `BatchAhead` lies ahead, and what the next claim may add is less than one row
ahead is worth (`LessProduct`). Tools, other passes and aborts leave the number as it
is (`NotItsStep`), or end the pass: rows they reset behind the cursor do not turn it back. So a pass
cannot take steps for ever. What remains of `PassEnds`, that its next step is possible
and taken, is fairness and stays with TLC, which also checked `PassesAdvance` on the
instance of `index_passes` before it was proved.

The same module proves of `HybridSearch`, for all finite sets of entries and
conversations, all ranks, every limit and any choice of rows that do not decrypt, under
`SearchAssumption`:

| theorem | statement |
|---|---|
| `SearchInvariant` | `SearchSpec => []SearchInv` |
| `SearchExplained` | `SearchSpec => []HitsExplained` |

What an answer leaves out was decided in up to three places: by the keyword search, by
the vector search and by the last cut. `KeywordsOk` and `VectorsOk` keep the reason of
the first two until the third: a row that is not among the hits has `Enough` hits at
least as good before it, or, for the vector search, it is `Behind` as many nearer
entries, not all of which show it in their rank, since a keyword hit keeps its keyword
rank. `FirstPlaces` counts the rows of the first places of an order (a numbering of a
finite set is a bijection), which gives a full page for the backends (`HitsOfPlacing`)
and for the last cut (`BestFull`). The proof attempt corrected `BestHitsKept`: without
its second disjunct it held on two entries, the bound of the run at that time, and not
on three.

`OAuthTokens_proofs` proves, for every set of codes, pairs and requests and all
lifetimes that satisfy `TokenAssumption` (an access token lives no longer than its
refresh token):

| theorem | statement |
|---|---|
| `TokensInvariant` | `Spec => []IInv` |
| `TokensTypeCorrect` | `Spec => []TypeOK` |
| `RevocationIsComplete` | `Spec => []RevokedMeansGone` |
| `AccessStaysPaired` | `Spec => []AccessHasRefresh` |
| `RotationKeepsOne` | `Spec => []OneLiveRefresh` |
| `TokensLastTheirTime` | `Spec => UsableTokensKept` |

A revocation that finds no row stops after its own token. That this is right
needs `RowsKept` (two live tokens of a pair have their row; an access token without
one is another revocation's to delete) and `Progress`, which says the same of the
refresh token while a revocation that started from the access token is under way:
it may lose its row to a clean-up, but only over a restart, which ends the
revocation. `OneFamily` carries `OneLiveRefresh` back to the code: a code that can
still be redeemed has no family, and one request at a time is about to issue its
first pair. `UsableTokensKept` follows from `StaysExpired`: what a loader found
expired is so when it is deleted.

`ConversationArchive_proofs` proves, for every set of saves, titles, platform ids and
readers, under `ArchiveAssumption` (`Nothing` is none of them):

| theorem | statement |
|---|---|
| `ArchiveInvariant` | `ArchiveSpec => []ArchiveInv` |
| `FilesMatch` | `ArchiveSpec => []FilesMatchRows` |
| `OneSave` | `ArchiveSpec => []OneSaveThroughout` |
| `OneHolder` | `ArchiveSpec => []PlatformIdsUnique` |
| `SavesRefine` | `ArchiveSpec => ImplementsSaves` |

A save is the only one to touch its file and, before its commit, changes no table:
`BeforeCommit` says so of every step up to there at once, and each part of the invariant
is shown to survive it. `Commits` says the same of the one step that makes a row
change hands; there `LockOk` (what a save looked at under the row lock is still so)
and `LinkOk` (it links the entry that is there) carry `EntryOk` and `MessagesOk`
over. The deletion of the superseded file after the commit needs to know that no
row names that file again: `RankOk` orders the committed saves of a title, each
older than the one that replaced it, so a file that was read as the old one cannot
come back. Readers rely on the same order: what they read later is never older.

That an id is on one conversation is decided when a save sets it, but the row shows it
only at the commit. `PidsInv` bridges the two: between them the id is free and no other
uncommitted save has it, which is what the unique index makes a second one wait for.
With it a commit is a `Take` that finds its id free, in one step: `LinkOk` and `LockOk`
say that the linked text and the messages are the save's when the row is, `FilesMatchRows`
that the file is there. `SeenByRows` says the rest: transcript, text and archive of the
abstract store are functions of the rows, so the steps before the commit, failures, and
the deletion of superseded files stutter. A reader's second statement returns what the row says by then
(`RefineRead`). TLC finds the refinement broken when a save does not wait for the id.

The same module proves of `ListingPages`, for any number of rows, any keys and any page
size, under `PagesAssumption`:

| theorem | statement |
|---|---|
| `PagesInvariant` | `PagesSpec => []PagesInv` |
| `PagesPartitioned` | `PagesSpec => []PagesPartition` |

The ranks of the listed rows are the numbers below their count, each once
(`RankRange`, `RankOnto`), so `Order` lists every row (`OrderLists`). The three parts of
the property have an invariant each: a list that stands still has been shown up to the
offset (`StillOk`); rows that enter push no row that stays to a lower rank, so what
ranks below the offset has been shown (`StaysOk`); rows that leave push none to a
higher one, so what has been shown ranks below the offset (`LeavesOk`).

`Topics_proofs` proves, for every set of topics, paths, entries, conversations and
requests, under `TopicsAssumption`:

| theorem | statement |
|---|---|
| `TopicsInvariant` | `TopicsSpec => []TopicsInv` |
| `OnlyLateRowsBlock` | `TopicsSpec => []BlockedByLateRows` |
| `RowsCarried` | `TopicsSpec => DropCarriesRows` |

A reassignment moves its conversations, then its entries, then drops the topic;
`LateOk` says after each part that what is left of the kinds already moved came
late. `DropCarriesRows` is about the commit, so it needs `DroppedOk`: between the
DELETE, which succeeds only on an empty topic, and the commit nothing can come
back, because the foreign key makes appends wait and no other reassignment that is
under way brings a row to that topic (`BringsNothing`).

The same module proves of `RowLocks`, for every set of transactions, topics, entries and
conversations and any number of rows per statement, under `LocksAssumption` (being idle is
not a kind of transaction, ids are numbers, a message hangs under one conversation):

| theorem | statement |
|---|---|
| `LocksInvariant` | `LocksSpec => []LocksInv` |
| `DeadlocksAreKnown` | `LocksSpec => []DeadlocksKnown` |

`UnderWay` says of each transaction that it has the first requests of one of its kind's
programs and is to make the rest, `HeldCompatibly` that two of them hold one row only in
modes that fit. That is all of the invariant; the rest is what it implies. For each kind
the lemmas `...Stages` and `...Tables` say what a waiting transaction of it waits for and
what it has by then, row by row or by table. A deadlock needs two transactions that have
and want rows of two tables crosswise, or two rows of one table. `VectorsApart` rules out
the vectors' rows, which all but the re-embedding lock under the row of their entry,
`SavesApart` the messages, which a save takes under the row of their conversation;
`ReembedPairs`, `PersistPairs`, `PatchPairs`, `MovePairs`, `MergePairs`, `ResetPairs` and
`RotatePairs` find the partners of each kind that locks against the order or several rows
of a table (two rotations of one table go by ascending ids and are none), and
`OrderedWaits` shows for the others that each wait of a holder is for a row further on. The
theorem is about the listed transactions and the locks on rows that are there, and says that no pair but the
listed ones deadlocks, not that each of the listed ones does.

`Access_proofs` proves of `Introspection`, for every set of tokens and requests and all times,
under `IntrospectionAssumption` (there is a token, and the lifetime of the cache is
at least one tick):

| theorem | statement |
|---|---|
| `IntrospectionInvariant` | `IntroSpec => []IntroInv` |
| `AcceptanceSound` | `IntroSpec => []AcceptedWhileAlive` |
| `OneCallPerToken` | `IntroSpec => []FlightsLed` |

`CacheOk` bounds a cached answer twice: it was asked for before the token died, and
stored at most one upstream call later, so its lifetime in the cache bounds its age
as well. A request that joins a leader is covered through the leader (`LeaderOk`:
not under way longer than a call takes), even when it joined after upstream had
answered. `LedBy` makes the leader of a future unique, which is what lets `Settle` and
`Cancel` clear the table without stranding a waiter. The lifetime must be at least one
tick: with none, a request that joins a leader at the last moment is as old as the
bound allows.

of `DeployShapes`, for every set of replicas and user ids, under
`DeployAssumption`:

| theorem | statement |
|---|---|
| `DeployInvariant` | `DeploySpec => []DeployInv` |
| `OperatorsAgree` | `DeploySpec => []OperatorAgreed` |
| `AnswersFit` | `DeploySpec => []AnswersFitShape` |

`OneOperator` is the invariant behind the first: while no operator was deleted there
is at most one row, and a replica past the look-up is bound to it. `Checked` carries
the validated settings to a replica that is up; from there `AnswersFit` is a matter of
the strategy chain: `ChainShape` lists the chains that validated settings allow,
`FirstDecides` finds the strategy that answers, and `Verdicts` compares it with the
strategy asked alone.

and of `AttemptLimit`, for every finite set of posts, every limit, window and
retention, under `AttemptAssumption` (what is pruned is older than the window):

| theorem | statement |
|---|---|
| `AttemptInvariant` | `AttemptSpec => []AttemptInv` |
| `LimitKept` | `AttemptSpec => []LimitHolds` |

`LimitHolds` counts attempts, the code counts rows, and between the two lie the form,
the password and the insert. `WindowOk` relates them for every window that is not over:
each attempt has its row, is still unwritten or had its record lost; and the attempts
made and the posts past the check together stay within the bound. The second part is
decided at the check, where those past it and those unwritten are different posts, and
everything after it only moves a post from one group to the next. A window that is over
gets no more attempts, and a restart prunes only rows of windows that are over.

`Operations_proofs` proves of `AuditTrail`, for every set of calls, under `AuditAssumption`:

| theorem | statement |
|---|---|
| `AuditInvariant` | `AuditSpec => []AuditInv` |
| `AuditTypeCorrect` | `AuditSpec => []AuditTypeOK` |
| `AuditTruthful` | `AuditSpec => []AuditFollowsWrites` |

`Sequence` orders what one call does (nothing is recorded before the commit, and the
in-band rows come with it); `Explained` says of a finished call why it has no row.

of `KeyRotation`, for every number of rows, texts and versions and every batch size,
under `RotationAssumption`; of `EventStreams`, for every finite set of requests, every
cap and time to live, under `StreamsAssumption`; and of `ServerLifecycle`:

| theorem | statement |
|---|---|
| `RotationInvariant` | `RotationSpec => []RotationInv` |
| `TextsKept` | `RotationSpec => []TextsKeptUnlessOvertaken` |
| `RotationCovers` | `RotationSpec => []FinishedRunCovers` |
| `StreamsInvariant` | `StreamsSpec => []StreamsInv` |
| `CapHolds` | `StreamsSpec => []CapUnlessForgotten` |
| `LifeInvariant` | `LifeSpec => []LifeInv` |
| `TeardownComplete` | `LifeSpec => []TeardownCovers` |

A rotation can only bring an old text back through a batch, so `TextOk` says more of
rows still in the old version and of rows in the batch: they have their newest text.
Without that an aborted run could leave a lost text without its cause. `CoverOk` puts
every row behind the cursor in the new version, in the batch or among those a server
wrote during the run; it survives the next SELECT because of `ORDER BY id LIMIT n`
(`BatchRead`, with the greatest id of a batch from `GreatestId`). Both were checked by
TLC before they were proved.

`CapUnlessForgotten` is not inductive: whether a request is admitted was decided at
its INCR. `StreamsInv` bounds the requests that found the counter within the cap, and
needs `CounterAccounts`: the counter is never below their number unless it has
forgotten some.

`LifeInv` says of a process that boots what the steps so far have opened and what it
has a handle of (`OpenedBefore`, `KeptBefore`), and of one that ends that what is still
open is still on its list (`ClosedFrom`); the rest is read off the three startup
sequences step by step (`StartupCovered`).

The runs of the pipeline and of the tokens leave `TypeOK` to its proof.

Every safety invariant, action property and refinement that a passing run checks is
thereby proved, except `JournalTypeOK`, the types of `MCJournal`'s modules together: it speaks of
the instance, and its parts are conjuncts of the invariants above. Only model-checked are
the liveness properties `EventuallyClosed` and `PassEnds`: liveness under fairness and
`ENABLED` are outside what the prover can do. Of both, the half that says that what has
to happen happens finitely often is proved (`ActivationsBounded`, `PassesShrink`).

## Noted on the way, no run

- A conversation whose job was lost, failed or over budget is never extracted
  later: the next upload is skipped by its platform id.
- A Redis error in the enqueue loop also drops the enqueues that were still to
  come; an exception in the request handler drops those already collected.
- A phase 3 skip returns with the row running; the sweep closes it as
  `worker_lost` and refunds tokens that were spent.
- `set_platform_metadata` overwrites the platform id of a re-saved title.
- A topic-creation race inside phase 3 aborts the savepoint although
  `_persist_extraction` means to proceed
  (`tests/integration/test_extract_conversation_resilience.py:284`).
- A revocation that fails after the row is gone leaves the counterpart alone until
  it is presented itself or expires; a refresh token deleted as expired on use
  leaves its row in `token_pairs`, and no clean-up finds it again once the access
  token is gone too.
- `_run_reindex` has no caller in this commit, so entries that the worker
  extracts, and entries whose embedding failed, have no vector until somebody
  runs it by hand.
- Search: "Semantic search failed, using FTS only" (`services/search.py:141`)
  continues in a transaction that PostgreSQL has aborted, so the texts of the
  keyword hits cannot be read any more and are shown as the sentinel.
- Search: each backend cuts its hits to the limit before they are merged, and an entry
  that both find keeps its keyword rank (`services/search.py:160`). An entry near the
  query can so be cut behind nearer ones and be missing from an answer that lists some
  of these, or others, at a lower rank than its own.
- Event streams: the counter's key expires an hour after the last request, with
  streams still open; the cap then counts from 0 (`api/v1/extraction.py:125`).
- A helper that raises takes its open handles with it (`main.py:231`,
  `bootstrap/_oauth.py:41`): the teardown does not know them.
- A deletion or merge that a late append overtakes ends in an unhandled
  ForeignKeyViolation, i.e. a 500 instead of a conflict (`topics.py:387`).
- Two saves of one title that overlap leave the file of the first for ever; a
  key rotation that overlaps an edit restores the text before it.
- The tool's text says "Topic paths are permanent" (`tools/topics.py`), the REST
  API renames them. `TrustGatewayStrategy` is documented to return None without
  the user header and rejects instead. The conflict message at `main.py:439`
  offers to unset the API key, which `config.py` then rejects without Hydra.

## Not modelled

- Telemetry, string validation (`validation.py`, `mcp_validation.py`), rendering
  and the LLM providers: they keep no state that the program decides on.
- Message contents, titles, slugs, ciphertexts and tokens are abstract values.
  Query parsing and filters of search and lists are an arbitrary choice of ranks
  or of rows.
- The inbox topic's creation, the refund of a failed TXN 2 (it concerns no job
  row) and amounts of money are left out of the pipeline: it counts settlements,
  not cents.
- Single-row reads, statistics and timeline counts: one statement each.
- The events that a stream forwards: Redis pub/sub, passed through unchanged.
- Row-level security: the models have one user; that every statement runs with
  its user's setting is a matter of each call site, not of order.
- Alembic migrations: they run once, before the server.
- Client registration's row and CSRF tokens of the OAuth pages.
