# A verification development of inseam's distributed core

inseam keeps one owner's catalog of sources on every node the owner runs. The
nodes replicate it with per-origin logs and version vectors, admit and expel
one another through a roster that travels in the same logs, and talk over one
peer-to-peer transport; on each node a small kernel runs all of this as plugins
of an editable composition: the sweep that indexes what the owner's hosts hold, the
routing of reads to the node that can serve them, the lane that batches calls
to a language model, the OAuth grants of remote hosts. This directory models
that core in TLA+, checks it with TLC on small instances, and proves its
central invariants with TLAPS for every instance.

Paths below are relative to the repository (`crates/...` is
`src/crates/...` in `PROJECT.json`).

## 1. Inventory

| part | state it keeps | operations | what is hard |
|---|---|---|---|
| **replicated store** (`inseam-kernel/src/store/replication.rs`, `network.rs`) | `sync_log`; `log_epoch`, `log_seq` in `meta`; `sources`; the four roster tables | local upsert/delete/publish, `apply_remote`, `version_vector`, `log_after`, purge, epoch on rebuild | reads of one shared connection see a half-landed batch; compaction below the vector; epochs; takeover and tombstones across stewards; purge by origin over six tables |
| **index store** (`inseam-kernel/src/store.rs`) | catalog rows, fragments, keyed fragments, search tables, the embedding identity, a write mutex | `write_subtree`, `land_search_rows`, `catalog_sources`, `delete_source`, declare/begin/finish of a re-embed | two-step writes with a dirty mark between; a re-embed that is interrupted; keyed fragments shared by sources |
| **sync** (`inseam-plugins/src/sync/`) | per-peer status; nothing durable | rounds of an exchange, the responder's handler, the timer loop | vectors and suffixes chosen at different awaits, on both ends, beside other exchanges; timeouts with the responder still at work |
| **roster** (`inseam-plugins/src/roster/`) | the last published records; the admission cache; open invitations | reconcile, publish, invite, redeem, expel, admit | two-query refresh; cache against store; token consumed under one lock, peer remembered under another |
| **transport** (`inseam-plugins/src/transport_iroh/`) | the session table, accept and stream limits | dial, accept, admit handshake, request, disconnect | simultaneous dials; check-then-install against expulsion; an old serve loop evicting a new session; eviction at the limit |
| **substrate** (`inseam-kernel/src/substrate/`) | fibers, bindings, effects, the overlay file, pending edits | reconcile, settle, activate, unload, restart dependents, serviced edits with rollback | provider order, cycles, half-applied plugins, restart loops, file against tree |
| **oauth** (`inseam-plugins/src/oauth/`) | attempts, registered grants, tokens in memory and in a credential file | authorize, complete, access_token (refresh), revoke, register | two completions of one attempt; refresh and revocation under a lock that finish does not take for its file; a crash between provider and file |
| **sweep** (`inseam-plugins/src/sweep/`) | the plan of a run, a row buffer, the embedding stage | enumerate, decide, plan, write, embed, land, prune, re-embed | crash between the two writes of a source; concurrent embedding landed in order; files that change while they are read |
| **routing** (`inseam-plugins/src/routing/`) | none that lasts: a frame per forwarded request | route, serve, relay, forward | hop budget and visited list through cycles of sessions; branches nobody waits for any more |
| **llm endpoint** (`inseam-plugins/src/llm_endpoint/`) | the queue of the batch lane, its leader, its jobs | submit, lead, run a job, deliver | a leader that retires as a call parks; callers that give up; answers out of order |
| operations, finder, embedder, connections, transforms, settings, wasm host, HTTP, FFI, CLI, apps | see `PROJECT.json` | | adapters, pure computation, process edges |

How they interact: the sweep and the roster write the local log through the
store; the sync plugin reads and lands logs on both ends of an exchange; a
landed roster record fires `RosterChanged`, which wakes the roster's
reconciler, which refreshes the cache the transport's handshake asks; the
transport carries sync, routing and fetch requests. The sweep reads hosts
through connections, which take their tokens from an OAuth grant and their
summaries from the language model; a routed read ends at a node that has such
a connection.

What makes the core correct:

* *a vector tells the truth*: "ship what the peer's vector lacks" is only
  enough if nothing is missing below a vector, and vectors are read in the
  middle of a batch;
* *convergence*: once writing stops, the logs of all nodes become equal, also
  of origins that never meet;
* *rows follow logs*: every catalog and roster row is backed by the last word
  of a log, and a steward's own rows are touched by nobody else;
* *an identifier is for ever*: an (origin, epoch, sequence) names one entry;
* *an expulsion sticks*: it is never forgotten and what it purged stays purged;
* *a settled tree is the composition*: what can run runs, on what is bound
  now, and what cannot waits; the overlay file says what runs;
* *indexed means searchable*: a source marked indexed has all its rows in the
  search tables and was not older than what the mark says, whatever stopped,
  failed or crashed; an interrupted run leaves a dirtiness behind;
* *a routed read dies out and finds*: no branch crosses a node twice, and the
  host is found if a walk within the budget leads to it;
* *an answer is one's own*: every call of a batch is answered once, by the
  result of its own request;
* *a grant is one thing*: file, memory and listeners agree, a refresh token is
  not spent twice, what was revoked stays revoked;
* *progress*: exchanges end, the write lock is always given back, a reconcile
  ends however plugins depend on one another, everything recent ends indexed,
  every call of a batch is answered.

## 2. Modules

| module | what it is |
|---|---|
| `ReplicatedStore` | one store's operators: records and keys, positions and `lacks`, `log_after`, compaction, epoch supersession, source rows, roster rows, purges. No state. |
| `AddressSync` | the state machine: local writes of every kind, statement by statement for who reads meanwhile, exchanges step by step on both ends, landing of batches entry by entry, timeouts, late requests, rebuilds, the sync timer as fairness; the properties; the inductive invariant. Implements `SharedHistory`. |
| `SharedHistory` | what replication promises, without vectors, messages or batches: every node writes a log of its own, and learns each other log entry by entry, in order and without a gap; what an entry voids, an epoch replaces or an expulsion bars goes in the same step. |
| `AddressSync_proofs` | what `log_after` cuts and what holding one entry keeps, of one log, one batch, one history; types and the inductive invariant, action by action; theorems on steps; why rows and roster say what the logs say; the refinement of `SharedHistory`. |
| `RosterAdmission` | one node's admission view over a store that changes underneath: refreshes by the reconciler and by expel and republish calls, invitations, verdicts, restarts. |
| `RosterAdmission_proofs` | who stays out, that a token admits one, that newcomers are kept, and that every verdict has its reason. |
| `Sessions` | the session tables at both ends of every connection: dials, the hello, installs, evictions, closes and their arrival, refusals, restarts. |
| `Sessions_proofs` | tables against served connections, their limit, simultaneous dials, the refused, and the two ends of a session against each other. |
| `Reconciler` | the kernel's plugin tree: plans, removals and mounts, the unwinding of closures member by member, settling with restarts and the allowance, edits of the overlay with rollback, hand edits, shutdown, crashes. |
| `Reconciler_proofs` | bindings, handles, needs, teardown order, file and tree; that a settled tree runs exactly what can run. |
| `WholeSources` | what indexing promises, one source at a time: replaced whole, searchable row by row, marked only when whole, searches refused while tables are built anew. |
| `Sweep` | an index run over the catalog and the search tables: re-embed, enumeration, decisions, planning, writing, the row buffer and the embedding stage, what vanished, the folder; a host that changes meanwhile; stops, failures, crashes. Implements `WholeSources`. |
| `Sweep_proofs` | its inductive invariant, the refinement of `WholeSources`, and that nothing stale looks clean. |
| `Routing` | one routed read at every node it crosses, faults and late branches included. |
| `Routing_proofs` | that every walk dies out, that paths name branches, that no walk is missed and no answer made up. |
| `BatchLane` | callers, the leader and the jobs of the batch lane. |
| `BatchLane_proofs` | that no call is lost, left without a leader, or given another's answer. |
| `Grants` | one OAuth grant: authorizations, refreshes and revocations that overlap, the credential file written step by step, remounts and crashes. |
| `Grants_proofs` | which refresh tokens the provider still takes, where a revoked grant can no longer be, and that the places keeping a grant agree. |
| `MC_...` | constants for TLC that a configuration cannot write. |

The modules meet at narrow interfaces. `AddressSync` decides what the
roster tables of a store hold; `RosterAdmission` takes them as changing in any
way sync can change them (`Hear`, `Supersede`, `HearExpulsion`), which also
covers the return of an expelled node's record (section 4). `Sessions` takes
the verdict of the admission view as a set of refused peers that grows at any
time (`Refuse`), and loses one when an older reading replaces the view
(`Relent`), `AddressSync` takes the transport as requests that can be
lost, late or abandoned, and `Routing` takes it as links, sessions that close
and exchanges that are cut short. `Reconciler` stands beside them, as what
starts and stops the plugins they are about; a remount is an action of
`Grants`. What `Sweep` writes into the catalog is what `AddressSync` publishes
as `UpsertSource` and `DeleteSource`.

### How state and actions correspond to the code

| model | code |
|---|---|
| `log[n]` | table `sync_log` of node n, as the write under way will leave it; the empty origin is filed under n |
| `table[n]` | the rows of `sync_log` that `version_vector` and `log_after` find on node n, between the statements of a write too |
| `epoch[n]`, `mark[n]` | `meta.log_epoch`, `meta.log_seq` |
| `catalog[n]` | `sources`, steward `Local` for a NULL `origin` |
| `roster[n]` | `roster_nodes`, `roster_hosts`, `roster_stewardships`, `roster_expulsions` |
| `tx[n]` | the running `apply_remote`: who called it, the entries to go, its `positions` map, whether something was applied |
| `exchange[i]` | a running `exchange()` and the `Handler::handle` that answers it, one phase per await |
| `late` | requests given up on that may still be served |
| `UpsertSource`, `DeleteSource`, `Publish...`, `Expel` | `upsert_source_in`, `delete_source_in`, `IndexStore::publish` as the sweep and the roster call it |
| `SkipEntry`, `HoldEntry`, `Commit` | the outcomes of `apply_entry_in`, and the end of `apply_remote` |
| `HoldEntry` or a local write, `InsertEntry`, `PurgeEntries` | the statements of one write as a reader sees them: the DELETEs of a superseded epoch and of compaction, `insert_entry_in`, the DELETEs of `purge_node_in` |
| `StartExchange` .. `NextRound`, `Finish` | `choose_peers`, `exchange`, `round_trip`, `apply_batch` |
| `BeginServe`, `ReadVector`, `ReadLog` | `Handler::handle`: apply, then the vector, then the log |
| `Abandon`, `ServeLate`, `LoseLate` | the two timeouts around a request |
| `Rebuild` | `converge_schema` and `converge_log_in`, then the first publish |
| `history` | a history variable: every entry ever written |

Of `RosterAdmission` (one node, `roster/mod.rs` and `invitations.rs`):

| model | code |
|---|---|
| `rows`, `expelled` | `roster_nodes`, `roster_expulsions`, as the two listing queries return them |
| `view` | `AdmissionCache`: `known`, `expelled`, `invited` |
| `open`, `minted` | `OpenInvitations` |
| `redeeming`, `newcomers` | a handshake between `admit`'s verdict and `redeem`'s first lock, and between its two locks |
| `task[t]` | where `refresh_cache` of the reconciler, or of an expel or republish call, stands, and what it has read |
| `StartRefresh`, `ReadMembers`, `ReadExpelled`, `Replace` | a pass, or the second half of `republish`: each query is an await, so anything may happen between |
| `FailRead`, `FailAssertion` | a query's error; the panic of `AdmissionCache::replace` |
| `StartExpel`, `Confirm` | `expel`: publish, then refresh, then its own assertion |
| `Present`, `Redeem`, `Remember` | `admit` and `redeem` under their three locks |
| `barred`, `spent`, `heard` | history variables |

Of `Sessions` (`transport_iroh/mod.rs`, `sessions.rs`):

| model | code |
|---|---|
| `conn[c]` | an iroh connection, seen from both ends: who dialed, whether the hello was answered, how far each end is, which ends know it closed |
| `table[n][p]` | `SessionTable` of node n |
| `letgo[n]` | what `insert` and `disconnect` return, on its way to `close()` outside the lock |
| `refused`, `Refuse`, `Relent` | what `Shared::admit` refuses on sight; a refresh that names an expulsion, and one that read before it and replaces the view later |
| `Dial`, `Ready` | `session_or_dial`, `dial` and `hello` |
| `Judge`, `GiveUp` | `admit_incoming` with `admission_handshake` |
| `Install` with `InstallFirst`, `InstallOver`, `InstallLoser` | `install_session`, `SessionTable::insert`, `new_session_wins`, `evict_least_recently_used` |
| `CloseLetGo`, `ServeEnds`, `Evict` | closing the displaced; the end of `serve_connection`; a request that finds its session closed |
| `Learn`, `Lose` | QUIC: the other end's close arrives; the idle timeout |
| `chose` | history variable: which of two live connections an end kept |

The acceptor answers the hello before it installs, the dialer installs when it
has the answer: neither end knows which came first, and the table of one end
may already have replaced a connection the other has not installed yet. Last
use is kept in whole seconds, so the victim of an eviction may be any session.
In `RosterAdmission` a token that is closed when presented is left out, since
it stays closed and the handshake leaves no trace.

Of `Reconciler` (`substrate/kernel.rs`, `edits.rs`, `plugin.rs`):

| model | code |
|---|---|
| an element of `Plugins` | a plugin with a config: what `instantiate` builds from an entry, with the manifest it declares |
| `plugin[e]`, `state[e]` | the fiber of entry `e`: plugin ref and config digest, `FiberState` |
| `bound[k]` | `bindings`, and with it the `Unbind` effects of the provider |
| `handle[e][k]` | whose implementation `apply` of `e` got from `get` or `try_get` |
| `overlay` | the composition the overlay file makes of the base |
| `Plan`, `Refused` | the first half of `reconcile`: build what is new, or refuse |
| `Remove`, `Mount` | the two loops of `reconcile`; each first unloads an active fiber |
| `Closure`, `Unload`, `Unwind` | `dependent_closure`, `unload` and one round of its loop |
| `Activate`, `FailApply`, `Exhaust`, `Restart` | a round of `settle`, by outcome, and what `restart_dependents` does after it |
| `MountEdit`, `ConfigureEdit`, `Finish`, `RollBack` | `apply_composition_edit`, `apply_overlay_change` |
| `Boot`, `Shutdown`, `Exit`, `Crash`, `EditFile` | the distribution, the owner with an editor, a kill |

The code takes fibers in mount order, the model in any order, so what holds of
it holds of every order a file can give. A plugin that provides fewer keys than
its manifest declares is a plugin with fewer `Provided` keys; effects other
than bindings, and the kernel's own services, which are always bound, are left
out, as are files that do not parse, the layering of documents, and the queue
edits wait in. A file write is one step.

Of `Sweep` (`sweep/mod.rs`, `plan.rs`, `embed.rs`, `store.rs`):

| model | code |
|---|---|
| `version[f]`, `gone` | the host: how often a file was written, the files deleted; a content is the set of what it was made from |
| `Looks`, `Look(f)` | what an enumeration is told of a version, modification time in whole seconds and size; two versions may look alike |
| `shape`, `identity`, `built` | the transform stamp of the composition, the embedder's declared identity, the one the search tables were built with |
| `row[s]` | a row of `sources`: known, modified, indexed, stamp, and the digest of a folder's listing |
| `subtree[s]`, `keyed`, `found` | the fragments, the keyed fragment with its anchors, the rows of the search tables |
| `run` | the phase a run is in, what it enumerated, what is left to write, what planners have read |
| `stage` | `RowBuffer`, the channel and the embedders: one stream with cursors (buffered, submitted, embedded, landed) |
| `Begin`, `BeginReembed`, `PushTarget`, `FinishReembed` | `sweep`, `reembed`, `begin_reembed`, `finish_reembed` |
| `Enumerate`, `Decide`, `DecideFolder` | `enumerate_run`, `decide`, `finalize_folders` |
| `ReadContent` | a planner reads the file, at the version it then has, up to the planning concurrency ahead |
| `WriteSubtree`, `Sent` | `write_subtree`, then the rows and the completion into the buffer |
| `SubmitBatch`, `EmbedBatch`, `LandBatch` | `EmbedStage::submit`, `embed_batch`, `land_search_rows` in order of submission |
| `Fail`, `StageFails`, `StopPass`, `Restart` | an error that ends the run, one of the stage, the owner's stop, a crash with a start under another composition |

Of `Routing` (`routing/mod.rs`, `protocol.rs`, `serve.rs`):

| model | code |
|---|---|
| `frame[path]` | a `forward_to` under way at the last node of the path: the candidates left, whom it asks, what it heard |
| `request` | a `RouteRequest` sent and not yet handled: visited nodes, receiver, hops left |
| `Ask`, `PassedOver`, `TurnToPeers` | `try_peer` in the two loops of `forward_to`, stewards first |
| `Serve` with `Relay`, `Answer` | `serve_checked`: serve, refuse, or relay with a hop less |
| `TimeOut` | `request_timeout` at any exchange; the frames below go on |
| `CloseSession`, `Withdraw` | a session closes, a connection to the host is withdrawn |

Of `BatchLane` (`llm_endpoint/batch.rs`):

| model | code |
|---|---|
| `pending`, `oldest`, `leading` | `LaneState`, under its lock |
| `leader[l]`, `job[j]` | the leader tasks there are (never two, which is a property), and one job per permit |
| `Submit`, `GiveUp` | `submit`; the caller's future is dropped |
| `TickRetires`, `TickWaits`, `TickTakes`, `GetPermit`, `FailPending` | a tick of `lead` by outcome, and the end of a leader that ticked too often |
| `JobCompletes`, `JobFails`, `ResultInRequestOrder` | `run_job`, `deliver` |

Of `Grants` (`oauth/`):

| model | code |
|---|---|
| `attempt[a]` | an `Attempt`: whether the service still holds it, its listener, its handle, whether it has an outcome |
| `memory[h]`, `holder[h]` | the tokens of a `GrantHandle` and who holds their mutex; `current` is the registered one |
| `file`, `tmp` | the credential file and `json.tmp`; `Half` is a file that does not parse |
| `call[c].fd` | the file a writer has open, wherever it has been renamed to |
| `spent[a]` | the provider: the refresh token it takes next |
| `told` | the last `GrantChanged`, or the state a mounting plugin reads |
| `Authorize`, `Return`, `Deliver` | `authorize` with `admit`, `serve_loopback`, `complete_authorization` |
| `ExchangeCode`, `Refresh` | `exchange` and `parse_token_response` |
| `Open`, `Fill`, `Rename` | `write_tokens` |
| `SetAuthorized`, `Announce`; `TakeToken`, `SetRefreshed`; `RemoveFile`, `TakeTokens` | the rest of `finish`, `access_token`, `revoke` |
| `Drop`, `Remount`, `Restart` | a caller that goes away, `register` after its disposer, a crash |
| `ghosts`, `crossed` | history variables |

Tokens are told apart by the authorization they come from and the number of
their refresh token. Whether a token is still fresh is the clock's choice. A
file operation under way when its caller goes is done or not begun: the code
hands it to a thread, where it may end after the lock is free, and that is
left out (a bound of `RevokedStaysRevoked` and `StoresAgree`). What is
left in the temporary file counts only while somebody is about to rename it.

Two decisions in `AddressSync` that carry weight. The store has *one* connection and reads do
not take the write mutex, so `Vector(table[n])` and `LogAfter(table[n], ...)` are
read from the rows as they are in the middle of a batch, and in the middle of
one write, where compaction or a new epoch has deleted and the new entry is not
there yet. What a write will make of the log is decided when it begins, its
lock keeping other writers out: that is `log[n]`; catalog and roster rows change
with its first statement, and nothing reads them between its statements. And each await of the
exchange is a step of its own, so any interleaving of two exchanges on a node,
and of an exchange with local writes, is a behaviour.

Abstracted: an envelope, a display name and endpoints are members of a small
set (`observed`, which news does not look at, is left out); a row keeps what a
later decision reads. Not modelled in `AddressSync`: entries refused as out of
bounds, a transaction that fails and rolls back (section 4), the peer views, the eight
exchanges a round runs at once (any number of `Exchanges` may run).

## 3. Runs

| run | question | size | result |
|---|---|---|---|
| `sync_backbone` | two laptops reach each other only through a backbone, one is rebuilt, one is expelled, one entry more than a batch holds: is `SharedHistory` implemented, has a node that caught up exactly the origin's log, are rows backed; when may a vector fall; do expulsions stay? | 450,796 states | holds |
| `roster_rows` | two stewards of one address, tombstones, a host, a claim and its withdrawal, an expulsion: catalog and roster rows against logs | 1,334,821 states | holds |
| `sync_liveness` | does everything written reach everybody through the backbone, does every exchange end, and can a request served late open a gap behind a vector? | 74,073 states | holds |
| `admission` | refreshes overlap one another and the store's changes, strangers bring invitations, the node restarts: who is admitted, who is refused, does the view catch up? | 542,765 states | holds |
| `sessions` | nodes dial each other at once, evict, disconnect, refuse, lose paths, restart: do the two tables agree in the end, is every served connection held? | 183,648 states | holds |
| `reconcile` | boots, edits, rollbacks, hand edits, shutdowns and crashes over eight compositions: does each reconcile end, and is a settled tree what it should be? | 23,027 states | holds |
| `index` | runs, re-embeds and rebuilds over files that change, also so that no listing tells, and vanish, with stops, stage failures and crashes at every step: is a source ever marked without its rows or with stale ones, is `WholeSources` implemented, does everything recent end indexed? | 801,271 states | holds |
| `routing` | five nodes in 44 wirings, a stale steward, up to two faults: does every branch end without crossing a node twice, and is the host found exactly if it can be? | 323,436 states | holds |
| `batch` | four calls for two models, callers that give up, jobs that fail, results reordered, repeated and left out: is every call answered, once, by its own answer? | 90,846 states | holds |
| `grants` | two authorizations, refreshes and revocations overlap, with refused and lost answers, failed writes, dropped calls, a remount and crashes: is a refresh token spent twice, does a revoked grant stay revoked, do file, memory and listeners agree? | 3,521,077 states | holds |
| `expelled_comes_back` | is what an expulsion purged gone? | | **violated** |
| `keyed_rows_lost` | has every keyed fragment an indexed source names its search row? | | **violated** |

The bounds and why they are enough. `SeqMax` counts the entries a node writes
in an epoch, its first record included; two leave room for a write that is
relayed, or that compacts the first; with four a node writes
a row, deletes it and writes it again, or names a host, claims it and withdraws,
while the other interferes. `BatchMax = 1` makes every batch limit bite; `BatchMax = 2` with
three origins makes the limit cut across origins. `RoundsMax = 2` already has
an unfinished exchange continued by a later one. Three nodes are the least
with an origin a node never meets. One exchange at a time is run, beside late
requests, which land over it as a second exchange would; that any number of
exchanges is harmless is proved. `admission` has two strangers of whom one
joins and is expelled, lists with room for one, so that every newcomer makes
the list forget, two tokens, two handshakes at a time, and one call, to expel
or to republish, beside the reconciler: the
least in which a stale refresh replaces a newer one. It lets an expulsion of
the node itself arrive. `sessions` has two connections at a time, used anew for
ever: two are what a table has to choose between, and a third node's connection
takes the place of one of them at a table with room for one. `reconcile` has
three entries, and plugins for each case: a client that requires a key, a
watcher that takes two if they are there, a patron and a client that restart
each other, two providers of one key of which one binds another key first, a
plugin that fails at will, one that cannot be built; an allowance of two is the
least that lets a fiber restart at all.

`index` has a file of one row and one of two with batches of two, so
that a batch ends inside a source, spans sources, and two batches are embedded
at once; the second file is changed into a version that looks like the one
before and names a keyed fragment, into one older than the cutoff, or deleted, two embedding identities allow one re-embed and its interruption, and
a budget of one leaves a file for the next run. Deletions count as changes, so
`VersionMax` bounds both; there is one folder level; the owner does not return
to an earlier embedding identity; and no run starts while the stage of a failed
one still lands. `routing` has the least network in which the budget of two
relays cuts off one walk and not another to the same node; at most two of six
links are missing; `STEWARDS_TRIED_MAX` and `RELAY_PEERS_MAX` do not bite,
candidates come in any order. Every node has the same `Stewards`: peers differ
from roster to roster (`Roster[n]`), but that two nodes know different stewards
of the host, one having heard of a stewardship and the other not, is left out
of the model, and so of the theorems. `MCPremises` has TLC check
that what `FoundExactly` presupposes is so there. `batch` has jobs of two and a queue of three, one
job at a time, three ticks; the large call exceeds a job by itself. `grants`
has one authorization of each way back, room for one attempt, any two calls at
once, one rotation of one refresh token, and one remount. The proofs below do
without bounds.

Fairness (`FairSpec`). The sync timer dials every reachable peer for ever
(strong fairness of `StartExchange` per pair, since the pair's slot may be
taken now and then); a tokio mutex is fair, so a task waiting for the write
lock gets it (strong fairness of `BeginServe` and `BeginMerge`); the remaining
steps of a running exchange and of a landing batch are plain code (weak
fairness); a late request is served or lost. `EventuallyReliable` says that
from some point on no request times out: without it nothing can converge, and
no stronger assumption is made before that point. In `RosterAdmission` the
poll starts a pass whatever becomes of the wakes, and a query that is tried
again and again does not fail for ever (strong fairness of the two reads);
expel calls, handshakes and sync owe nothing. In `Sessions` a handshake ends,
since it runs under a timeout; displaced connections are closed and a serve
loop ends, being plain code; a close reaches the other end, by its frame or by
the idle timeout there. Losing a path, dialing and restarting owe nothing, and
`TablesAgree` asks for agreement only once nobody dials any more. In
`Reconciler` the kernel's own code goes on and a plugin's `apply` returns (weak
fairness of `Work`); nobody owes an edit, a boot or a shutdown. In `Sweep` a
run under way goes on and the stage embeds and lands (weak fairness of
`Proceed` and `Land`), and the timer or the owner keeps asking for runs (strong
fairness of `Begin`, since a run may be under way each time it is asked);
`EverythingIsIndexed` asks for the end only if stops, failures, changes and
restarts end. In `BatchLane` leaders tick and a job ends, since its polls are
bounded; callers owe nothing. In `Routing` nodes handle what reaches them; no
timeout is promised, since none is needed for a read to end. `Grants` states no
fairness.

Deadlock is checked in the runs of sync, admission, sessions, the kernel and
the index: the sync timer always starts the next exchange, sync always lands the
next record, a node can always restart, a running kernel can always be killed.
A routed read and a batch of given calls end, and a grant may be left alone, so
there it is not.

## 4. What the runs found

1. **An expelled node comes back** (`expelled_comes_back`,
   `replication.rs:896`). The purge takes the log rows the vector is derived
   from, and nothing checks expulsions on apply; a peer that has not heard of
   the expulsion ships the whole log again and it is materialised again. The
   documentation says it is purged on every node that applies the expulsion.
2. **A keyed fragment loses its search row** (`keyed_rows_lost`,
   `sweep/mod.rs:1116`). A keyed fragment is created in the transaction that
   writes one source's subtree, and its row lands with a later batch. If the
   run dies in between, the next run finds the key existing and takes its row
   for landed, and marks the source indexed; so does every source that names
   the key, until a re-embed. `IndexedIsSearchable` is what holds of a source's
   own rows.

Met while modelling, true of the model and of the code, and not a run:

* Host records have several writers. They are documented to "merge by latest"
  (`network.rs:230`, `docs/network/sync.md:3`), but the last one *applied on
  each node* wins, and each steward applied its own first: two nodes may show
  different hosts for ever. `SoleWriterIsMaterialized` and `RowsAreBacked` are
  the parts of "rows are a function of the log" that do hold.
* `synchronous = NORMAL` (`store.rs:548`) gives up the last commits at a power
  cut as rebuildable; the local log's high-water mark is among them and is not,
  and a sequence a peer already holds is issued again.
* `AdmissionCache::replace` asserts that the store never lists a node as a
  member and as expelled. `refresh_cache` (`roster/mod.rs:370`) asks in two
  queries, an expulsion that sync lands between them is in both answers, and
  the panic ends the task that alone refreshes the view in the background; at
  every pass once a peer expelled this node, which is added to the members
  unasked. `ViewCatchesUp` shows that this is the only way in which the view
  stops following the store. `expel`'s own assertion fails in the same way when
  an older refresh replaces the view in between (`Confirm`).
* A failed fiber of an unchanged entry is never tried again (`kernel.rs:156`):
  after the rival it lost a key to is disabled it stays failed, where a fresh
  boot would run it, and `design/kernel.md:40` promises confluence.
  `RunsWhatItCan` is what does hold: failed fibers aside, a settled tree does
  not depend on history.
* A responder that is rebuilt, or whose batch rolls back, between two rounds of
  an exchange (`exchange.rs:142`) has shipped a vector it no longer lives up
  to. So has one that is read in the middle of a write that then rolls back:
  reads share the writer's connection and see its statements before they are
  committed. Rollbacks are not modelled. And a node that joins after an expelled node was purged never learns of
  the expulsions that one authored (`replication.rs:629`).
* `expel` disconnects before it refreshes the view, and a handshake is judged
  some time before its connection is installed. A peer that dials in between
  has a session after `expel` returned, and nothing ends it, although
  `Transport::disconnect` is documented with "the admission policy keeps it
  out afterwards" (`inseam-seams/src/transport.rs:326`). `RefusedStayOut` says
  what does hold: once no judged handshake of the peer is left, it stays out
  for as long as the policy refuses it. A refresh that read before the
  expulsion may take the refusal back for a while (`roster/mod.rs:369`).
* Two concurrent dials of the *same* node can be installed in opposite orders
  at the two ends; then each end closes what the other kept and both tables
  end empty, where `sessions.rs:5` has the newer connection win. The next
  request dials again. `DialsConverge` is about dials from both sides.

* A settings write watches every entry it names, the unchanged ones too
  (`edits.rs:219`). One that names a fiber which had failed before, for a
  missing secret say, is rolled back whatever else it changed.
* `edits.rs:226` takes the previous composition to have settled before. That is
  so only if nobody edited the file by hand since: after such an edit a
  rollback may be refused, and file and tree disagree. `TreeIsFile` excepts it.
* The allowance of eight counts restarts by newly bound optional keys, too.
  A plugin with many optional keys whose providers come up one by one after it
  may run out of it without any cycle, depending on the order in the file,
  which `kernel.rs:229` says carries no semantics.
* A provider that is upstream of a circle of consumers, and not in it, is
  unwound before them: in the closure every member is consumed by another, and
  the first in mount order goes. `ConsumersFirst` excepts circles.

* A re-embed that is interrupted after the tables were emptied, with the
  owner then going back to the identity they were built with, finds nothing
  pending (`store.rs:2113`) and leaves the tables empty; the same if a second
  embedder is mounted while a re-embed runs. The model excludes it by never
  returning to an identity.
* The stage of a failed run goes on landing what was submitted, also when the
  next run has begun and replaced a subtree those rows are of; and two runs of
  one host may overlap (`store.rs:808`).
* A file counts as unchanged if its modification time, in whole seconds
  (`address.rs:161`), and its size are those recorded (`sweep/mod.rs:787`). A
  file that is edited again in the second of its last edit, after a run read
  it, and keeps its size, is never indexed as it then is.
  `NothingStaleLooksClean` and `EverythingIsIndexed` except exactly this
  (`IsUpToDate`), and `TellingLooksAreEnough` proves that it is the only way in
  which a change goes unseen.
* `HOPS_MAX` is "at most HOPS_MAX nodes, the requester's hop included"
  (`seams/routing.rs:28`, `routing/mod.rs:12`, `design/network.md:37`); the
  requester sends it undecremented, so a walk has one exchange more. "Never the
  same one twice" is true of each walk, and not of the nodes a read asks, since
  two branches may meet at one node. A relay's own store error is passed back
  as the host's answer (`serve.rs:180`). Each hop has the same timeout, so a
  relay's first silent candidate outlasts its requester's patience.
* A batch's oldest call waits `age_max` anew when a job leaves it behind
  (`docs/indexing/embeddings.md:97`), and `LEAD_TICKS_MAX` counts the ticks of
  a leader that is busy too: its parked calls then fail (`batch.rs:148`).
* OAuth: `finish` writes the file before it takes the lock (`grant.rs:178`). A
  refresh or a revocation in between leaves file and memory of different
  authorizations until a restart, and two writers share one temporary file, so
  that half a file may be renamed into place in spite of the comment over
  `write_tokens`. The same comes of a call dropped between the file and the
  handle (`grant.rs:242`, `grant.rs:250`) and of one that stores for a handle
  that was replaced; `StoresAgree` leaves out these three. A revoked grant can
  come back, although `revoke` returned `Ok`, in four ways, which
  `RevokedStaysRevoked` leaves out: a refresh on a replaced handle
  that has the tokens writes them after the revocation on the new one
  (`grant.rs:241`); so does a `finish` that has exchanged the code; a revocation
  on a replaced handle does not reach the tokens its successor has loaded; and
  a temporary file left by a dropped call is renamed into place by another. A
  fifth is a bound of both: the file operation of a dropped call goes on in its
  thread after the lock is free (`grant.rs:349`). Two
  deliveries of one redirect both exchange the code, and the refused one may
  resolve the attempt although the tokens are stored (`attempt.rs:124`, "an
  attempt finishes once"). Announcements follow the release of the lock and may
  overtake each other. An attempt under way when its grant is registered anew
  sets the tokens of the handle that was replaced. Attempts that ended count
  against `ATTEMPTS_MAX` until their deadline, although the refusal says
  "finish or wait out one first".

## 5. What is proved

### Sync

Assumptions: `StoreAssumption` (node ids are positive numbers, as ids are
ordered) and `SyncAssumption` (limits are positive, dials join nodes, there is
a name to publish). TLC evaluates both on every run. Nothing bounds the number
of nodes, exchanges, names, addresses, entries or rounds.

* `LogsAreSound`: `Spec => []IInv`, where `IInv` is `TypeOK /\ LogInv /\ TablesFollow`.
* `TypesHold`, `VectorsAreHonest`, `SequencesIdentify`: `TypeOK`,
  `HonestVectors`, `SequenceIdentifiesEntry` are invariants. (No run checks the
  last: an entry of an identifier already used would be no step of
  `SharedHistory`, which `sync_backbone` checks.)
* `SyncImplementsSharedHistory`: `Spec => Shared!Spec`, with `log` for `held`.
* `LocalRowsAreKept`, `ExpulsionsAreKept`: the action properties
  `PeersKeepOffLocalRows` and `ExpulsionsStay`. No run checks the first: what
  would break it breaks `OwnRowsAreLogged`, which `roster_rows` checks.

*Why an inductive invariant is needed.* `HonestVectors` speaks of logs at
rest. It is kept only if every batch that will ever be landed is harmless
where it lands, and a batch is chosen at one time, against a vector of another
time, and landed at a third. `LogInv` follows it along:

* `NoneLeftOut(history, batch, vector)`: the batch omits no entry of an
  origin before one it carries, unless the vector covers it or it was
  compacted. It is what `log_after` returns from an honest log
  (`LogAfterLeavesNoneOut`: the cut is a prefix per origin), and later writes
  do not disturb it (`NewEntryNotLeftOut`: sequences only grow).
* `StillHeld(history, vector, log)`: what a vector said of the never expelled
  is still true of the log it was read from; logs only grow in what they claim
  (`ClaimsSurvive`). Together with `NoneLeftOut` the batch is harmless against
  the receiver's vector *now* (`KnowingMore`).
* `PositionsKept`: the positions read once when the batch opened still
  describe the log mid-batch; for expelled origins they at least cover it.
* `LandedEntry`: holding the first entry of such a batch keeps the log honest
  at once, whether it extends, compacts, supersedes an epoch or purges.
* `TablesFollow`: what a reader finds in the middle of a write is the log but
  for the entry still to be inserted, or the log before a purge; so what it
  claims is still honest (`HonestVectors` is of these rows).
* `TxOwners` ties each write lock to the exchange that holds it, so that a
  commit reports to the right one; `HistoryIsMarked` and `HeldLogs` tie each
  log to its mark and epoch, so that a new entry is new to everybody.

Origins that were ever expelled are excepted throughout: their logs can be
purged and come back (finding 1), and then a vector may be ahead of the log.

* `VectorsFallOnlyInAWrite`: the action property `VectorsFallOnlyMidWrite`. A
  reported vector does fall, between the DELETE of compaction or of a new epoch
  and the INSERT (`replication.rs:284`, `replication.rs:875`); it does so only of
  the origin about to be inserted, and that entry is past where it was.
* `RowsAreSound`: `Spec => [](IInv /\ RowInv)`, and from it
  `PeerRowsAreBacked`, `OwnRowsAreAlwaysLogged`, `SoleWritersAreShown`,
  `CaughtUpLogsAreEqual`: `RowsAreBacked`, `OwnRowsAreLogged`,
  `SoleWriterIsMaterialized`, `CaughtUpIsEqual` are invariants. The last
  needs both halves: what a caught-up node lacks of an origin was compacted there
  (`LogInv`), and what a log holds beside it has a later word on its key at the
  origin (`OwnLogIsComplete`).

*Why rows need an invariant of their own.* A row is written when its entry is
held and must go when that entry goes, which happens in five ways (a later
word on the key, a tombstone, a takeover by the reader itself, a superseded
epoch, a purge); and a row has one slot for several stewards, so what
materialises depends on the order in which logs arrive. `RowInv` says that
every table agrees with the log (`Agrees`: the catalog, and the roster table by
table), that only a node itself speaks of its
presence and its stewardships (`Speaks`), and that a node's own log is complete
(`OwnLogIsComplete`). `RosterAfterIs` and its like say what one
applied record makes of each table; `HoldKeepsRows`, `UpsertKeepsRows`,
`DeleteKeepsRows`, `PublishKeepsRows` and `RebuildKeepsRows` are then one lemma per
way the store is written.

*The refinement.* Most actions only move messages, vectors and locks, and
stutter. A local write is `Write`, a rebuild `StartOver`; holding the first
entry of a batch being landed is `Learn`, and that it may be learnt now is what
`LogInv` says of a batch under way: it is past what is held because the
positions read when the batch opened still describe the log (`PositionsKept`),
and nothing is missing before it because the batch leaves nothing out
(`NoneLeftOut`). What `SharedHistory` takes away in the same step (`With`) is
compaction, supersession and purge of `HoldEntry` as one set. It
makes one exception, and the proof shows where: of a node that was ever expelled
anything may be missing.

### Roster admission

Assumption: `AdmissionAssumption` (the constants are of their sets, limits are
positive). Nothing bounds peers, tokens, or calls to expel
and republish.

* `ExpelledStayOut`: `Spec => []BarredAreRefused`.
* `TokensAdmitOne`: `Spec => []TokenAdmitsOne`.
* `NewcomersStay`: the action property `NewcomersAreKept`.
* `VerdictsAreDue`: `Spec => []VerdictsHaveReasons`. A stale view can be late,
  but admits only whom the store has shown or who redeemed an invitation, and
  refuses only whom an expulsion in the store names.

A refused node could be readmitted by a refresh that read the store before
the expulsion and replaces the view after it; no invariant of the view alone
excludes that. `BarredInv` therefore speaks of what was published while no
other refresh was reading: it is in the store, and in every reading that is
about to replace the view; the call that published it need not have finished.
`TokenInv` says that a spent token is closed, was minted and is minted no
second time. `KeptInv` says that whatever a refresh has read of members was once
in the store, so that a newcomer who is dropped from the list was settled; what
`Vec::retain` leaves is a recursive function (`Retained`), and `RetainedIs` is
proved by the least entry at which it would fail. `ReasonsInv` follows the
reasons from the store and the redeemed tokens through readings, newcomers and
list into the view.

### Sessions

Assumption: `SessionsAssumption` (node ids are ordered, dials and expulsions
are of others, limits are positive). Nothing bounds nodes or connections.

* `ServedAreHeld`: `Spec => []ServedIsHeld`.
* `BothKeepOne`: `Spec => []DialsConverge`.
* `TheRefusedStayOut`: `Spec => RefusedStayOut`, for as long as the policy
  refuses.
* `TablesAreBounded`: `Spec => []TypeOK`, shapes and `SESSIONS_MAX`.
* `NoSessionIsForgotten`: `Spec => []HalfSessionsPass`. What a node holds, its
  peer holds as well, or is still in the handshake of, or is about to close, or
  the connection is closed at one end.
* `RestingTablesAgree`: `Spec => []AgreeAtRest`. When nothing of this is under
  way the tables agree: the safety half of `TablesAgree`, of which the run has
  to show only that the nodes come to rest.

The invariant adds that a connection some end still uses has two ends that
differ, that only connections with an end here are let go of here, and that
of two live connections the one with the lower dialer was kept: each end by
itself keeps to that order, so two ends that chose between the same two
connections cannot have chosen crosswise. `StepsChangeLittle` lists, once for
all actions, what a step can change of judged handshakes and of tables; the
theorem on the refused follows from it without another look at the actions. For
the limit `Bounded` counts a table's sessions by the peers they are with. The two
ends of a session meet in `EndsAreStaged`: an end of a connection in use has
got somewhere, and one that has gone has closed its handle, so that the
connection the other end holds is not open for ever.

### Reconciler

Assumption: `ReconcilerAssumption` (manifests are over the keys, compositions
over the plugins, `None` and the mark of a withdrawn handle are no entries, the
allowance is positive). Nothing bounds entries, plugins, keys, compositions.

* `TypeCorrect`, `NoStrayBindings`, `NoStaleHandles`, `NeedsStayMet`,
  `RunsExactlyWhatItCan`: `TypeOK`, `BindingsBelong`, `HandlesFresh`,
  `RequirementsMet`, `RunsWhatItCan` are invariants.
* `FileAndTreeAgree`, `TeardownOrder`: the action properties `TreeIsFile` and
  `ConsumersFirst`.

The properties fail one by one in the middle of an unload, where consumers
have lost what they still hold; the invariant says how far. `UnloadClosed`: what is being
unwound contains every active consumer of its members, as the closure did when
the unload began (`ClosureCloses`). `HandlesTrue`: a handle that has not gone
is the binding of an injected key, so whoever holds an implementation counts as
its consumer. `Grounded`: no set of active fibers requires itself, since each
was started on keys bound before it and is unwound with their provider; with
it a settled tree is the *least* set closed under starting, and not merely a
fixed point. `FileLeads` and `AgendaFits`: what is left to remove and to mount
takes the tree to the target, and the target is the file.

### The index

Assumption: `SweepAssumption` (what a cutoff, an anchor and a row count are
over, positive limits). Nothing bounds files, versions, rows, batch sizes,
budgets or compositions.

* `MarkedAreSearchable`, `NoRowsAstray`, `TypeCorrect`,
  `StaleNeverLooksClean`: `IndexedIsSearchable`, `NoStrayRows`, `TypeOK`,
  `NothingStaleLooksClean` are invariants.
* `TellingLooksAreEnough`: if no two versions of a file look alike, what is
  indexed and looks unchanged is the file as it is.
* `SweepImplementsWholeSources`: `Spec => Whole!Spec`, with the subtree, the
  search rows, the marks and the pending re-embed for the variables of
  `WholeSources`. Landing a batch is `Show`, writing and removing are
  `Replace`, what recording a source as seen does is `Unmark`.

A mark is set when a completion lands, long after the subtree was written, and
the rows in between are in a buffer. So the invariant is about the stream: the
cursors are in order (`Cursors`); a completion waits behind every row of its
source that is not yet searchable (`DoneBehindRows`); a row that waits is one
of its source's *present* subtree (`RowsCurrent`), which holds because nothing
waits of a source still to be written (`Unwritten`) and because a stage outlives
its run only with what was submitted (`StageAtWork`). During a re-embed there
are no completions, and every source is still to be pushed, or whole between
tables and stream (`Reembedding`), so that the tables may be declared complete.
`built <= identity` keeps a finished re-embed from being that of another
identity. For staleness `FreshInv` follows a version from the enumeration to
the mark: what was read is no older than a version that looked as enumerated
(`ReadsFresh`), no
planner has read before the enumeration ended (`NotYetRead`), and what is
marked, or about to be, was made from a version no older than one that looks as
recorded (`FilesFresh`).

### Routing

Assumption: `RoutingAssumption` (nodes and rosters are over the nodes, there is
a steward to ask). Nothing bounds nodes, wirings, faults or the budget.

* `TypeCorrect`, `EveryWalkDiesOut`: `TypeOK`, `WalksDieOut` are invariants.
* `BranchesAreDistinct`: no node is asked twice along one path, and a request
  finds no frame of its path where it arrives.
* `NoAnswerIsMadeUp`: `Spec => []ServedIsReachable`, without any premise.
* `NoneIsMissed`: under `NothingIsCut`, `Spec => []~Missed`.
* `FoundExactly`: under `NothingIsCut` and `NoShortcuts`,
  `Spec => []FoundIfReachable`.

`WalksDieOut` needs that a frame never asks a node of its own path
(`FrameOK`), and that a reply never says "loop" (`NeverRefused`), which follows
from the requests being on walks (`RequestOK`); the step of a relay is one
lemma on appending to an injective path (`WalkGoesOn`).

That nothing is missed is an invariant of the search as a whole. Take any walk
within the budget: as long as the read has no answer, the search is somewhere
along it (`Along`), either with a request on its way to the next node, or with a
frame that has the next node still to try or is asking it now (`Pursued`), so
a search that ends without an answer has had no such walk (`AllFound`). Two premises
are the code's own limits. `NothingIsCut`: no node has more candidates than
`STEWARDS_TRIED_MAX` and `RELAY_PEERS_MAX` let it ask, since `take` leaves out
the rest. `NoShortcuts`: a steward that forwards has its sessions from the
start. One that has not is given them by the branches that ask it, and may
forward over those on a walk shorter than the asker's; then the read is served
although over the first sessions alone nothing was in reach. `FoundIfReachable`
speaks of those, so its other half needs the second premise;
`NoAnswerIsMadeUp` says what holds without it: what was served can be reached
over links between nodes that had sessions or could be given them. Branches
are told apart by their paths: a frame crosses off whom it has tried
(`NoneIsLeftTwice`), and whatever is on its way below it was tried by it
(`BranchesWereTried`).

### The batch lane

Assumption: `BatchLaneAssumption` (calls have models and sizes, the limits are
positive, a job fits into the queue). Nothing bounds calls, leaders or jobs.

* `LaneIsInOrder`: `Spec => []LaneInv`.
* `CallsAreNeverLost`, `ParkedAreAlwaysLed`, `AnswersAreNeverCrossed`:
  `NoCallIsLost`, `ParkedIsLed`, `AnswersAreOwn` are invariants.

A call changes hands four times: the queue, the leader's hand, the job in
flight, the delivery. `EachIsCarried` counts the places that carry it, one
while it waits and none once it is settled; `HandsAreOrderly` says what a
leader holds at each of its steps and `LedByOne` that the flag and the leaders
agree. That `take_job` never returns an empty job (`JobsHaveCalls`) is an
induction on the queue, by the greatest prefix that fits (`GreatestUpTo`).

### Grants

Assumption: `GrantsAssumption` (what calls and attempts may be is over their
kinds, limits are positive, `Nobody` is neither). Nothing bounds calls,
attempts, rotations or remounts.

* `GrantIsInOrder`: `Spec => []IInv`.
* `NoTokenIsUsedTwice`, `RevokedIsGone`, `PlacesAgree`: `RefusedOnlyIfLost`,
  `RevokedStaysRevoked`, `StoresAgree` are invariants.

`IInv` has layers. `CallsInv` is inductive by itself: what a call holds at each
phase, and that who refreshes has the lock of its handle, whose memory is still
what it sent (`IsLocked`). `StoreInv`: as long as no finish stored beside
another call, nobody stored for a replaced handle and no caller left between
file and handle (`crossed`), a call that stores is alone, and the file, the
memory and the listeners differ only by how far it has come (`IsStoredFor`).
`ForgottenInv` does not rest on it: a revocation that finds, when it removes the
file, that nobody else has the authorization out of the lock's reach
(`IsElsewhere`) is the `sole` one, it stays so until it takes the tokens
(`SoleInv`), since nothing leads from the lock's handle to another place but
under the lock, and what it took is in no place a call or a load could take it
from, stores crossing or not. `FreshInv` says which
refresh token the provider still takes: whatever may be refreshed is the
latest, or its successor is on its way and will be written over it before
anybody is let in (`Rotating`), or was lost. `UnsetInv` is what that needs of
an authorization that was exchanged and not stored yet: it is nowhere else,
except where a later handle has loaded it from the file (`IsApart`). The
actions are first described by what they touch (`NextDoes`), and what keeps
`CallsInv` is one predicate of such a description (`Tame`).

### Model-checked only

Every safety invariant and every safety action property that a run checks is
stated by a theorem. The liveness properties `LogsConverge`, `ExchangesEnd`,
`ViewCatchesUp`, `TablesAgree`, `Settles`, `EverythingIsIndexed`,
`EveryBranchEnds` and `EveryCallIsAnswered` are out of the proof system's reach.
What is proved beside some of them is the half that is safety: where the nodes
come to rest, or catch up, or settle, the result is right (`RestingTablesAgree`,
`CaughtUpLogsAreEqual`, `RunsExactlyWhatItCan`, `NoneIsMissed`); that they do
come to rest is what the runs show. Induction over data is out of reach, too,
where the library's induction theorems would be used; the modules above that
need it take the least counterexample of a set of numbers instead
(`LeastNatural`, from the library's theorem on well-founded relations).

## 6. Plan

Done: sync and the store's logs with their abstract specification (`AddressSync`,
`SharedHistory`), roster admission
(`RosterAdmission`), transport sessions (`Sessions`), the plugin tree
(`Reconciler`), the index run and its abstract specification (`Sweep`,
`WholeSources`), routed reads (`Routing`), the batch lane (`BatchLane`), OAuth
grants (`Grants`). What would come next, in this order:

1. `RosterAdmission` and `Sessions` composed: `Refuse` as the replacement of
   the view, `expel` with its disconnect in the middle.
2. `AddressSync`: a rollback and a rebuild in the middle of an exchange; the
   fate of expulsions a later-expelled node authored.
3. `Reconciler`: the queue of edits with its timeout beside the submitter.

### Not modelled

Most of the repository's lines are not protocol: adapters to hosts and models
(connections, transforms, finder, embedder), pure parsing and value types, the
vocabulary's mining and ranking, request handlers over the other parts, the
HTTP, FFI and command-line edges, the front ends, the conformance harness and
the benchmarks. They keep no state of their own beyond a call, or compute a
result from an input, and a state machine of them would restate them. Inside
the modelled parts, left out are: bounds refusals and column widths of log
entries, layout migrations, queries and ranking, plugin state and power loss
(store); peer views and the order of a round's peers (sync); the published
baseline and the stewardship plan's diff (roster); streams and the protocol
registry (transport); custom effects, layering of documents, the edit queue
(kernel); several folder levels, ignore rules, transforms and their cache, the
spending meter, the vocabulary pass (sweep); the query fan-out (routing); the
interactive lane (llm endpoint); several grants, missing client secrets, the
waiters (oauth). `PROJECT.json` lists every component with the reason, and
every hazard with its line and the properties that cover it.

## 7. Running

    tlc -workers 2 -config sync_backbone.cfg MC_AddressSync
    tlc -workers 2 -config admission.cfg RosterAdmission
    tlc -workers 2 -config sessions.cfg MC_Sessions
    tlc -workers 2 -config reconcile.cfg MC_Reconciler
    tlc -workers 2 -config index.cfg MC_Sweep
    tlc -workers 2 -config routing.cfg MC_Routing
    tlc -workers 2 -config batch.cfg MC_BatchLane
    tlc -workers 2 -config grants.cfg MC_Grants
    tlapm AddressSync_proofs.tla
    tlapm RosterAdmission_proofs.tla
    tlapm Sessions_proofs.tla
    tlapm Reconciler_proofs.tla
    tlapm Sweep_proofs.tla
    tlapm Routing_proofs.tla
    tlapm BatchLane_proofs.tla
    tlapm Grants_proofs.tla
