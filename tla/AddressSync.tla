----------------------------- MODULE AddressSync -----------------------------
(***************************************************************************)
(* The replicated address log at work: nodes write their own logs, and     *)
(* exchange what the other lacks over `inseam/sync/1`                      *)
(* (inseam-plugins/src/sync/exchange.rs over                               *)
(* inseam-kernel/src/store/replication.rs).                                *)
(*                                                                         *)
(* A batch of a peer's entries lands one entry at a time under the store's *)
(* write lock, and reads do not take that lock: version_vector and         *)
(* log_after see a batch that is half landed, since the whole store is one *)
(* connection, and they see the log between the statements of one write:   *)
(* compaction has deleted the older entry of a key, or a new epoch all the *)
(* old ones, and the new entry is not inserted yet.  A write is decided    *)
(* when it begins, its lock keeping every other writer out: `log` is what  *)
(* it makes of the log, `table` the rows a reader finds meanwhile.  Each   *)
(* await of an exchange is a step of its own, so any number of exchanges   *)
(* interleave on both nodes.  Requests time out, and a request given up on *)
(* may still be served later.                                              *)
(***************************************************************************)
EXTENDS ReplicatedStore

CONSTANTS Exchanges,  \* exchanges that can be under way at once
          Dials,      \* <<n, p>>: n has an endpoint of p, or a session with it
          Expellable, \* the nodes the owner may expel
          BatchMax,   \* LOG_ENTRIES_PER_BATCH_MAX
          RoundsMax,  \* ROUNDS_MAX
          SeqMax,     \* bound: entries each node writes in one epoch
          EpochMax,   \* bound: epochs of each node's log
          LateMax     \* bound: abandoned requests still in flight

\* Who holds a write lock besides an exchange: nobody, or a request nobody
\* waits for any more.
Nobody    == "nobody"
Abandoned == "abandoned"

ASSUME SyncAssumption ==
    /\ Dials \subseteq Nodes \X Nodes
    /\ Expellable \subseteq Nodes
    /\ Names # {}
    /\ Exchanges \cap {Nobody, Abandoned} = {}
    /\ BatchMax \in Nat \ {0}
    /\ RoundsMax \in Nat \ {0, 1}
    /\ SeqMax \in [Nodes -> Nat] /\ EpochMax \in [Nodes -> Nat]

VARIABLES epoch,     \* the epoch each node's own log runs under
          mark,      \* the high-water mark of each node's own log
          log,       \* the entries each node holds, of every origin, once the
                     \* write under way is through
          table,     \* the rows of sync_log a reader finds on each node
          catalog,   \* the source rows of each node
          roster,    \* the roster tables of each node
          tx,        \* the batch each node is landing, under its write lock
          exchange,  \* each exchange: where it stands and what it has in hand
          late,      \* requests whose requester gave up
          history    \* history variable: every entry ever written

storeVars == <<epoch, mark, log, table, catalog, roster>>
wireVars  == <<exchange, late>>
vars      == <<epoch, mark, log, table, catalog, roster, tx, exchange, late, history>>

NoOne   == 0
NoBatch == {}
EmptyVector == [o \in Nodes |-> NoPosition]
Vectors == [Nodes -> Positions]

Unlocked == [by |-> Nobody, rest |-> NoBatch, positions |-> EmptyVector, news |-> FALSE]

Phases == {"idle", "ready", "request", "serving", "served", "answering",
           "response", "merging", "merged"}
\* The requester waits in round_trip.
Waiting == {"request", "serving", "served", "answering", "response"}

\* asked: the vector of the request; learned: the vector of the response;
\* previous: the response vector of the round before, against which the
\* entries of a request were chosen.
Idle == [phase |-> "idle", from |-> NoOne, to |-> NoOne, round |-> 0,
         asked |-> EmptyVector, learned |-> EmptyVector, previous |-> EmptyVector,
         batch |-> NoBatch, news |-> FALSE]

\* The name every node first publishes itself under.
FirstName == CHOOSE v \in Names : TRUE

\* A node publishes its own record before its roster service is up, so no
\* exchange ever runs on a store without it.
FirstEntry(n, ep) == [origin |-> n, epoch |-> ep, seq |-> 1, record |-> NodeRecord(n, FirstName)]
FirstRoster(n)    == [EmptyRoster EXCEPT !.nodes = {[node |-> n, name |-> FirstName]}]

Init ==
    /\ epoch    = [n \in Nodes |-> 1]
    /\ mark     = [n \in Nodes |-> 1]
    /\ log      = [n \in Nodes |-> {FirstEntry(n, 1)}]
    /\ table    = [n \in Nodes |-> {FirstEntry(n, 1)}]
    /\ catalog  = [n \in Nodes |-> {}]
    /\ roster   = [n \in Nodes |-> FirstRoster(n)]
    /\ tx       = [n \in Nodes |-> Unlocked]
    /\ exchange = [i \in Exchanges |-> Idle]
    /\ late     = {}
    /\ history  = {FirstEntry(n, 1) : n \in Nodes}

-----------------------------------------------------------------------------
(* Writing the local log *)

\* The rows are those the last write was to leave.
Written(n) == table[n] = log[n]

WriteFree(n) == tx[n] = Unlocked /\ Written(n)

NextEntry(n, r) == [origin |-> n, epoch |-> epoch[n], seq |-> mark[n] + 1, record |-> r]

\* append_local_in up to the DELETE of the key's earlier entry.
Logged(n, r) ==
    /\ mark[n] < SeqMax[n]
    /\ mark'    = [mark EXCEPT ![n] = @ + 1]
    /\ log'     = [log EXCEPT ![n] = HeldLog(@, NoPosition, n, NextEntry(n, r))]
    /\ table'   = [table EXCEPT ![n] = Begun(@, NoPosition, NextEntry(n, r))]
    /\ history' = history \cup {NextEntry(n, r)}
    /\ UNCHANGED <<epoch, tx, wireVars>>

\* The row is written at every sighting, and logged when it is news.
UpsertSource(n, a, v) ==
    /\ WriteFree(n)
    /\ IF IsNews(catalog[n], a, v)
       THEN Logged(n, SourceRecord(a, v))
       ELSE UNCHANGED <<epoch, mark, log, table, tx, wireVars, history>>
    /\ catalog' = [catalog EXCEPT ![n] = SourceWritten(@, Local, a, v)]
    /\ UNCHANGED roster

\* The sweep deletes only rows it listed as this node's own.
DeleteSource(n, a) ==
    /\ WriteFree(n)
    /\ \E r \in RowsAt(catalog[n], a) :
          /\ r.steward = Local
          /\ Logged(n, SourceGoneRecord(a))
          /\ catalog' = [catalog EXCEPT ![n] = @ \ {r}]
    /\ UNCHANGED roster

Publish(n, r) ==
    /\ WriteFree(n)
    /\ Logged(n, r)
    /\ catalog' = [catalog EXCEPT ![n] = CatalogAfter(@, NoPosition, n, NextEntry(n, r))]
    /\ roster'  = [roster EXCEPT ![n] = RosterAfter(@, NoPosition, n, NextEntry(n, r))]

Wrote(n, r) == \E e \in log[n] : e.origin = n /\ e.record = r

PublishNode(n, v) == Publish(n, NodeRecord(n, v))

\* reconcile_stewardships: the host's record, then the claim on it, each a
\* transaction of its own; a claim is withdrawn only once it was published.
PublishHost(n, h, v) ==
    /\ ~Wrote(n, HostRecord(h, v))
    /\ Publish(n, HostRecord(h, v))

PublishStewardship(n, h) ==
    /\ \E v \in Names : Wrote(n, HostRecord(h, v))
    /\ ~Wrote(n, StewardshipRecord(n, h))
    /\ Publish(n, StewardshipRecord(n, h))

WithdrawStewardship(n, h) ==
    /\ Wrote(n, StewardshipRecord(n, h))
    /\ Publish(n, WithdrawnRecord(n, h))

\* A node refuses to expel itself.
Expel(n, x) ==
    /\ x # n
    /\ Publish(n, ExpulsionRecord(x))

\* The rest of a write: insert_entry_in, and last, when the entry is an
\* expulsion, the DELETEs of its purge.
InsertEntry(n) ==
    /\ log[n] \ table[n] # {}
    /\ table' = [table EXCEPT ![n] = @ \cup log[n]]
    /\ UNCHANGED <<epoch, mark, log, catalog, roster, tx, wireVars, history>>

PurgeEntries(n) ==
    /\ log[n] \subseteq table[n] /\ ~Written(n)
    /\ table' = [table EXCEPT ![n] = log[n]]
    /\ UNCHANGED <<epoch, mark, log, catalog, roster, tx, wireVars, history>>

-----------------------------------------------------------------------------
(* Landing a batch: apply_remote *)

OpenTx(n, by, batch) ==
    [by |-> by, rest |-> batch, positions |-> Vector(log[n]), news |-> FALSE]

\* An echo of the node's own log, or an entry its positions already cover.
SkipEntry(n) ==
    \E e \in tx[n].rest :
        /\ Written(n)
        /\ IsFirst(e, tx[n].rest)
        /\ e.origin = n \/ ~Lacks(tx[n].positions[e.origin], e)
        /\ tx' = [tx EXCEPT ![n].rest = @ \ {e}]
        /\ UNCHANGED <<storeVars, wireVars, history>>

\* What is left of a landing once an entry is held.
Landed(t, e) ==
    [t EXCEPT !.rest = t.rest \ {e},
              !.positions = [t.positions EXCEPT ![e.origin] = [epoch |-> e.epoch, seq |-> e.seq]],
              !.news = t.news \/ Speaks(e.origin, e.record)]

\* The positions are read once, when the batch opens, and kept by the loop:
\* a purge the batch itself carries does not move them.  hold_entry_in up to
\* its INSERT, and what the entry will have made of catalog and roster.
HoldEntry(n) ==
    \E e \in tx[n].rest :
        LET known == tx[n].positions[e.origin] IN
        /\ Written(n)
        /\ IsFirst(e, tx[n].rest)
        /\ e.origin # n
        /\ Lacks(known, e)
        /\ log'     = [log EXCEPT ![n] = HeldLog(@, known, n, e)]
        /\ table'   = [table EXCEPT ![n] = Begun(@, known, e)]
        /\ catalog' = [catalog EXCEPT ![n] = CatalogAfter(@, known, n, e)]
        /\ roster'  = [roster EXCEPT ![n] = RosterAfter(@, known, n, e)]
        /\ tx' = [tx EXCEPT ![n] = Landed(tx[n], e)]
        /\ UNCHANGED <<epoch, mark, wireVars, history>>

\* WRONG: only a batch somebody still waits for is committed.
CommitIfAwaited(n) ==
    /\ tx[n].by \in Exchanges
    /\ tx[n].rest = NoBatch /\ Written(n)
    /\ tx' = [tx EXCEPT ![n] = Unlocked]
    /\ exchange' = [exchange EXCEPT ![tx[n].by] =
                      IF @.phase = "serving"
                      THEN [@ EXCEPT !.phase = "served"]
                      ELSE [@ EXCEPT !.phase = "merged", !.news = tx[n].news]]
    /\ UNCHANGED <<storeVars, late, history>>

Commit(n) ==
    /\ tx[n].by # Nobody
    /\ tx[n].rest = NoBatch /\ Written(n)
    /\ tx' = [tx EXCEPT ![n] = Unlocked]
    /\ exchange' = IF tx[n].by = Abandoned THEN exchange
                   ELSE [exchange EXCEPT ![tx[n].by] =
                           IF @.phase = "serving"
                           THEN [@ EXCEPT !.phase = "served"]
                           ELSE [@ EXCEPT !.phase = "merged", !.news = tx[n].news]]
    /\ UNCHANGED <<storeVars, late, history>>

-----------------------------------------------------------------------------
(* The requester: exchange and round_trip *)

\* choose_peers: a peer is one the node can reach, never itself nor one it
\* knows expelled.
\* The first request carries the vector and nothing else.
StartExchange(i, n, p) ==
    /\ exchange[i].phase = "idle"
    /\ <<n, p>> \in Dials
    /\ p \notin {n} \cup roster[n].expelled
    /\ exchange' = [exchange EXCEPT ![i] =
                      [Idle EXCEPT !.phase = "request", !.from = n, !.to = p, !.round = 1,
                                   !.asked = Vector(table[n])]]
    /\ UNCHANGED <<storeVars, tx, late, history>>

\* Every later request carries the vector of its own moment beside entries
\* chosen before.
SendRequest(i) ==
    /\ exchange[i].phase = "ready"
    /\ exchange' = [exchange EXCEPT ![i].phase = "request",
                                    ![i].asked = Vector(table[exchange[i].from])]
    /\ UNCHANGED <<storeVars, tx, late, history>>

\* apply_batch returns early on an empty batch; otherwise it waits for the
\* write lock.
BeginMerge(i) ==
    LET x == exchange[i] IN
    /\ x.phase = "response"
    /\ IF x.batch = NoBatch
       THEN /\ exchange' = [exchange EXCEPT ![i].phase = "merged", ![i].news = FALSE,
                                            ![i].asked = EmptyVector]
            /\ UNCHANGED tx
       ELSE /\ WriteFree(x.from)
            /\ tx' = [tx EXCEPT ![x.from] = OpenTx(x.from, i, x.batch)]
            /\ exchange' = [exchange EXCEPT ![i].phase = "merging", ![i].batch = NoBatch,
                                            ![i].asked = EmptyVector]
    /\ UNCHANGED <<storeVars, late, history>>

Outbound(i) == LogAfter(table[exchange[i].from], exchange[i].learned, BatchMax)

\* Neither side had news, or the peer's vector stands still.
Settled(i) ==
    /\ ~exchange[i].news
    /\ Outbound(i) = NoBatch \/ exchange[i].learned = exchange[i].previous

Finish(i) ==
    /\ exchange[i].phase = "merged"
    /\ Settled(i) \/ exchange[i].round = RoundsMax
    /\ exchange' = [exchange EXCEPT ![i] = Idle]
    /\ UNCHANGED <<storeVars, tx, late, history>>

NextRound(i) ==
    /\ exchange[i].phase = "merged"
    /\ ~Settled(i)
    /\ exchange[i].round < RoundsMax
    /\ exchange' = [exchange EXCEPT ![i] =
                      [@ EXCEPT !.phase = "ready", !.round = exchange[i].round + 1,
                                !.batch = Outbound(i), !.previous = exchange[i].learned,
                                !.learned = EmptyVector, !.news = FALSE]]
    /\ UNCHANGED <<storeVars, tx, late, history>>

-----------------------------------------------------------------------------
(* The responder: Handler::handle *)

BeginServe(i) ==
    LET x == exchange[i] IN
    /\ x.phase = "request"
    /\ IF x.batch = NoBatch
       THEN /\ exchange' = [exchange EXCEPT ![i].phase = "served"]
            /\ UNCHANGED tx
       ELSE /\ WriteFree(x.to)
            /\ tx' = [tx EXCEPT ![x.to] = OpenTx(x.to, i, x.batch)]
            /\ exchange' = [exchange EXCEPT ![i].phase = "serving", ![i].batch = NoBatch]
    /\ UNCHANGED <<storeVars, late, history>>

ReadVector(i) ==
    /\ exchange[i].phase = "served"
    /\ exchange' = [exchange EXCEPT ![i].phase = "answering",
                                    ![i].learned = Vector(table[exchange[i].to])]
    /\ UNCHANGED <<storeVars, tx, late, history>>

\* WRONG: the answer is chosen against the responder's own vector.
ReadLogAgainstOwn(i) ==
    LET x == exchange[i] IN
    /\ x.phase = "answering"
    /\ exchange' = [exchange EXCEPT ![i].phase = "response",
                                    ![i].batch = LogAfter(table[x.to], x.learned, BatchMax)]
    /\ UNCHANGED <<storeVars, tx, late, history>>

ReadLog(i) ==
    LET x == exchange[i] IN
    /\ x.phase = "answering"
    /\ exchange' = [exchange EXCEPT ![i].phase = "response",
                                    ![i].batch = LogAfter(table[x.to], x.asked, BatchMax)]
    /\ UNCHANGED <<storeVars, tx, late, history>>

-----------------------------------------------------------------------------
(* Timeouts *)

\* The requester gives up.  A request not yet served may be lost or may
\* still arrive; a batch being landed for it lands all the same; an answer
\* has nobody to go to.
Abandon(i) ==
    LET x == exchange[i] IN
    /\ x.phase \in Waiting
    /\ exchange' = [exchange EXCEPT ![i] = Idle]
    /\ tx' = IF x.phase = "serving" THEN [tx EXCEPT ![x.to].by = Abandoned] ELSE tx
    /\ \/ late' = late
       \/ /\ x.phase = "request" /\ x.batch # NoBatch
          /\ Cardinality(late) < LateMax
          /\ late' = late \cup {[to |-> x.to, batch |-> x.batch, base |-> x.previous]}
    /\ UNCHANGED <<storeVars, history>>

ServeLate ==
    \E m \in late :
        /\ WriteFree(m.to)
        /\ tx' = [tx EXCEPT ![m.to] = OpenTx(m.to, Abandoned, m.batch)]
        /\ late' = late \ {m}
        /\ UNCHANGED <<storeVars, exchange, history>>

LoseLate ==
    \E m \in late :
        /\ late' = late \ {m}
        /\ UNCHANGED <<storeVars, tx, exchange, history>>

-----------------------------------------------------------------------------
(* A rebuilt store: converge_schema drops everything and mints a new epoch *)

Rebuilt(n) ==
    /\ epoch[n] < EpochMax[n]
    /\ epoch'   = [epoch EXCEPT ![n] = @ + 1]
    /\ mark'    = [mark EXCEPT ![n] = 1]
    /\ log'     = [log EXCEPT ![n] = {FirstEntry(n, epoch[n] + 1)}]
    /\ table'   = [table EXCEPT ![n] = {FirstEntry(n, epoch[n] + 1)}]
    /\ catalog' = [catalog EXCEPT ![n] = {}]
    /\ roster'  = [roster EXCEPT ![n] = FirstRoster(n)]
    /\ history' = history \cup {FirstEntry(n, epoch[n] + 1)}

\* Nobody is in the middle of an exchange with the node.
Quiet(n) == /\ WriteFree(n)
            /\ \A i \in Exchanges : n \notin {exchange[i].from, exchange[i].to}
            /\ \A m \in late : m.to # n

Rebuild(n) == Quiet(n) /\ Rebuilt(n) /\ UNCHANGED <<tx, wireVars>>

-----------------------------------------------------------------------------
Write(n) ==
    \/ \E a \in Addresses : \/ \E v \in Envelopes : UpsertSource(n, a, v)
                            \/ DeleteSource(n, a)
    \/ \E v \in Names : PublishNode(n, v)
    \/ \E h \in Hosts : \/ \E v \in Names : PublishHost(n, h, v)
                        \/ PublishStewardship(n, h)
                        \/ WithdrawStewardship(n, h)
    \/ \E x \in Expellable : Expel(n, x)
    \/ Rebuild(n)

Land(n) == \/ SkipEntry(n) \/ HoldEntry(n) \/ Commit(n)
           \/ InsertEntry(n) \/ PurgeEntries(n)

Proceed(i) == \/ SendRequest(i) \/ ReadVector(i) \/ ReadLog(i)
              \/ Finish(i) \/ NextRound(i)

Next == \/ \E n \in Nodes : Write(n) \/ Land(n)
        \/ \E i \in Exchanges : \/ \E n, p \in Nodes : StartExchange(i, n, p)
                                \/ Proceed(i) \/ BeginServe(i) \/ BeginMerge(i)
                                \/ Abandon(i)
        \/ ServeLate
        \/ LoseLate

Spec == Init /\ [][Next]_vars

\* The sync timer starts an exchange with every peer round after round; a
\* task waiting for the write lock is served in turn (a tokio mutex is
\* fair); every other step of a running exchange is simply taken.
Fairness ==
    /\ \A d \in Dials : SF_vars(\E i \in Exchanges : StartExchange(i, d[1], d[2]))
    /\ \A i \in Exchanges : /\ WF_vars(Proceed(i))
                            /\ SF_vars(BeginServe(i))
                            /\ SF_vars(BeginMerge(i))
    /\ \A n \in Nodes : WF_vars(Land(n))
    /\ WF_vars(ServeLate \/ LoseLate)

\* The network stays up from some point on.
EventuallyReliable == <>[][\A i \in Exchanges : ~Abandon(i)]_vars

FairSpec == Spec /\ Fairness /\ EventuallyReliable

-----------------------------------------------------------------------------
(* What must hold *)

Batches == SUBSET Entry

Landings == [by : Exchanges \cup {Nobody, Abandoned}, rest : Batches,
             positions : Vectors, news : BOOLEAN]

Conversations == [phase : Phases, from : Nodes \cup {NoOne}, to : Nodes \cup {NoOne},
                  round : 0..RoundsMax,
                  asked : Vectors, learned : Vectors, previous : Vectors,
                  batch : Batches, news : BOOLEAN]

LateRequests == [to : Nodes, batch : Batches, base : Vectors]

\* Every variable has its shape: positions, batches and rows are of the sets
\* the store and the wire protocol define.
TypeOK ==
    /\ epoch   \in [Nodes -> Nat]
    /\ mark    \in [Nodes -> Nat]
    /\ log     \in [Nodes -> Batches]
    /\ table   \in [Nodes -> Batches]
    /\ catalog \in [Nodes -> SUBSET SourceRow]
    /\ roster  \in [Nodes -> Rosters]
    /\ tx      \in [Nodes -> Landings]
    /\ exchange \in [Exchanges -> Conversations]
    /\ late    \subseteq LateRequests
    /\ history \subseteq Entry

\* The code compacts an entry once a later one of its log has the same key.
Superseded(hist, h) ==
    \E g \in hist : /\ g.origin = h.origin /\ g.epoch = h.epoch
                   /\ Key(g.record) = Key(h.record) /\ g.seq > h.seq

EverExpelled(hist) == {h.record.about : h \in {g \in hist : g.record.kind = "Expulsion"}}

Covers(known, h) == known.epoch = h.epoch /\ h.seq <= known.seq

\* Every entry the positions of a log claim is in it or was compacted by a
\* later one.
Honest(hist, held) ==
    \A h \in hist :
        h.origin \notin EverExpelled(hist) /\ Covers(HeldPosition(held, h.origin), h)
          => h \in held \/ Superseded(hist, h)

\* A vector tells the truth: whatever (epoch, sequence) version_vector
\* reports for an origin that was never expelled, every entry the origin
\* wrote up to there is in the log or was compacted by a later one.  It is
\* what makes "ship what the vector lacks" enough, and it must hold in the
\* middle of a batch, and of a write, too, where version_vector already
\* reads it.
HonestVectors == \A n \in Nodes : Honest(history, table[n])

\* A node whose position reached the origin's high-water mark holds that
\* origin's log exactly: nothing missing and nothing compacted left behind.
CaughtUpIsEqual ==
    \A n, o \in Nodes :
        o \notin EverExpelled(history) /\ HeldPosition(log[n], o) = [epoch |-> epoch[o], seq |-> mark[o]]
          => OfOrigin(log[n], o) = OfOrigin(log[o], o)

\* An (origin, epoch, sequence) names one entry for ever, across compaction
\* and rebuilds: append_local_in numbers from the mark and converge_log_in
\* mints a larger epoch.
SequenceIdentifiesEntry ==
    \A g, h \in history :
        g.origin = h.origin /\ g.epoch = h.epoch /\ g.seq = h.seq => g = h

\* The local half of the catalog and the local log say the same: this node's
\* own row exists exactly while the last thing it logged of the address is
\* that row's envelope.  A takeover of a peer's row must therefore be logged.
OwnRowsAreLogged ==
    \A n \in Nodes : \A a \in Addresses : \A v \in Envelopes :
        ([address |-> a, envelope |-> v, steward |-> Local] \in catalog[n])
          <=> Wrote(n, SourceRecord(a, v))

Said(held, o, r) == \E e \in held : e.origin = o /\ e.record = r

CatalogIsBacked(held, rows) ==
    \A r \in rows : r.steward # Local => Said(held, r.steward, SourceRecord(r.address, r.envelope))

RosterIsBacked(held, ros) ==
    /\ \A r \in ros.nodes : Said(held, r.node, NodeRecord(r.node, r.name))
    /\ \A r \in ros.hosts : Said(held, r.origin, HostRecord(r.host, r.name))
    /\ \A r \in ros.stewards : Said(held, r.node, StewardshipRecord(r.node, r.host))

\* Every row a node shows of a peer is the last word of a log it holds: no
\* row outlives its entry through compaction, tombstones, withdrawals,
\* takeovers, purges and rebuilds, in whatever order logs arrive.
RowsAreBacked ==
    \A n \in Nodes : CatalogIsBacked(log[n], catalog[n]) /\ RosterIsBacked(log[n], roster[n])

SoleWriter(hist, e) == \A g \in hist : Key(g.record) = Key(e.record) => g.origin = e.origin

IsShown(e, rows, ros) ==
    CASE e.record.kind = "Source" ->
           \E r \in rows : r.address = e.record.about /\ r.envelope = e.record.value
      [] e.record.kind = "Node" ->
           [node |-> e.origin, name |-> e.record.value] \in ros.nodes
      [] e.record.kind = "Host" ->
           \E r \in ros.hosts : r.host = e.record.about /\ r.name = e.record.value
      [] e.record.kind = "Stewardship" ->
           [node |-> e.origin, host |-> e.record.host] \in ros.stewards
      [] e.record.kind = "Expulsion" -> e.record.about \in ros.expelled
      [] OTHER -> TRUE

\* Whatever a node holds of a key only one node ever wrote is in its rows:
\* the materialised view of single-writer keys is a function of the log.
SoleWriterIsMaterialized ==
    \A n \in Nodes : \A e \in log[n] :
        SoleWriter(history, e) => IsShown(e, catalog[n], roster[n])

\* A landing batch never touches what the node itself stewards.
PeersKeepOffLocalRows ==
    [][\A n \in Nodes : tx[n] # Unlocked =>
         {r \in catalog[n] : r.steward = Local} = {r \in catalog'[n] : r.steward = Local}]_vars

\* A vector version_vector reports never falls back, while the store lives and
\* except of a node this one knows expelled, other than at the DELETE of a
\* write, and then of the one origin whose entry is about to be inserted:
\* that entry carries the vector past where it was.
VectorsFallOnlyMidWrite ==
    [][\A n, o \in Nodes :
         table'[n] # table[n] /\ epoch'[n] = epoch[n] /\ o \notin roster'[n].expelled =>
           LET was == HeldPosition(table[n], o)
               now == HeldPosition(table'[n], o)
           IN  \/ was = now
               \/ Lacks(was, now)
               \/ /\ Written(n)
                  /\ \E e \in log'[n] \ table'[n] : e.origin = o /\ Lacks(was, e)]_vars

\* An expulsion a node knows is never forgotten, whatever becomes of the log
\* that carried it, until the store is rebuilt.
ExpulsionsStay ==
    [][\A n \in Nodes : epoch'[n] = epoch[n] =>
         roster[n].expelled \subseteq roster'[n].expelled]_vars

\* Once nobody writes and the network stays up, all nodes hold the same
\* logs, for good.
LogsConverge == <>[](\A n, p \in Nodes : log[n] = log[p])

\* A node that knows another one expelled holds nothing of it: no log, no
\* catalog row it stewarded, no roster row it produced or that describes it.
ExpelledIsPurged ==
    \A n \in Nodes : \A x \in roster[n].expelled \ {n} :
        /\ OfOrigin(log[n], x) = {}
        /\ \A r \in catalog[n] : r.steward # x
        /\ \A r \in roster[n].nodes : r.node # x
        /\ \A r \in roster[n].hosts : r.origin # x
        /\ \A r \in roster[n].stewards : r.node # x

\* Every exchange comes to an end, however much is written meanwhile.
ExchangesEnd == \A i \in Exchanges : exchange[i].phase # "idle" ~> exchange[i].phase = "idle"

Voids(e, f) == Superseded({e}, f)

Expels(e) == EverExpelled({e})

Opening(n) == FirstEntry(n, 1)

\* The exchanges keep the promise of SharedHistory: every node learns every
\* log in the order it was written and without a gap, whatever the vectors,
\* batches, rounds, timeouts and late requests by which it does.
Shared == INSTANCE SharedHistory WITH
    Entries <- Entry,
    First   <- Opening,
    held    <- log

ImplementsSharedHistory == Shared!Spec

-----------------------------------------------------------------------------
(* Why vectors stay honest: what holds of a batch on its way *)

AtOrAfter(p, q) == p.epoch < q.epoch \/ (p.epoch = q.epoch /\ p.seq <= q.seq)

\* What a vector said of the never expelled is still true of a log.
StillHeld(hist, vector, held) ==
    \A o \in Nodes \ EverExpelled(hist) : AtOrAfter(vector[o], HeldPosition(held, o))

\* A batch chosen against a vector leaves no entry of an origin out before
\* one it carries.
NoneLeftOut(hist, batch, vector) ==
    \A e \in batch : \A h \in hist :
        h.origin = e.origin /\ h.epoch = e.epoch /\ h.seq <= e.seq
          => \/ h.origin \in EverExpelled(hist)
             \/ ~Lacks(vector[h.origin], h)
             \/ h \in batch
             \/ Superseded(hist, h)

\* Entries are numbered from one and never ahead of their origin's mark.
HistoryIsMarked ==
    \A h \in history : /\ h.epoch > 0 /\ h.seq > 0
                       /\ h.epoch <= epoch[h.origin]
                       /\ h.epoch = epoch[h.origin] => h.seq <= mark[h.origin]

\* A held log is finite and authentic, of one epoch per origin, and each part
\* of an origin's log has a last entry.
WellFormed(hist, held) ==
    /\ held \subseteq hist
    /\ IsFiniteSet(held)
    /\ \A e, f \in held : e.origin = f.origin => e.epoch = f.epoch
    /\ \A o \in Nodes : \A part \in SUBSET OfOrigin(held, o) :
          part # {} => \E e \in part : \A f \in part : ~Lacks(e, f)

\* A node's own log is of its own epoch and ends at its mark.
HeldLogs ==
    \A n \in Nodes :
        /\ WellFormed(history, log[n])
        /\ \A e \in log[n] : e.origin = n => e.epoch = epoch[n]
        /\ \E e \in log[n] : e.origin = n /\ e.seq = mark[n]

\* What every log holds is honest, the write under way included.
LogsAreHonest == \A n \in Nodes : Honest(history, log[n])

\* The rows a reader finds are the log, but for the entry about to be
\* inserted, the last one of its origin, and for what of an expelled node is
\* about to be purged.
RowsFollow(hist, held, rows) ==
    /\ WellFormed(hist, rows)
    /\ \A o \in Nodes :
          \/ OfOrigin(rows, o) = OfOrigin(held, o)
          \/ \E e \in OfOrigin(held, o) : /\ OfOrigin(rows, o) = OfOrigin(held, o) \ {e}
                                         /\ \A f \in OfOrigin(rows, o) : Lacks(f, e)
          \/ OfOrigin(held, o) = {} /\ o \in EverExpelled(hist)

TablesFollow == \A n \in Nodes : RowsFollow(history, log[n], table[n])

\* The positions a landing batch goes by are those of the log, or, once a
\* purge has come between, at least cover it.
PositionsKept(hist, n, positions, held) ==
    \A o \in Nodes \ {n} :
        /\ o \notin EverExpelled(hist) => positions[o] = HeldPosition(held, o)
        /\ \A f \in OfOrigin(held, o) : Covers(positions[o], f)

LandsHonestly(hist, n, t, held) ==
    t.by # Nobody => /\ t.rest \subseteq hist
                     /\ NoneLeftOut(hist, t.rest, Vector(held))
                     /\ PositionsKept(hist, n, t.positions, held)

TxIsHonest == \A n \in Nodes : LandsHonestly(history, n, tx[n], log[n])

\* Who an exchange and a write lock belong to.
TxOwners ==
    /\ \A i \in Exchanges :
          LET x == exchange[i] IN
          /\ x.phase # "idle" => x.from \in Nodes /\ x.to \in Nodes
          /\ x.phase = "serving" => tx[x.to].by = i
          /\ x.phase = "merging" => tx[x.from].by = i
    /\ \A n \in Nodes : tx[n].by \in Exchanges =>
          LET x == exchange[tx[n].by] IN
          \/ x.phase = "serving" /\ x.to = n
          \/ x.phase = "merging" /\ x.from = n
    /\ \A n \in Nodes : tx[n].by = Nobody => tx[n] = Unlocked

\* What an exchange has in hand is honest against the vector it was chosen
\* by, and that vector still holds of the node it came from.
TalksHonestly(hist, x, logs) ==
    /\ x.batch \subseteq hist
    /\ x.phase \in {"ready", "request"} =>
          NoneLeftOut(hist, x.batch, x.previous) /\ StillHeld(hist, x.previous, logs[x.to])
    /\ x.phase \in Waiting => StillHeld(hist, x.asked, logs[x.from])
    /\ x.phase = "response" => NoneLeftOut(hist, x.batch, x.asked)
    /\ x.phase \in {"answering", "response", "merging", "merged"} =>
          StillHeld(hist, x.learned, logs[x.to])

ArrivesHonestly(hist, m, logs) ==
    /\ m.batch \subseteq hist
    /\ NoneLeftOut(hist, m.batch, m.base)
    /\ StillHeld(hist, m.base, logs[m.to])

WireIsHonest ==
    /\ \A i \in Exchanges : TalksHonestly(history, exchange[i], log)
    /\ \A m \in late : ArrivesHonestly(history, m, log)

\* The inductive invariant behind HonestVectors, with TablesFollow.
LogInv ==
    /\ SequenceIdentifiesEntry
    /\ HistoryIsMarked
    /\ HeldLogs
    /\ LogsAreHonest
    /\ TxIsHonest
    /\ TxOwners
    /\ WireIsHonest

-----------------------------------------------------------------------------
(* Why rows and logs say the same: what holds beside LogInv *)

\* Compaction leaves one entry of a key in every origin's log.
OneEntryPerKey(held) ==
    \A e, f \in held : e.origin = f.origin /\ Key(e.record) = Key(f.record) => e = f

OneRowPerAddress(rows) == \A r, q \in rows : r.address = q.address => r = q

\* Nothing a node wrote under its epoch is gone from its own log unless it
\* was overtaken by what is there.
OwnLogIsComplete ==
    \A h \in history : h.epoch = epoch[h.origin] =>
        \E f \in log[h.origin] : /\ f.origin = h.origin
                                 /\ Key(f.record) = Key(h.record)
                                 /\ f.seq >= h.seq

\* The inductive invariant behind RowsAreBacked, OwnRowsAreLogged,
\* SoleWriterIsMaterialized and, with LogInv, CaughtUpIsEqual.
RowInv ==
    /\ \A n \in Nodes : OneEntryPerKey(log[n]) /\ OneRowPerAddress(catalog[n])
    /\ \A h \in history : Speaks(h.origin, h.record)
    /\ OwnLogIsComplete
    /\ OwnRowsAreLogged
    /\ RowsAreBacked
    /\ SoleWriterIsMaterialized
=============================================================================
