--------------------------- MODULE ReplicatedStore ---------------------------
(***************************************************************************)
(* One node's replicated store: the per-origin logs and the rows they are  *)
(* materialised into (crates/inseam-kernel/src/store/replication.rs and    *)
(* the record types of crates/inseam-kernel/src/network.rs).               *)
(*                                                                         *)
(* The module has no state of its own.  A log is a set of entries, a       *)
(* catalog is a set of source rows and a roster is a record of the four    *)
(* roster tables; every operator maps one of them to the next.  The local  *)
(* log, which the code files under the empty origin and reports as the     *)
(* local id, is filed here under the local id.                             *)
(*                                                                         *)
(* Data is abstracted: an envelope, a node's name and endpoints, a host's  *)
(* display name are members of small sets; a row keeps what a later        *)
(* decision reads.                                                         *)
(*                                                                         *)
(* An operator whose comment starts with WRONG is a bug the code could     *)
(* have had; nothing uses it, and it shows that a property would notice.   *)
(***************************************************************************)
EXTENDS Integers, FiniteSets

CONSTANTS Nodes,      \* the ids of the owner's nodes; numbers, as ids are ordered
          Addresses,  \* addresses of sources
          Envelopes,  \* what can be said of a source (without `observed`)
          Hosts,      \* hosts that can be stewarded
          Names       \* versions of a node's or a host's own record

ASSUME StoreAssumption == Nodes \subseteq Nat \ {0}

-----------------------------------------------------------------------------
(* Records and entries *)

\* The steward of a row whose `origin` column is NULL: this node itself.
Local == 0

\* `host` and `value` of a record that has none.
Absent == 0

SourceRecord(a, v)        == [kind |-> "Source", about |-> a, host |-> Absent, value |-> v]
SourceGoneRecord(a)       == [kind |-> "SourceGone", about |-> a, host |-> Absent, value |-> Absent]
NodeRecord(n, v)          == [kind |-> "Node", about |-> n, host |-> Absent, value |-> v]
HostRecord(h, v)          == [kind |-> "Host", about |-> h, host |-> Absent, value |-> v]
StewardshipRecord(n, h)   == [kind |-> "Stewardship", about |-> n, host |-> h, value |-> Absent]
WithdrawnRecord(n, h)     == [kind |-> "StewardshipWithdrawn", about |-> n, host |-> h, value |-> Absent]
ExpulsionRecord(n)        == [kind |-> "Expulsion", about |-> n, host |-> Absent, value |-> Absent]

Records ==
    {SourceRecord(a, v) : a \in Addresses, v \in Envelopes}
      \cup {SourceGoneRecord(a) : a \in Addresses}
      \cup {NodeRecord(n, v) : n \in Nodes, v \in Names}
      \cup {HostRecord(h, v) : h \in Hosts, v \in Names}
      \cup {StewardshipRecord(n, h) : n \in Nodes, h \in Hosts}
      \cup {WithdrawnRecord(n, h) : n \in Nodes, h \in Hosts}
      \cup {ExpulsionRecord(n) : n \in Nodes}

\* A tombstone shares the key of what it buries.
KeyFamily(kind) == CASE kind = "SourceGone" -> "Source"
                     [] kind = "StewardshipWithdrawn" -> "Stewardship"
                     [] OTHER -> kind

Key(r) == <<KeyFamily(r.kind), r.about, r.host>>

Entry == [origin : Nodes, epoch : Nat, seq : Nat, record : Records]

-----------------------------------------------------------------------------
(* Positions and version vectors *)

Positions == [epoch : Nat, seq : Nat]

\* The position of an origin nothing is held of: every entry is news to it.
NoPosition == [epoch |-> 0, seq |-> 0]

\* VersionVector::lacks, the one definition of news: a newer epoch always,
\* an older one never, the same epoch by sequence.
Lacks(known, e) == \/ e.epoch > known.epoch
                   \/ e.epoch = known.epoch /\ e.seq > known.seq

OfOrigin(log, o) == {e \in log : e.origin = o}

\* The highest (epoch, sequence) held of one origin.
HeldPosition(log, o) ==
    IF OfOrigin(log, o) = {}
    THEN NoPosition
    ELSE LET top == CHOOSE e \in OfOrigin(log, o) : \A f \in OfOrigin(log, o) : ~Lacks(e, f)
         IN  [epoch |-> top.epoch, seq |-> top.seq]

Vector(log) == [o \in Nodes |-> HeldPosition(log, o)]

\* The order batches are read and applied in: by origin, epoch, sequence.
Before(e, f) == \/ e.origin < f.origin
                \/ e.origin = f.origin /\ Lacks(e, f)

\* WRONG: a batch is applied in whatever order it is read.
IsFirstAnyhow(e, batch) == e \in batch

IsFirst(e, batch) == \A f \in batch : f = e \/ Before(e, f)

Lacking(log, vector) == {e \in log : Lacks(vector[e.origin], e)}

\* WRONG: the batch limit cuts the oldest entries off, not the newest.
LogAfterNewest(log, vector, limit) ==
    {e \in Lacking(log, vector) :
        Cardinality({f \in Lacking(log, vector) : Before(e, f)}) < limit}

\* IndexStore::log_after: what the vector lacks, cut at the batch limit.
LogAfter(log, vector, limit) ==
    {e \in Lacking(log, vector) :
        Cardinality({f \in Lacking(log, vector) : Before(f, e)}) < limit}

-----------------------------------------------------------------------------
(* The log *)

\* Compaction: the latest entry under a key is the whole truth.
Compacted(log, e) ==
    {f \in log : ~ /\ f.origin = e.origin
                   /\ f.epoch = e.epoch
                   /\ Key(f.record) = Key(e.record)
                   /\ f.seq < e.seq}

\* append_local_in, given the next sequence of the high-water mark.
Appended(log, e) == Compacted(log, e) \cup {e}

PurgedLog(log, x) == {e \in log : e.origin # x}

\* hold_entry_in: a newer epoch supersedes everything its origin wrote.
Supersedes(known, e) == known # NoPosition /\ e.epoch > known.epoch

\* What the DELETEs of a write leave before its entry is inserted: the purge of
\* a superseded epoch, the compaction of the key.
Cleared(log, known, e) ==
    Compacted(IF Supersedes(known, e) THEN PurgedLog(log, e.origin) ELSE log, e)

\* The first a reader sees of a write: what the DELETEs took, or, when they took
\* nothing, the entry.
Begun(log, known, e) ==
    IF Cleared(log, known, e) = log THEN log \cup {e} ELSE Cleared(log, known, e)

\* WRONG: purges the author of the expulsion.
PurgedAuthor(local, e) == IF e.record.kind = "Expulsion" THEN {e.origin} \ {local} ELSE {}

\* The node a remote expulsion purges: not the one applying it, and not the
\* entry's own origin.
Purged(local, e) ==
    IF e.record.kind = "Expulsion" /\ e.record.about \notin {local, e.origin}
    THEN {e.record.about}
    ELSE {}

\* WRONG: a peer's log is appended to without compaction.
HeldLogUncompacted(log, known, local, e) ==
    LET base == IF Supersedes(known, e) THEN PurgedLog(log, e.origin) ELSE log
        held == IF e.origin = local THEN Appended(base, e) ELSE base \cup {e}
    IN  {f \in held : f.origin \notin Purged(local, e)}

HeldLog(log, known, local, e) ==
    LET base == IF Supersedes(known, e) THEN PurgedLog(log, e.origin) ELSE log
        held == Appended(base, e)
    IN  {f \in held : f.origin \notin Purged(local, e)}

-----------------------------------------------------------------------------
(* The catalog: at most one row per address *)

SourceRow == [address : Addresses, envelope : Envelopes, steward : Nodes \cup {Local}]

RowsAt(catalog, a) == {r \in catalog : r.address = a}

\* WRONG: the last writer wins, whoever it is.
SourceOverwritten(catalog, writer, a, v) ==
    (catalog \ RowsAt(catalog, a)) \cup {[address |-> a, envelope |-> v, steward |-> writer]}

\* WRONG: a remote row is never replaced.
SourceWrittenOnce(catalog, writer, a, v) ==
    IF writer # Local /\ RowsAt(catalog, a) # {}
    THEN catalog
    ELSE SourceOverwritten(catalog, writer, a, v)

\* write_source_row_in: a remote writer never touches a local row.
SourceWritten(catalog, writer, a, v) ==
    IF writer # Local /\ \E r \in RowsAt(catalog, a) : r.steward = Local
    THEN catalog
    ELSE (catalog \ RowsAt(catalog, a))
            \cup {[address |-> a, envelope |-> v, steward |-> writer]}

\* WRONG: a peer's row with the same envelope is not news.
IsNewsByEnvelope(catalog, a, v) == \A r \in RowsAt(catalog, a) : r.envelope # v

\* upsert_source_in: a new row, a row taken over from a peer, a changed one.
IsNews(catalog, a, v) == \A r \in RowsAt(catalog, a) : r.steward # Local \/ r.envelope # v

PurgedCatalog(catalog, x) == {r \in catalog : r.steward # x}

\* delete_remote_source_in: a tombstone removes only its origin's own row.
CatalogTombstoned(catalog, o, a) == {r \in catalog : ~(r.address = a /\ r.steward = o)}

\* WRONG: a superseding epoch leaves the rows of the old one.
CatalogAfterKeepingEpochs(catalog, known, local, e) ==
    LET r    == e.record
        rows == CASE r.kind = "Source"     -> SourceWritten(catalog, e.origin, r.about, r.value)
                  [] r.kind = "SourceGone" -> CatalogTombstoned(catalog, e.origin, r.about)
                  [] OTHER                 -> catalog
    IN  {row \in rows : row.steward \notin Purged(local, e)}

CatalogAfter(catalog, known, local, e) ==
    LET base == IF Supersedes(known, e) THEN PurgedCatalog(catalog, e.origin) ELSE catalog
        r    == e.record
        rows == CASE r.kind = "Source"     -> SourceWritten(base, e.origin, r.about, r.value)
                  [] r.kind = "SourceGone" -> CatalogTombstoned(base, e.origin, r.about)
                  [] OTHER                 -> base
    IN  {row \in rows : row.steward \notin Purged(local, e)}

-----------------------------------------------------------------------------
(* The roster tables *)

Rosters == [nodes    : SUBSET [node : Nodes, name : Names],
            hosts    : SUBSET [host : Hosts, name : Names, origin : Nodes],
            stewards : SUBSET [node : Nodes, host : Hosts],
            expelled : SUBSET Nodes]

EmptyRoster == [nodes |-> {}, hosts |-> {}, stewards |-> {}, expelled |-> {}]

\* WRONG: the purge clears the expulsions with the rest.
PurgedRosterForgiving(ros, x) ==
    [ros EXCEPT !.nodes    = {r \in @ : r.node # x},
                !.hosts    = {r \in @ : r.origin # x},
                !.stewards = {r \in @ : r.node # x},
                !.expelled = {}]

\* WRONG: the purge forgets the table of claims.
PurgedRosterButClaims(ros, x) ==
    [ros EXCEPT !.nodes = {r \in @ : r.node # x},
                !.hosts = {r \in @ : r.origin # x}]

\* purge_node_in, the roster half.  Expulsions the node authored stay.
PurgedRoster(ros, x) ==
    [ros EXCEPT !.nodes    = {r \in @ : r.node # x},
                !.hosts    = {r \in @ : r.origin # x},
                !.stewards = {r \in @ : r.node # x}]

\* Origin wins: a record about a node is only the word of that node.
Speaks(o, r) == r.kind \in {"Node", "Stewardship", "StewardshipWithdrawn"} => r.about = o

\* materialize_*_in for one record: the last host record applied wins.
Materialized(ros, o, r) ==
    CASE ~Speaks(o, r) -> ros
      [] Speaks(o, r) /\ r.kind = "Node" ->
           [ros EXCEPT !.nodes = {x \in @ : x.node # o} \cup {[node |-> o, name |-> r.value]}]
      [] r.kind = "Host" ->
           [ros EXCEPT !.hosts = {x \in @ : x.host # r.about}
                                   \cup {[host |-> r.about, name |-> r.value, origin |-> o]}]
      [] Speaks(o, r) /\ r.kind = "Stewardship" ->
           [ros EXCEPT !.stewards = @ \cup {[node |-> o, host |-> r.host]}]
      [] Speaks(o, r) /\ r.kind = "StewardshipWithdrawn" ->
           [ros EXCEPT !.stewards = @ \ {[node |-> o, host |-> r.host]}]
      [] r.kind = "Expulsion" ->
           [ros EXCEPT !.expelled = @ \cup {r.about}]
      [] r.kind \in {"Source", "SourceGone"} -> ros

RosterAfter(ros, known, local, e) ==
    LET base == IF Supersedes(known, e) THEN PurgedRoster(ros, e.origin) ELSE ros
        rows == Materialized(base, e.origin, e.record)
    IN  IF Purged(local, e) = {} THEN rows ELSE PurgedRoster(rows, e.record.about)
=============================================================================
