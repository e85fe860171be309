-------------------------------- MODULE Sweep --------------------------------
(***************************************************************************)
(* An index run: the sweep of one host (inseam-plugins/src/sweep) over the *)
(* catalog and search tables of the store (inseam-kernel/src/store.rs).    *)
(*                                                                         *)
(* A run re-embeds if that is pending, enumerates the host, decides what   *)
(* is dirty, plans and writes subtrees in enumeration order, streams their *)
(* search rows to an embedding stage that lands them in batches, removes   *)
(* what vanished, and indexes the folder above its files.  The host goes   *)
(* on changing meanwhile; the owner may stop a run; planners, the stage    *)
(* and the process may fail at any step.                                   *)
(***************************************************************************)
EXTENDS Integers, Sequences, FiniteSets

CONSTANTS FileCount,   \* files of the host, enumerated in order of number
          Looks,       \* Looks[f][v]: what a listing tells of version v of f, the
                       \* second it was modified, if any, and its size
          Recent,      \* the looks that are not older than the cutoff
          Anchoring,   \* <<f, v>>: version v of f emits the keyed fragment
          RowCount,    \* text-bearing fragments of each source's subtree
          Dials,       \* what a run may be asked for: rebuild, and a deep budget
          FlushAt,     \* FLUSH_AT
          InFlight,    \* EMBED_IN_FLIGHT
          VersionMax,  \* bound: changes of each file, its deletions included
          ShapeMax,    \* bound: shapes the composition goes through
          IdentityMax  \* bound: embedding identities it goes through

Files  == 1..FileCount
Folder == 0
Items  == Files \cup {Folder}

ASSUME SweepAssumption ==
    /\ FileCount \in Nat \ {0}
    /\ VersionMax \in [Files -> Nat]
    /\ ShapeMax \in Nat \ {0} /\ IdentityMax \in Nat \ {0}
    /\ \A f \in Files : /\ Looks[f] \in [0..VersionMax[f] -> Nat]
                        /\ \A v \in 0..VersionMax[f] : Looks[f][v] = 0 <=> v = 0
    /\ Recent \subseteq Nat
    /\ Anchoring \subseteq Files \X Nat
    /\ RowCount \in [Items -> Nat]
    /\ Dials \subseteq [rebuild : BOOLEAN, budget : Nat]
    /\ FlushAt \in Nat \ {0} /\ InFlight \in Nat \ {0}

VARIABLES version,  \* the host: how often each file was changed or deleted
          gone,     \* the host: the files that are not there
          shape,    \* what the mounted transforms would build
          identity, \* the embedding identity the embedder declares
          built,    \* the identity the search tables were built with
          row,      \* the catalog rows
          subtree,  \* what each source's landed fragments were made from
          keyed,    \* the keyed fragment, who anchors it, its search row
          found,    \* the rows of the search tables
          run,      \* the run under way
          stage     \* the row buffer and the embedding stage

hostVars  == <<version, gone>>
dialVars  == <<shape, identity, built>>
storeVars == <<row, subtree, keyed, found>>
vars      == <<version, gone, shape, identity, built, row, subtree, keyed, found, run, stage>>

-----------------------------------------------------------------------------
(* The host, the catalog and the rows *)

\* A content is what a subtree is made from: a file at a version, or the
\* listing of a folder's children, each with the version its summary speaks
\* of (none: 0).
Contents == SUBSET (Files \X Nat)
Nothing  == {}

FileContent(f) == {<<f, version[f]>>}

\* What an enumeration sees of a file: versions may look alike.
NotListed == 0
Look(f)   == IF f \in gone THEN NotListed ELSE Looks[f][version[f]]

Subtree(s, c) == IF c = Nothing THEN {}
                 ELSE {[of |-> s, content |-> c, n |-> k] : k \in 1..RowCount[s]}

NoStamp == 0
NoRow   == [known |-> FALSE, modified |-> 0, indexed |-> FALSE, stamp |-> NoStamp,
            digest |-> Nothing]
NoKeyed == [exists |-> FALSE, anchors |-> {}, shown |-> FALSE]

Deep(s) == row[s].indexed /\ row[s].stamp # NoStamp

\* SOURCE_UPSERT_SQL: the mark goes, the stamp stays.
Upserted(r, modified, digest) ==
    [r EXCEPT !.known = TRUE, !.modified = modified, !.indexed = FALSE, !.digest = digest]

Pending == built # identity

-----------------------------------------------------------------------------
(* The run and its stage *)

Phases == {"idle", "preparing", "reembedding", "enumerating", "deciding", "files",
           "reconciling", "folders", "folder", "finalizing"}

NoDials == [rebuild |-> FALSE, budget |-> 0]

NoRun == [phase |-> "idle", dials |-> NoDials, seen |-> [f \in Files |-> NotListed],
          deep |-> {}, content |-> [s \in Items |-> Nothing], spent |-> 0, stopped |-> FALSE]

\* stream: the rows and completions of this pass, in order; landed: how many
\* of them have landed; cuts: where the batches under way end; embedded: the
\* batches of those that are embedded.
NoStage == [stream |-> <<>>, landed |-> 0, cuts |-> <<>>, embedded |-> {}, failed |-> FALSE]

RowItem(s, c, k) == [kind |-> "row", of |-> s, content |-> c, n |-> k]
KeyedItem        == [kind |-> "keyed", of |-> Folder, content |-> Nothing, n |-> 0]
DoneItem(s, st)  == [kind |-> "done", of |-> s, content |-> Nothing, n |-> st]

RowItems(s, c) == [k \in 1..RowCount[s] |-> RowItem(s, c, k)]

\* Sources are taken in the order of the listing.
IsNext(s) == s \in run.deep /\ \A x \in run.deep : s <= x

IsSeen(s) == IF s = Folder THEN \E f \in Files : run.seen[f] # NotListed
             ELSE run.seen[s] # NotListed

-----------------------------------------------------------------------------
(* The row buffer and the embedding stage: embed.rs *)

Submitted == IF stage.cuts = <<>> THEN stage.landed ELSE stage.cuts[Len(stage.cuts)]

RowsUpTo(e) == {i \in Submitted + 1 .. e : stage.stream[i].kind # "done"}

\* drain_batch: FLUSH_AT rows, and the completions up to the next row.
FullBatchEnds(e) ==
    /\ Cardinality(RowsUpTo(e)) = FlushAt
    /\ e < Len(stage.stream) => stage.stream[e + 1].kind # "done"

BatchIsFull == Cardinality(RowsUpTo(Len(stage.stream))) >= FlushAt

\* InFlight batches are embedding and as many are queued before submit waits.
HasRoom == ~stage.failed /\ Len(stage.cuts) < 2 * InFlight

SubmitBatch ==
    /\ run.phase \in {"reembedding", "files", "folder"}
    /\ HasRoom
    /\ \E e \in Submitted + 1 .. Len(stage.stream) :
          /\ FullBatchEnds(e)
          /\ stage' = [stage EXCEPT !.cuts = Append(@, e)]
    /\ UNCHANGED <<hostVars, dialVars, storeVars, run>>

\* drain_all, once every source of the pass is written.
SubmitRest ==
    /\ run.phase \in {"reembedding", "files", "folder"}
    /\ run.deep = {}
    /\ HasRoom /\ ~BatchIsFull
    /\ Submitted < Len(stage.stream)
    /\ stage' = [stage EXCEPT !.cuts = Append(@, Len(stage.stream))]
    /\ UNCHANGED <<hostVars, dialVars, storeVars, run>>

\* Batches under way embed in any order; embedding never fails.
EmbedBatch(i) ==
    /\ i \in 1..Len(stage.cuts) /\ i <= InFlight
    /\ stage.cuts[i] \notin stage.embedded
    /\ stage' = [stage EXCEPT !.embedded = @ \cup {stage.cuts[i]}]
    /\ UNCHANGED <<hostVars, dialVars, storeVars, run>>

Batch(e) == {stage.stream[i] : i \in stage.landed + 1 .. e}

RowsOf(batch) ==
    {[of |-> x.of, content |-> x.content, n |-> x.n] : x \in {y \in batch : y.kind = "row"}}

Completed(batch, s) == \E x \in batch : x.kind = "done" /\ x.of = s

StampOf(batch, s) == (CHOOSE x \in batch : x.kind = "done" /\ x.of = s).n

\* The stage once its first batch has landed; nothing is left of it when its
\* run has failed meanwhile and this was its last batch.
AfterLanding(e) ==
    IF run.phase = "idle" /\ Len(stage.cuts) = 1 THEN NoStage
    ELSE [stage EXCEPT !.landed = e, !.cuts = Tail(@), !.embedded = @ \ {e}]

\* land_search_rows: rows and marks in one transaction.
Landed(batch) ==
    /\ found' = found \cup RowsOf(batch)
    /\ keyed' = [keyed EXCEPT !.shown = @ \/ \E x \in batch : x.kind = "keyed"]
    /\ row' = [s \in Items |->
                 IF Completed(batch, s) /\ row[s].known
                 THEN [row[s] EXCEPT !.indexed = TRUE, !.stamp = StampOf(batch, s)]
                 ELSE row[s]]
    /\ UNCHANGED <<hostVars, dialVars, subtree, run>>

\* Batches land in the order they were submitted, whichever embeds first.
LandBatch ==
    /\ stage.cuts # <<>>
    /\ LET e == Head(stage.cuts) IN
       /\ e \in stage.embedded
       /\ Landed(Batch(e))
       /\ stage' = AfterLanding(e)

\* The first error ends the stage; batches not landed are lost.
StageFails ==
    /\ stage.cuts # <<>>
    /\ stage' = IF run.phase = "idle" THEN NoStage
                ELSE [stage EXCEPT !.cuts = <<>>, !.embedded = {}, !.failed = TRUE]
    /\ UNCHANGED <<hostVars, dialVars, storeVars, run>>

\* A run that fails leaves its buffer behind; what was submitted still
\* lands.
Abandoned == [stage EXCEPT !.stream = SubSeq(@, 1, Submitted)]

Fail ==
    /\ run' = NoRun
    /\ stage' = IF stage.cuts = <<>> THEN NoStage ELSE Abandoned
    /\ UNCHANGED <<hostVars, dialVars, storeVars>>

\* submit or finish returns the stage's error.
FailWithStage == stage.failed /\ Fail

\* WRONG: a pass is over once everything is submitted.
PassIsSubmitted == run.deep = {} /\ Submitted = Len(stage.stream) /\ ~stage.failed

PassIsOver == run.deep = {} /\ stage.landed = Len(stage.stream) /\ ~stage.failed

-----------------------------------------------------------------------------
(* Starting a run, and the re-embed: prepare_run, reembed *)

\* Bound: no run starts while the stage of a failed one is still landing.
Begin(dials) ==
    /\ run.phase = "idle"
    /\ stage.cuts = <<>>
    /\ run' = [NoRun EXCEPT !.phase = "preparing", !.dials = dials]
    /\ UNCHANGED <<hostVars, dialVars, storeVars, stage>>

\* reembed_targets, and begin_reembed's empty tables.
BeginReembed ==
    /\ run.phase = "preparing"
    /\ Pending
    /\ found' = {}
    /\ keyed' = [keyed EXCEPT !.shown = FALSE]
    /\ run' = [run EXCEPT !.phase = "reembedding",
                          !.deep = {s \in Items : subtree[s] # Nothing}]
    /\ stage' = [NoStage EXCEPT !.stream = IF keyed.exists THEN <<KeyedItem>> ELSE <<>>]
    /\ UNCHANGED <<hostVars, dialVars, row, subtree>>

PushTarget(s) ==
    /\ run.phase = "reembedding"
    /\ IsNext(s)
    /\ ~BatchIsFull /\ ~stage.failed
    /\ run' = [run EXCEPT !.deep = @ \ {s}]
    /\ stage' = [stage EXCEPT !.stream = @ \o RowItems(s, subtree[s])]
    /\ UNCHANGED <<hostVars, dialVars, storeVars>>

FinishReembed ==
    /\ run.phase = "reembedding"
    /\ PassIsOver
    /\ built' = identity
    /\ run' = [run EXCEPT !.phase = "enumerating"]
    /\ stage' = NoStage
    /\ UNCHANGED <<hostVars, shape, identity, storeVars>>

NothingToReembed ==
    /\ run.phase = "preparing"
    /\ ~Pending
    /\ run' = [run EXCEPT !.phase = "enumerating"]
    /\ UNCHANGED <<hostVars, dialVars, storeVars, stage>>

Enumerate ==
    /\ run.phase = "enumerating"
    /\ run' = [run EXCEPT !.phase = "deciding", !.seen = [f \in Files |-> Look(f)]]
    /\ UNCHANGED <<hostVars, dialVars, storeVars, stage>>

-----------------------------------------------------------------------------
(* What is dirty: decide *)

Inside(f) == run.seen[f] \in Recent

Dirty(f) ==
    \/ ~row[f].known \/ ~row[f].indexed
    \/ row[f].modified # run.seen[f]
    \/ row[f].stamp # shape

Wanted == {f \in Files : run.seen[f] # NotListed /\ Inside(f) /\ (Dirty(f) \/ run.dials.rebuild)}

Chosen == {f \in Wanted : Cardinality({g \in Wanted : g < f}) < run.dials.budget}

NewlySeen == {f \in Files : run.seen[f] # NotListed /\ ~Inside(f) /\ ~row[f].known}

\* WRONG: a source past the budget gets the stamp as well.
CatalogOnlyStamped(r, modified) ==
    [Upserted(r, modified, Nothing) EXCEPT !.indexed = TRUE, !.stamp = shape]

\* CatalogMark::CatalogOnly: marked, and dirty for want of a stamp.
CatalogOnly(r, modified) ==
    [Upserted(r, modified, Nothing) EXCEPT !.indexed = TRUE, !.stamp = NoStamp]

\* The catalog rows are written in chunks of a thousand, right after.
Decide ==
    /\ run.phase = "deciding"
    /\ row' = [s \in Items |->
                 IF s \in Wanted \ Chosen THEN CatalogOnly(row[s], run.seen[s])
                 ELSE IF s \in NewlySeen THEN Upserted(row[s], run.seen[s], Nothing)
                 ELSE row[s]]
    /\ run' = [run EXCEPT !.phase = "files", !.deep = Chosen, !.spent = Cardinality(Chosen)]
    /\ UNCHANGED <<hostVars, dialVars, subtree, keyed, found, stage>>

-----------------------------------------------------------------------------
(* Planning and writing: index_deep *)

\* Planners run concurrently and read the host when they come to it; a file
\* that is not there any more fails the run.
ReadContent(f) ==
    /\ run.phase = "files"
    /\ f \in run.deep /\ run.content[f] = Nothing
    /\ IF f \in gone THEN Fail
       ELSE /\ run' = [run EXCEPT !.content[f] = FileContent(f)]
            /\ UNCHANGED <<hostVars, dialVars, storeVars, stage>>

Emits(c) == c \cap Anchoring # {}

\* WRONG: the envelope is read again when the subtree is written.
RecordedAtWrite(s) == IF s = Folder THEN 0 ELSE Looks[s][version[s]]

\* The row keeps what the file was enumerated with, not what was read since.
RecordedAs(s) == IF s = Folder THEN 0 ELSE run.seen[s]

\* WRONG: the completion is buffered ahead of the rows.
SentBackwards(s, c, isCreated) ==
    <<DoneItem(s, shape)>> \o RowItems(s, c) \o (IF isCreated THEN <<KeyedItem>> ELSE <<>>)

\* What a written source adds to the buffer: its rows, those of the keyed
\* fragments it created, since an existing one is taken to have its row, and
\* its completion.
Sent(s, c, isCreated) ==
    RowItems(s, c) \o (IF isCreated THEN <<KeyedItem>> ELSE <<>>) \o <<DoneItem(s, shape)>>

\* write_subtree, and what it sends.
WriteSubtree(s) ==
    LET c         == run.content[s]
        isCreated == s # Folder /\ Emits(c) /\ ~keyed.exists
    IN
    /\ run.phase \in {"files", "folder"}
    /\ IsNext(s)
    /\ c # Nothing
    /\ ~BatchIsFull /\ ~stage.failed
    /\ row' = [row EXCEPT ![s] = Upserted(@, RecordedAs(s), c)]
    /\ subtree' = [subtree EXCEPT ![s] = c]
    /\ found' = {r \in found : r.of # s}
    /\ keyed' = [keyed EXCEPT
                   !.exists = @ \/ isCreated,
                   !.anchors = IF s # Folder /\ Emits(c) THEN @ \cup {s} ELSE @ \ {s}]
    /\ run' = [run EXCEPT !.deep = @ \ {s}, !.content[s] = Nothing]
    /\ stage' = [stage EXCEPT !.stream = @ \o Sent(s, c, isCreated)]
    /\ UNCHANGED <<hostVars, dialVars>>

\* The owner stops the run at the checkpoint after a source; what is written
\* still lands.
StopPass ==
    /\ run.phase \in {"files", "folder"}
    /\ stage.stream # <<>> /\ ~BatchIsFull
    /\ run' = [run EXCEPT !.deep = {}, !.content = NoRun.content, !.stopped = TRUE]
    /\ UNCHANGED <<hostVars, dialVars, storeVars, stage>>

\* Or between two phases, and the run ends there.
StopEarly ==
    /\ run.phase \in {"preparing", "enumerating", "deciding", "files"}
    /\ stage = NoStage
    /\ run' = NoRun
    /\ UNCHANGED <<hostVars, dialVars, storeVars, stage>>

EndFiles ==
    /\ run.phase = "files"
    /\ PassIsOver
    /\ run' = [run EXCEPT !.phase = IF run.stopped THEN "finalizing" ELSE "reconciling"]
    /\ stage' = NoStage
    /\ UNCHANGED <<hostVars, dialVars, storeVars>>

-----------------------------------------------------------------------------
(* What vanished, the folder, and the end of a run *)

Vanished(s) == row[s].known /\ ~IsSeen(s)

RemoveVanished(s) ==
    /\ run.phase = "reconciling"
    /\ Vanished(s)
    /\ row' = [row EXCEPT ![s] = NoRow]
    /\ subtree' = [subtree EXCEPT ![s] = Nothing]
    /\ found' = {r \in found : r.of # s}
    /\ keyed' = [keyed EXCEPT !.anchors = @ \ {s}]
    /\ UNCHANGED <<hostVars, dialVars, run, stage>>

AllReconciled ==
    /\ run.phase = "reconciling"
    /\ \A s \in Items : ~Vanished(s)
    /\ run' = [run EXCEPT !.phase = "folders"]
    /\ UNCHANGED <<hostVars, dialVars, storeVars, stage>>

\* compose_content: the cataloged children, each with the summary its
\* subtree carries.
Listing == UNION {IF subtree[f] = Nothing THEN {<<f, 0>>} ELSE subtree[f]
                    : f \in {g \in Files : row[g].known}}

FolderDirty ==
    \/ ~row[Folder].known \/ ~row[Folder].indexed
    \/ row[Folder].digest # Listing
    \/ row[Folder].stamp # shape

HasIndexedChild == \E e \in Listing : e[2] # 0

\* decide_folders: the folder is enumerated while it holds a file.
DecideFolder ==
    /\ run.phase = "folders"
    /\ \/ /\ ~IsSeen(Folder) \/ ~(FolderDirty \/ run.dials.rebuild)
          /\ run' = [run EXCEPT !.phase = "finalizing"]
          /\ UNCHANGED row
       \/ /\ IsSeen(Folder) /\ (FolderDirty \/ run.dials.rebuild)
          /\ IF HasIndexedChild /\ run.spent < run.dials.budget
             THEN /\ run' = [run EXCEPT !.phase = "folder", !.deep = {Folder},
                                        !.content[Folder] = Listing]
                  /\ UNCHANGED row
             ELSE /\ run' = [run EXCEPT !.phase = "finalizing"]
                  /\ row' = [row EXCEPT ![Folder] = CatalogOnly(@, 0)]
    /\ UNCHANGED <<hostVars, dialVars, subtree, keyed, found, stage>>

EndFolder ==
    /\ run.phase = "folder"
    /\ PassIsOver
    /\ run' = [run EXCEPT !.phase = "finalizing"]
    /\ stage' = NoStage
    /\ UNCHANGED <<hostVars, dialVars, storeVars>>

\* gc_keyed_fragments: fragment and search row go together.
Finalize ==
    /\ run.phase = "finalizing"
    /\ keyed' = IF keyed.anchors = {} THEN NoKeyed ELSE keyed
    /\ run' = NoRun
    /\ UNCHANGED <<hostVars, dialVars, row, subtree, found, stage>>

-----------------------------------------------------------------------------
(* The host, and the process *)

Change(f) ==
    /\ version[f] < VersionMax[f]
    /\ version' = [version EXCEPT ![f] = @ + 1]
    /\ gone' = gone \ {f}
    /\ UNCHANGED <<dialVars, storeVars, run, stage>>

Delete(f) ==
    /\ f \notin gone /\ version[f] < VersionMax[f]
    /\ version' = [version EXCEPT ![f] = @ + 1]
    /\ gone' = gone \cup {f}
    /\ UNCHANGED <<dialVars, storeVars, run, stage>>

\* A crash or a shutdown at any step, and a start, perhaps under another
\* composition.  Bound: the owner does not go back to an identity.
Restart(sh, id) ==
    /\ shape <= sh /\ identity <= id
    /\ shape' = sh
    /\ identity' = id
    /\ run' = NoRun
    /\ stage' = NoStage
    /\ UNCHANGED <<hostVars, built, storeVars>>

Init ==
    /\ version = [f \in Files |-> 0]
    /\ gone = Files
    /\ shape = 1 /\ identity = 1 /\ built = 1
    /\ row = [s \in Items |-> NoRow]
    /\ subtree = [s \in Items |-> Nothing]
    /\ keyed = NoKeyed
    /\ found = {}
    /\ run = NoRun
    /\ stage = NoStage

\* What a run does by itself.
Proceed ==
    \/ BeginReembed \/ FinishReembed \/ NothingToReembed \/ Enumerate \/ Decide
    \/ \E s \in Items : PushTarget(s) \/ WriteSubtree(s) \/ RemoveVanished(s)
    \/ \E f \in Files : ReadContent(f)
    \/ SubmitBatch \/ SubmitRest \/ FailWithStage
    \/ EndFiles \/ AllReconciled \/ DecideFolder \/ EndFolder \/ Finalize

Land == LandBatch \/ \E i \in 1..InFlight : EmbedBatch(i)

Stop == StopPass \/ StopEarly

Next == \/ \E dials \in Dials : Begin(dials)
        \/ Proceed \/ Land \/ Stop \/ StageFails
        \/ \E f \in Files : Change(f) \/ Delete(f)
        \/ \E sh \in 1..ShapeMax, id \in 1..IdentityMax : Restart(sh, id)

Spec == Init /\ [][Next]_vars

\* A run under way goes on, the stage embeds and lands, and the owner, or the
\* timer, keeps asking for runs with some budget.
FairSpec ==
    /\ Spec
    /\ WF_vars(Proceed)
    /\ WF_vars(Land)
    /\ SF_vars(\E dials \in {d \in Dials : ~d.rebuild /\ d.budget > 0} : Begin(dials))

\* What may spoil a run: none of it happens for ever.  (A crash at the very
\* end of a run is no different from its end.)
Trouble ==
    /\ ~Finalize
    /\ \/ Stop \/ StageFails
       \/ \E dials \in Dials : dials.rebuild /\ Begin(dials)
       \/ \E f \in Files : Change(f) \/ Delete(f)
       \/ \E sh \in 1..ShapeMax, id \in 1..IdentityMax : Restart(sh, id)

-----------------------------------------------------------------------------
(* Correctness *)

Rows == [known : BOOLEAN, modified : Nat, indexed : BOOLEAN, stamp : 0..ShapeMax,
         digest : Contents]

FoundRows == [of : Items, content : Contents, n : Nat]

StreamItems == [kind : {"row", "keyed", "done"}, of : Items, content : Contents, n : Nat]

\* The variables keep their shapes; the cursors of the stage stay within its
\* stream, and no more batches wait than the channel and the embedders take.
TypeOK ==
    /\ version \in [Files -> Nat] /\ gone \subseteq Files
    /\ \A f \in Files : version[f] <= VersionMax[f]
    /\ shape \in 1..ShapeMax /\ identity \in 1..IdentityMax /\ built \in 1..IdentityMax
    /\ row \in [Items -> Rows]
    /\ subtree \in [Items -> Contents]
    /\ keyed \in [exists : BOOLEAN, anchors : SUBSET Files, shown : BOOLEAN]
    /\ found \subseteq FoundRows
    /\ run \in [phase : Phases, dials : [rebuild : BOOLEAN, budget : Nat], seen : [Files -> Nat],
               deep : SUBSET Items, content : [Items -> Contents], spent : Nat,
               stopped : BOOLEAN]
    /\ stage \in [stream : Seq(StreamItems), landed : Nat, cuts : Seq(Nat),
                 embedded : SUBSET Nat, failed : BOOLEAN]
    /\ stage.landed <= Submitted /\ Submitted <= Len(stage.stream)
    /\ Len(stage.cuts) <= 2 * InFlight

\* A source marked indexed with a subtree has every one of its rows in the
\* search tables, whatever crashed, failed, was stopped or rebuilt before;
\* while the tables are being built anew, searches are refused instead.
IndexedIsSearchable ==
    Pending \/ \A s \in Items : Deep(s) => Subtree(s, subtree[s]) \subseteq found

\* A subtree is of the file as it is, or of a version read after one that no
\* listing tells from it: as time goes on, one of the same second.
IsUpToDate(f) ==
    \E v \in 0..version[f] : /\ subtree[f] = {<<f, v>>}
                             /\ \E u \in 0..v : Looks[f][u] = Looks[f][version[f]]

\* A file the catalog calls indexed and unchanged has the subtree of what the
\* host holds, although it was read after it was enumerated, unless it was
\* changed again after that and looks as it did when it was enumerated: a
\* second edit within one second that leaves the size alone.
NothingStaleLooksClean ==
    \A f \in Files \ gone : Deep(f) /\ row[f].modified = Look(f) => IsUpToDate(f)

\* Searches find only rows of fragments that are there.
NoStrayRows ==
    /\ found \subseteq UNION {Subtree(s, subtree[s]) : s \in Items}
    /\ keyed.shown => keyed.exists

\* Every keyed fragment that an indexed source anchors is searchable too.
KeyedAreSearchable ==
    Pending \/ \A f \in keyed.anchors : Deep(f) => keyed.shown

\* Once the host is left alone and runs are neither stopped nor crash nor fail,
\* every recent file ends deep-indexed as it is, or as it was when it last
\* looked the same, the folder above it as it lists them, and nothing is left
\* of what has gone; however small the budget.
EverythingIsIndexed ==
    <>[][~Trouble]_vars =>
        <>[](/\ \A f \in Files \ gone : Look(f) \in Recent => Deep(f) /\ IsUpToDate(f)
             /\ \A f \in Files \cap gone : ~row[f].known /\ subtree[f] = Nothing
             /\ HasIndexedChild => Deep(Folder) /\ subtree[Folder] = Listing)

\* The sweep keeps the promise of WholeSources.
Whole == INSTANCE WholeSources WITH
    content  <- subtree,
    shown    <- found,
    marked   <- {s \in Items : Deep(s)},
    refusing <- Pending

ImplementsWholeSources == Whole!Spec
=============================================================================
