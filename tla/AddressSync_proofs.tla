------------------------- MODULE AddressSync_proofs -------------------------
(***************************************************************************)
(* What AddressSync promises for every set of nodes, addresses and hosts,  *)
(* every batch and round limit and any number of exchanges at once.        *)
(*                                                                         *)
(* First what the operators of ReplicatedStore guarantee of one log, one   *)
(* batch or one history, then types and the inductive invariant LogInv,    *)
(* and with it HonestVectors; what no step may do to rows and expulsions;  *)
(* RowInv: why the rows of a node say what its logs say; and last, that    *)
(* all of it implements SharedHistory.                                     *)
(***************************************************************************)
EXTENDS AddressSync, FiniteSetTheorems, TLAPS

-----------------------------------------------------------------------------
(* Positions *)

\* An entry past a position, and one not past it, are themselves ordered.
LEMMA LacksOrder ==
    ASSUME NEW p \in Positions, NEW e \in Entry, NEW f \in Entry,
           Lacks(p, e), ~Lacks(p, f)
    PROVE  ~Lacks(e, f)
  BY DEF Lacks, Positions, Entry

\* What version_vector reports is the position of a held entry no held entry
\* of that origin is past, or no position at all.
LEMMA HeldPositionIsTop ==
    ASSUME NEW held \in SUBSET Entry, NEW o \in Nodes,
           \A part \in SUBSET OfOrigin(held, o) :
              part # {} => \E e \in part : \A f \in part : ~Lacks(e, f)
    PROVE  /\ HeldPosition(held, o) \in Positions
           /\ OfOrigin(held, o) = {} => HeldPosition(held, o) = NoPosition
           /\ OfOrigin(held, o) # {} =>
                \E e \in OfOrigin(held, o) :
                   /\ HeldPosition(held, o) = [epoch |-> e.epoch, seq |-> e.seq]
                   /\ \A f \in OfOrigin(held, o) : ~Lacks(e, f)
<1>1. CASE OfOrigin(held, o) = {}
  BY <1>1 DEF HeldPosition, NoPosition, Positions
<1>2. CASE OfOrigin(held, o) # {}
  <2> DEFINE Top(e) == \A f \in OfOrigin(held, o) : ~Lacks(e, f)
             top    == CHOOSE e \in OfOrigin(held, o) : Top(e)
  <2>1. \E e \in OfOrigin(held, o) : Top(e)
    BY <1>2
  <2>2. top \in OfOrigin(held, o) /\ Top(top)
    BY <2>1
  <2>3. HeldPosition(held, o) = [epoch |-> top.epoch, seq |-> top.seq]
    BY <1>2 DEF HeldPosition
  <2>4. top.epoch \in Nat /\ top.seq \in Nat
    BY <2>2 DEF OfOrigin, Entry
  <2> HIDE DEF top
  <2>5. HeldPosition(held, o) \in Positions
    BY <2>3, <2>4 DEF Positions
  <2> QED
    BY <1>2, <2>2, <2>3, <2>5
<1> QED
  BY <1>1, <1>2

\* The position is that of any held entry no other one is past.
LEMMA TopIsHeldPosition ==
    ASSUME NEW held \in SUBSET Entry, NEW o \in Nodes, NEW e \in OfOrigin(held, o),
           \A f \in OfOrigin(held, o) : ~Lacks(e, f)
    PROVE  HeldPosition(held, o) = [epoch |-> e.epoch, seq |-> e.seq]
<1> DEFINE Top(t) == \A f \in OfOrigin(held, o) : ~Lacks(t, f)
           top    == CHOOSE t \in OfOrigin(held, o) : Top(t)
<1>0. HeldPosition(held, o) = [epoch |-> top.epoch, seq |-> top.seq]
  BY DEF HeldPosition
<1>1. PICK t \in OfOrigin(held, o) :
         /\ HeldPosition(held, o) = [epoch |-> t.epoch, seq |-> t.seq]
         /\ \A f \in OfOrigin(held, o) : ~Lacks(t, f)
  <2>1. top \in OfOrigin(held, o) /\ Top(top)
    OBVIOUS
  <2> QED
    BY <1>0, <2>1
<1>2. e \in Entry /\ t \in Entry /\ ~Lacks(e, t) /\ ~Lacks(t, e)
  BY <1>1 DEF OfOrigin
<1>3. e.epoch = t.epoch /\ e.seq = t.seq
  BY <1>2 DEF Lacks, Entry
<1> QED
  BY <1>1, <1>3

-----------------------------------------------------------------------------
(* Batches *)

\* log_after cuts its suffix at the end only: with an entry it ships every
\* earlier one the vector lacks.
LEMMA LogAfterIsPrefix ==
    ASSUME NEW held \in SUBSET Entry, IsFiniteSet(held), NEW vector, NEW limit \in Nat,
           NEW e \in LogAfter(held, vector, limit), NEW h \in Lacking(held, vector),
           Before(h, e) \/ h = e
    PROVE  h \in LogAfter(held, vector, limit)
<1> DEFINE Earlier(g) == {f \in Lacking(held, vector) : Before(f, g)}
<1>1. CASE h = e
  BY <1>1
<1>2. CASE Before(h, e)
  <2>1. h \in Entry /\ e \in Entry /\ \A f \in Lacking(held, vector) : f \in Entry
    BY DEF Lacking, LogAfter
  <2>2. Earlier(h) \subseteq Earlier(e)
    <3> SUFFICES ASSUME NEW f \in Entry, Before(f, h) PROVE Before(f, e)
      BY <2>1
    <3>1. f.origin \in Nat /\ h.origin \in Nat /\ e.origin \in Nat
      BY <2>1, StoreAssumption DEF Entry
    <3>2. /\ f.epoch \in Nat /\ h.epoch \in Nat /\ e.epoch \in Nat
          /\ f.seq \in Nat /\ h.seq \in Nat /\ e.seq \in Nat
      BY <2>1 DEF Entry
    <3> QED
      BY <1>2, <3>1, <3>2 DEF Before, Lacks
  <2>3. IsFiniteSet(Earlier(e)) /\ IsFiniteSet(Earlier(h))
    BY FS_Subset DEF Lacking
  <2>4. Cardinality(Earlier(h)) <= Cardinality(Earlier(e))
    BY <2>2, <2>3, FS_Subset
  <2>5. Cardinality(Earlier(e)) < limit
    BY DEF LogAfter
  <2>6. Cardinality(Earlier(h)) \in Nat /\ Cardinality(Earlier(e)) \in Nat
    BY <2>3, FS_CardinalityType
  <2>7. Cardinality(Earlier(h)) < limit
    BY <2>4, <2>5, <2>6
  <2> QED
    BY <2>7 DEF LogAfter
<1> QED
  BY <1>1, <1>2

\* A batch read from an honest log leaves nothing out.
LEMMA LogAfterLeavesNoneOut ==
    ASSUME NEW hist \in SUBSET Entry, NEW held, WellFormed(hist, held), Honest(hist, held),
           NEW vector, NEW limit \in Nat
    PROVE  NoneLeftOut(hist, LogAfter(held, vector, limit), vector)
<1> DEFINE batch == LogAfter(held, vector, limit)
<1>1. held \in SUBSET Entry /\ IsFiniteSet(held) /\ batch \subseteq held
  BY DEF WellFormed, LogAfter, Lacking
<1> SUFFICES ASSUME NEW e \in batch, NEW h \in hist,
                    h.origin = e.origin, h.epoch = e.epoch, h.seq <= e.seq,
                    h.origin \notin EverExpelled(hist),
                    Lacks(vector[h.origin], h), ~Superseded(hist, h)
             PROVE  h \in batch
  BY DEF NoneLeftOut
<1>2. e \in Entry /\ h \in Entry /\ e \in held
  BY <1>1
<1>3. Covers(HeldPosition(held, e.origin), h)
  <2>1. e.origin \in Nodes /\ e \in OfOrigin(held, e.origin)
    BY <1>2 DEF Entry, OfOrigin
  <2>2. PICK t \in OfOrigin(held, e.origin) :
          /\ HeldPosition(held, e.origin) = [epoch |-> t.epoch, seq |-> t.seq]
          /\ \A f \in OfOrigin(held, e.origin) : ~Lacks(t, f)
    BY <1>1, <2>1, HeldPositionIsTop DEF WellFormed
  <2>3. t.epoch = e.epoch /\ t \in Entry
    BY <1>1, <2>2, <1>2 DEF WellFormed, OfOrigin
  <2>4. ~Lacks(t, e)
    BY <2>1, <2>2
  <2> QED
    BY <1>2, <2>2, <2>3, <2>4 DEF Covers, Lacks, Entry
<1>4. h \in held
  BY <1>3 DEF Honest
<1>5. h \in Lacking(held, vector)
  BY <1>4 DEF Lacking
<1>6. Before(h, e) \/ h.seq = e.seq
  BY <1>2 DEF Before, Lacks, Entry
<1>7. CASE Before(h, e)
  BY <1>1, <1>5, <1>7, LogAfterIsPrefix
<1>8. CASE h.seq = e.seq
  <2>1. \A f : Before(f, h) <=> Before(f, e)
    BY <1>8 DEF Before, Lacks
  <2> QED
    BY <1>5, <2>1 DEF LogAfter
<1> QED
  BY <1>6, <1>7, <1>8

\* Knowing more only makes a batch safer to land.
LEMMA KnowingMore ==
    ASSUME NEW hist \in SUBSET Entry, NEW batch \in SUBSET Entry,
           NEW vector \in Vectors, NEW held \in SUBSET Entry,
           Vector(held) \in Vectors,
           NoneLeftOut(hist, batch, vector), StillHeld(hist, vector, held)
    PROVE  NoneLeftOut(hist, batch, Vector(held))
<1> SUFFICES ASSUME NEW e \in batch, NEW h \in hist,
                    h.origin = e.origin, h.epoch = e.epoch, h.seq <= e.seq,
                    h.origin \notin EverExpelled(hist),
                    Lacks(Vector(held)[h.origin], h)
             PROVE  h \in batch \/ Superseded(hist, h)
  BY DEF NoneLeftOut
<1>1. h \in Entry /\ h.origin \in Nodes
  BY DEF Entry
<1>2. Vector(held)[h.origin] = HeldPosition(held, h.origin)
  BY <1>1 DEF Vector
<1>3. AtOrAfter(vector[h.origin], Vector(held)[h.origin])
  BY <1>1, <1>2 DEF StillHeld
<1>4. vector[h.origin] \in Positions /\ Vector(held)[h.origin] \in Positions
  BY <1>1 DEF Vectors
<1>5. Lacks(vector[h.origin], h)
  BY <1>1, <1>3, <1>4 DEF AtOrAfter, Lacks, Positions, Entry
<1> QED
  BY <1>5 DEF NoneLeftOut

\* What was claimed still holds once the log has only grown.
LEMMA StillHeldGrows ==
    ASSUME NEW hist, NEW vector \in Vectors,
           NEW held \in SUBSET Entry, NEW grown \in SUBSET Entry,
           Vector(held) \in Vectors, Vector(grown) \in Vectors,
           StillHeld(hist, vector, held), StillHeld(hist, Vector(held), grown)
    PROVE  StillHeld(hist, vector, grown)
<1> SUFFICES ASSUME NEW o \in Nodes \ EverExpelled(hist)
             PROVE  AtOrAfter(vector[o], HeldPosition(grown, o))
  BY DEF StillHeld
<1>1. AtOrAfter(vector[o], HeldPosition(held, o)) /\ AtOrAfter(Vector(held)[o], HeldPosition(grown, o))
  BY DEF StillHeld
<1>2. Vector(held)[o] = HeldPosition(held, o) /\ Vector(grown)[o] = HeldPosition(grown, o)
  BY DEF Vector
<1>3. vector[o] \in Positions /\ HeldPosition(held, o) \in Positions
      /\ HeldPosition(grown, o) \in Positions
  BY <1>2 DEF Vectors
<1> QED
  BY <1>1, <1>2, <1>3 DEF AtOrAfter, Positions

\* More history forgives more.
LEMMA MoreHistory ==
    ASSUME NEW hist, NEW more, hist \subseteq more
    PROVE  /\ EverExpelled(hist) \subseteq EverExpelled(more)
           /\ \A h : Superseded(hist, h) => Superseded(more, h)
           /\ \A vector, held : StillHeld(hist, vector, held) => StillHeld(more, vector, held)
<1>1. EverExpelled(hist) \subseteq EverExpelled(more)
  BY DEF EverExpelled
<1>2. \A h : Superseded(hist, h) => Superseded(more, h)
  BY DEF Superseded
<1>3. \A vector, held : StillHeld(hist, vector, held) => StillHeld(more, vector, held)
  BY <1>1 DEF StillHeld
<1> QED
  BY <1>1, <1>2, <1>3

\* An entry written after a batch was chosen is not missing from it.
LEMMA NewEntryNotLeftOut ==
    ASSUME NEW hist \in SUBSET Entry, NEW g \in Entry, NEW batch \in SUBSET Entry,
           NEW vector, NoneLeftOut(hist, batch, vector),
           \A e \in batch : ~(g.origin = e.origin /\ g.epoch = e.epoch /\ g.seq <= e.seq)
    PROVE  NoneLeftOut(hist \cup {g}, batch, vector)
<1>1. /\ EverExpelled(hist) \subseteq EverExpelled(hist \cup {g})
      /\ \A h : Superseded(hist, h) => Superseded(hist \cup {g}, h)
  BY MoreHistory
<1> QED
  BY <1>1 DEF NoneLeftOut

\* The vector of a well-formed log is a vector.
LEMMA VectorType ==
    ASSUME NEW hist \in SUBSET Entry, NEW held, WellFormed(hist, held)
    PROVE  Vector(held) \in Vectors /\ \A o \in Nodes : HeldPosition(held, o) \in Positions
<1>1. held \in SUBSET Entry
  BY DEF WellFormed
<1>2. \A o \in Nodes : HeldPosition(held, o) \in Positions
  BY <1>1, HeldPositionIsTop DEF WellFormed
<1> QED
  BY <1>2 DEF Vector, Vectors

\* The position of one origin does not depend on the others' entries.
LEMMA SameOriginSamePosition ==
    ASSUME NEW held, NEW new, NEW o, OfOrigin(held, o) = OfOrigin(new, o)
    PROVE  HeldPosition(held, o) = HeldPosition(new, o)
  BY DEF HeldPosition

-----------------------------------------------------------------------------
(* Appending one entry to a log: append_local_in and apply_entry_in *)

\* Only the expelled are purged, never the node itself or the author.
LEMMA PurgedAreExpelled ==
    ASSUME NEW hist, NEW e \in hist, NEW local
    PROVE  /\ Purged(local, e) \subseteq EverExpelled(hist)
           /\ local \notin Purged(local, e) /\ e.origin \notin Purged(local, e)
  BY DEF Purged, EverExpelled

\* An entry past a position that covers a log is past all of that log, and of
\* its epoch or of a newer one.
LEMMA PastHeld ==
    ASSUME NEW held \in SUBSET Entry, NEW e \in Entry, NEW known \in Positions,
           Lacks(known, e),
           \A f \in OfOrigin(held, e.origin) : Covers(known, f) /\ f.epoch > 0
    PROVE  /\ \A f \in OfOrigin(held, e.origin) : Lacks(f, e)
           /\ Supersedes(known, e) \/ \A f \in OfOrigin(held, e.origin) : f.epoch = e.epoch
<1>1. \A f \in OfOrigin(held, e.origin) : f \in Entry
  BY DEF OfOrigin
<1>2. \A f \in OfOrigin(held, e.origin) : Lacks(f, e)
  BY <1>1 DEF Lacks, Covers, Positions, Entry
<1>3. ASSUME ~Supersedes(known, e), NEW f \in OfOrigin(held, e.origin)
      PROVE  f.epoch = e.epoch
  <2>1. CASE known = NoPosition
    BY <1>1, <2>1 DEF NoPosition, Covers, Entry
  <2>2. CASE known # NoPosition
    BY <1>3, <2>2 DEF Supersedes, Lacks, Covers, Positions, Entry
  <2> QED
    BY <2>1, <2>2
<1> QED
  BY <1>2, <1>3

\* What appending an entry past everything held of its origin leaves: the
\* entry on top of its own log, the other logs as they were or purged.
LEMMA HeldLogContents ==
    ASSUME NEW hist \in SUBSET Entry, NEW held \in SUBSET hist, NEW e \in hist,
           NEW known, NEW local,
           \A f \in OfOrigin(held, e.origin) : Lacks(f, e),
           Supersedes(known, e) \/ \A f \in OfOrigin(held, e.origin) : f.epoch = e.epoch
    PROVE  LET new == HeldLog(held, known, local, e) IN
           /\ e \in new
           /\ new \subseteq held \cup {e}
           /\ \A f \in OfOrigin(new, e.origin) : f.epoch = e.epoch /\ f.seq <= e.seq
           /\ \A o : o # e.origin /\ o \notin Purged(local, e)
                       => OfOrigin(new, o) = OfOrigin(held, o)
           /\ \A o \in Purged(local, e) : OfOrigin(new, o) = {}
           /\ \A h \in OfOrigin(held, e.origin) :
                 ~Supersedes(known, e) => h \in new \/ Superseded(hist, h)
<1> DEFINE new == HeldLog(held, known, local, e)
           base == IF Supersedes(known, e) THEN PurgedLog(held, e.origin) ELSE held
<1>1. e.origin \notin Purged(local, e)
  BY PurgedAreExpelled
<1>2. new = {f \in Compacted(base, e) \cup {e} : f.origin \notin Purged(local, e)}
  BY DEF HeldLog, Appended
<1>3. Compacted(base, e) \subseteq base /\ base \subseteq held
  BY DEF Compacted, PurgedLog
<1>4. e \in new /\ new \subseteq held \cup {e}
  BY <1>1, <1>2, <1>3
<1>5. ASSUME NEW f \in OfOrigin(new, e.origin)
      PROVE  f.epoch = e.epoch /\ f.seq <= e.seq
  <2>1. CASE f = e
    BY <2>1 DEF Entry
  <2>2. CASE f # e
    <3>1. f \in Compacted(base, e) /\ f.origin = e.origin
      BY <1>2, <2>2 DEF OfOrigin
    <3>2. f \in base /\ f \in OfOrigin(held, e.origin)
      BY <3>1, <1>3 DEF OfOrigin
    <3>3. ~Supersedes(known, e)
      BY <3>1, <3>2 DEF PurgedLog
    <3>4. f.epoch = e.epoch /\ Lacks(f, e)
      BY <3>2, <3>3
    <3>5. f \in Entry /\ e \in Entry
      BY <3>2 DEF OfOrigin
    <3> QED
      BY <3>4, <3>5 DEF Lacks, Entry
  <2> QED
    BY <2>1, <2>2
<1>6. ASSUME NEW o, o # e.origin, o \notin Purged(local, e)
      PROVE  OfOrigin(new, o) = OfOrigin(held, o)
  <2>1. ASSUME NEW f \in OfOrigin(held, o) PROVE f \in new
    <3>1. f \in held /\ f.origin = o
      BY <2>1 DEF OfOrigin
    <3>2. f \in base
      BY <3>1, <1>6 DEF PurgedLog
    <3>3. f \in Compacted(base, e)
      BY <3>1, <3>2, <1>6 DEF Compacted
    <3> QED
      BY <3>1, <3>3, <1>2, <1>6
  <2> QED
    BY <1>4, <1>6, <2>1 DEF OfOrigin
<1>7. ASSUME NEW o \in Purged(local, e) PROVE OfOrigin(new, o) = {}
  BY <1>2 DEF OfOrigin
<1>8. ASSUME NEW h \in OfOrigin(held, e.origin), ~Supersedes(known, e), h \notin new
      PROVE  Superseded(hist, h)
  <2>1. h \in held /\ h.origin = e.origin
    BY <1>8 DEF OfOrigin
  <2>2. h \notin Compacted(base, e)
    BY <2>1, <1>1, <1>2, <1>8
  <2>3. h.epoch = e.epoch /\ Key(h.record) = Key(e.record) /\ h.seq < e.seq
    BY <2>1, <2>2, <1>8 DEF Compacted
  <2>4. h \in Entry /\ e \in Entry
    BY <2>1
  <2> QED
    BY <2>1, <2>3, <2>4 DEF Superseded, Entry
<1> QED
  BY <1>4, <1>5, <1>6, <1>7, <1>8
\* Landing an entry that leaves no gap behind it: the log stays well-formed
\* and honest, its position of the origin is the entry's, and nothing it
\* claimed of a node never expelled is lost.
LEMMA LandedEntry ==
    ASSUME NEW hist \in SUBSET Entry, NEW held, WellFormed(hist, held), NEW e \in hist,
           NEW known, NEW local,
           \A f \in OfOrigin(held, e.origin) : Lacks(f, e),
           Supersedes(known, e) \/ \A f \in OfOrigin(held, e.origin) : f.epoch = e.epoch,
           \A h \in hist :
              h.origin # e.origin /\ h.origin \notin EverExpelled(hist)
                /\ Covers(HeldPosition(held, h.origin), h)
              => h \in held \/ Superseded(hist, h),
           \A h \in hist :
              h.origin = e.origin /\ h.epoch = e.epoch /\ h.seq <= e.seq
                /\ h.origin \notin EverExpelled(hist)
              => \/ h = e
                 \/ Superseded(hist, h)
                 \/ ~Supersedes(known, e) /\ h \in held
    PROVE  LET new == HeldLog(held, known, local, e) IN
           /\ WellFormed(hist, new)
           /\ HeldPosition(new, e.origin) = [epoch |-> e.epoch, seq |-> e.seq]
           /\ Honest(hist, new)
           /\ StillHeld(hist, Vector(held), new)
<1> DEFINE new == HeldLog(held, known, local, e)
<1> HIDE DEF new
<1>1. held \in SUBSET hist /\ held \in SUBSET Entry /\ IsFiniteSet(held) /\ e \in Entry /\ e.origin \in Nodes
  BY DEF WellFormed, Entry
<1>2. /\ e \in new
      /\ new \subseteq held \cup {e}
      /\ \A f \in OfOrigin(new, e.origin) : f.epoch = e.epoch /\ f.seq <= e.seq
      /\ \A o : o # e.origin /\ o \notin Purged(local, e) => OfOrigin(new, o) = OfOrigin(held, o)
      /\ \A o \in Purged(local, e) : OfOrigin(new, o) = {}
      /\ \A h \in OfOrigin(held, e.origin) : ~Supersedes(known, e) => h \in new \/ Superseded(hist, h)
  BY <1>1, HeldLogContents DEF new
<1>3. /\ Purged(local, e) \subseteq EverExpelled(hist)
      /\ e.origin \notin Purged(local, e)
  BY PurgedAreExpelled
<1>4. e \in OfOrigin(new, e.origin) /\ new \in SUBSET Entry /\ new \in SUBSET hist
  BY <1>1, <1>2 DEF OfOrigin
<1>5. \A f \in OfOrigin(new, e.origin) : ~Lacks(e, f)
  BY <1>1, <1>2, <1>4 DEF Lacks, Entry, OfOrigin
<1>6. HeldPosition(new, e.origin) = [epoch |-> e.epoch, seq |-> e.seq]
  BY <1>1, <1>4, <1>5, TopIsHeldPosition
<1>7. WellFormed(hist, new)
  <2>1. IsFiniteSet(new)
    <3>1. IsFiniteSet(held \cup {e})
      BY <1>1, FS_AddElement
    <3> QED
      BY <1>2, <3>1, FS_Subset
  <2>2. ASSUME NEW f \in new, NEW g \in new, f.origin = g.origin PROVE f.epoch = g.epoch
    <3>1. CASE f.origin = e.origin
      BY <1>2, <2>2, <3>1 DEF OfOrigin
    <3>2. CASE f.origin # e.origin
      BY <1>2, <2>2, <3>2 DEF OfOrigin, WellFormed
    <3> QED
      BY <3>1, <3>2
  <2>3. ASSUME NEW o \in Nodes, NEW part \in SUBSET OfOrigin(new, o), part # {}
        PROVE  \E f \in part : \A g \in part : ~Lacks(f, g)
    <3>1. CASE o = e.origin /\ e \in part
      BY <1>5, <3>1
    <3>2. CASE e \notin part
      <4>1. part \in SUBSET OfOrigin(held, o)
        BY <1>2, <3>2 DEF OfOrigin
      <4> QED
        BY <4>1, <2>3 DEF WellFormed
    <3>3. CASE o # e.origin /\ e \in part
      BY <3>3 DEF OfOrigin
    <3> QED
      BY <3>1, <3>2, <3>3
  <2> QED
    BY <1>4, <2>1, <2>2, <2>3 DEF WellFormed
<1>8. ASSUME NEW o \in Nodes \ EverExpelled(hist), o # e.origin
      PROVE  OfOrigin(new, o) = OfOrigin(held, o) /\ HeldPosition(new, o) = HeldPosition(held, o)
  BY <1>2, <1>3, <1>8, SameOriginSamePosition
<1>9. Honest(hist, new)
  <2> SUFFICES ASSUME NEW h \in hist, h.origin \notin EverExpelled(hist),
                      Covers(HeldPosition(new, h.origin), h)
               PROVE  h \in new \/ Superseded(hist, h)
    BY DEF Honest
  <2>1. h.origin \in Nodes
    BY DEF Entry
  <2>2. CASE h.origin # e.origin
    <3>1. OfOrigin(new, h.origin) = OfOrigin(held, h.origin)
          /\ HeldPosition(new, h.origin) = HeldPosition(held, h.origin)
      BY <1>8, <2>1, <2>2
    <3>2. h \in held \/ Superseded(hist, h)
      BY <2>2, <3>1
    <3> QED
      BY <3>1, <3>2 DEF OfOrigin
  <2>3. CASE h.origin = e.origin
    <3>1. h.epoch = e.epoch /\ h.seq <= e.seq
      BY <1>6, <2>3 DEF Covers
    <3>2. h = e \/ Superseded(hist, h) \/ (~Supersedes(known, e) /\ h \in held)
      BY <2>3, <3>1
    <3> QED
      BY <1>2, <2>3, <3>2 DEF OfOrigin
  <2> QED
    BY <2>2, <2>3
<1>10. StillHeld(hist, Vector(held), new)
  <2> SUFFICES ASSUME NEW o \in Nodes \ EverExpelled(hist)
               PROVE  AtOrAfter(HeldPosition(held, o), HeldPosition(new, o))
    BY DEF StillHeld, Vector
  <2>1. CASE o # e.origin
    <3>1. HeldPosition(held, o) \in Positions
      BY VectorType
    <3> QED
      BY <1>8, <2>1, <3>1 DEF AtOrAfter, Positions
  <2>2. CASE o = e.origin /\ OfOrigin(held, o) = {}
    <3>1. HeldPosition(held, o) = NoPosition
      BY <2>2 DEF HeldPosition
    <3> QED
      BY <1>1, <1>6, <2>2, <3>1 DEF AtOrAfter, NoPosition, Entry
  <2>3. CASE o = e.origin /\ OfOrigin(held, o) # {}
    <3>1. PICK t \in OfOrigin(held, o) : HeldPosition(held, o) = [epoch |-> t.epoch, seq |-> t.seq]
      BY <1>1, <2>3, HeldPositionIsTop DEF WellFormed
    <3>2. Lacks(t, e) /\ t \in Entry
      BY <1>1, <2>3, <3>1 DEF OfOrigin
    <3> QED
      BY <1>1, <1>6, <2>3, <3>1, <3>2 DEF AtOrAfter, Lacks, Entry
  <2> QED
    BY <2>1, <2>2, <2>3
<1> QED
  BY <1>6, <1>7, <1>9, <1>10 DEF new

\* The local log takes its next entry: nothing of an older epoch is there to
\* be superseded.
LEMMA OwnEntry ==
    ASSUME NEW hist \in SUBSET Entry, NEW held, WellFormed(hist, held), Honest(hist, held),
           NEW e \in hist, NEW local,
           \A f \in OfOrigin(held, e.origin) : Lacks(f, e) /\ f.epoch = e.epoch,
           \A h \in hist :
              h.origin = e.origin /\ h.epoch = e.epoch /\ h.seq <= e.seq
                /\ h.origin \notin EverExpelled(hist)
              => h = e \/ h \in held \/ Superseded(hist, h)
    PROVE  LET new == HeldLog(held, NoPosition, local, e) IN
           /\ WellFormed(hist, new) /\ Honest(hist, new) /\ StillHeld(hist, Vector(held), new)
           /\ e \in new /\ \A f \in new : f.origin = e.origin => f.epoch = e.epoch
<1> DEFINE new == HeldLog(held, NoPosition, local, e)
<1> HIDE DEF new
<1>1. ~Supersedes(NoPosition, e)
  BY DEF Supersedes
<1>2. /\ held \in SUBSET hist
      /\ \A f \in OfOrigin(held, e.origin) : Lacks(f, e)
      /\ Supersedes(NoPosition, e) \/ \A f \in OfOrigin(held, e.origin) : f.epoch = e.epoch
  BY DEF WellFormed
<1>3. e \in new /\ \A f \in OfOrigin(new, e.origin) : f.epoch = e.epoch
  BY <1>2, HeldLogContents DEF new
<1>5. WellFormed(hist, new) /\ Honest(hist, new) /\ StillHeld(hist, Vector(held), new)
  BY <1>1, <1>2, LandedEntry DEF new, Honest
<1> QED
  BY <1>3, <1>5 DEF OfOrigin, new

\* An entry nobody had before leaves every other log as honest as it was.
LEMMA HonestMoreHistory ==
    ASSUME NEW hist \in SUBSET Entry, NEW held, WellFormed(hist, held), Honest(hist, held),
           NEW g \in Entry, g.epoch > 0, \A h \in hist : h.origin = g.origin => Lacks(h, g)
    PROVE  Honest(hist \cup {g}, held)
<1> DEFINE more == hist \cup {g}
<1>1. /\ EverExpelled(hist) \subseteq EverExpelled(more)
      /\ \A h : Superseded(hist, h) => Superseded(more, h)
  BY MoreHistory
<1> SUFFICES ASSUME NEW h \in more, h.origin \notin EverExpelled(more),
                    Covers(HeldPosition(held, h.origin), h)
             PROVE  h \in held \/ Superseded(more, h)
  BY DEF Honest
<1>2. CASE h \in hist
  BY <1>1, <1>2 DEF Honest
<1>3. CASE h = g
  <2>1. g.origin \in Nodes /\ held \in SUBSET Entry /\ held \in SUBSET hist
    BY DEF Entry, WellFormed
  <2>2. CASE OfOrigin(held, g.origin) = {}
    BY <1>3, <2>2 DEF HeldPosition, Covers, NoPosition
  <2>3. CASE OfOrigin(held, g.origin) # {}
    <3>1. PICK t \in OfOrigin(held, g.origin) :
            HeldPosition(held, g.origin) = [epoch |-> t.epoch, seq |-> t.seq]
      BY <2>1, <2>3, HeldPositionIsTop DEF WellFormed
    <3>2. Lacks(t, g) /\ t \in Entry
      BY <2>1, <3>1 DEF OfOrigin
    <3> QED
      BY <1>3, <3>1, <3>2 DEF Covers, Lacks, Entry
  <2> QED
    BY <2>2, <2>3
<1> QED
  BY <1>2, <1>3
-----------------------------------------------------------------------------
(* What is on its way while histories and logs grow *)

\* What a vector claims of a log survives a log that grew.
LEMMA ClaimsSurvive ==
    ASSUME NEW hist \in SUBSET Entry, NEW more \in SUBSET Entry, hist \subseteq more,
           NEW held, WellFormed(hist, held), NEW grown, WellFormed(more, grown),
           StillHeld(more, Vector(held), grown),
           NEW v \in Vectors, StillHeld(hist, v, held)
    PROVE  StillHeld(more, v, grown)
<1>1. StillHeld(more, v, held)
  BY MoreHistory
<1>2. Vector(held) \in Vectors /\ Vector(grown) \in Vectors
  BY VectorType
<1>3. held \in SUBSET Entry /\ grown \in SUBSET Entry
  BY DEF WellFormed
<1> QED
  BY <1>1, <1>2, <1>3, StillHeldGrows

\* An exchange stays honest while what it relies on does.
LEMMA TalkSurvives ==
    ASSUME NEW hist, NEW more, hist \subseteq more, NEW logs, NEW grown,
           NEW x \in Conversations, TalksHonestly(hist, x, logs),
           \A batch \in SUBSET hist, v \in Vectors :
              NoneLeftOut(hist, batch, v) => NoneLeftOut(more, batch, v),
           x.phase # "idle" =>
              \A v \in Vectors :
                 /\ StillHeld(hist, v, logs[x.from]) => StillHeld(more, v, grown[x.from])
                 /\ StillHeld(hist, v, logs[x.to]) => StillHeld(more, v, grown[x.to])
    PROVE  TalksHonestly(more, x, grown)
<1>1. /\ x.asked \in Vectors /\ x.learned \in Vectors /\ x.previous \in Vectors
      /\ x.batch \in SUBSET hist /\ x.batch \subseteq more
  BY DEF Conversations, TalksHonestly
<1>2. x.phase \in {"ready", "request"} =>
         NoneLeftOut(more, x.batch, x.previous) /\ StillHeld(more, x.previous, grown[x.to])
  BY <1>1 DEF TalksHonestly
<1>3. x.phase \in Waiting => StillHeld(more, x.asked, grown[x.from])
  BY <1>1 DEF TalksHonestly, Waiting
<1>4. x.phase = "response" => NoneLeftOut(more, x.batch, x.asked)
  BY <1>1 DEF TalksHonestly
<1>5. x.phase \in {"answering", "response", "merging", "merged"} => StillHeld(more, x.learned, grown[x.to])
  BY <1>1 DEF TalksHonestly
<1> QED
  BY <1>1, <1>2, <1>3, <1>4, <1>5 DEF TalksHonestly

\* So does a request its requester gave up on.
LEMMA ArrivalSurvives ==
    ASSUME NEW hist, NEW more, hist \subseteq more, NEW logs, NEW grown,
           NEW m \in LateRequests, ArrivesHonestly(hist, m, logs),
           \A batch \in SUBSET hist, v \in Vectors :
              NoneLeftOut(hist, batch, v) => NoneLeftOut(more, batch, v),
           \A v \in Vectors : StillHeld(hist, v, logs[m.to]) => StillHeld(more, v, grown[m.to])
    PROVE  ArrivesHonestly(more, m, grown)
<1>1. m.base \in Vectors /\ m.batch \in SUBSET hist
  BY DEF LateRequests, ArrivesHonestly
<1> QED
  BY <1>1 DEF ArrivesHonestly

\* An empty batch leaves nothing out.
LEMMA NothingLeftOut ==
    ASSUME NEW hist, NEW vector
    PROVE  NoneLeftOut(hist, NoBatch, vector)
  BY DEF NoneLeftOut, NoBatch

\* A log holds what its own vector says; and anything holds what the empty
\* vector says.
LEMMA VectorIsHeld ==
    ASSUME NEW hist \in SUBSET Entry, NEW held, WellFormed(hist, held)
    PROVE  /\ StillHeld(hist, Vector(held), held)
           /\ StillHeld(hist, EmptyVector, held)
<1>1. \A o \in Nodes : HeldPosition(held, o) \in Positions
  BY VectorType
<1> QED
  BY <1>1 DEF StillHeld, Vector, EmptyVector, NoPosition, AtOrAfter, Positions

\* The position of an origin covers every entry held of it.
LEMMA PositionCovers ==
    ASSUME NEW hist \in SUBSET Entry, NEW held, WellFormed(hist, held),
           NEW o \in Nodes, NEW f \in OfOrigin(held, o)
    PROVE  Covers(HeldPosition(held, o), f)
<1>1. held \in SUBSET Entry /\ OfOrigin(held, o) # {}
  BY DEF WellFormed
<1>2. PICK t \in OfOrigin(held, o) :
        /\ HeldPosition(held, o) = [epoch |-> t.epoch, seq |-> t.seq]
        /\ \A g \in OfOrigin(held, o) : ~Lacks(t, g)
  BY <1>1, HeldPositionIsTop DEF WellFormed
<1>3. f \in Entry /\ t \in Entry /\ f.epoch = t.epoch /\ ~Lacks(t, f)
  BY <1>1, <1>2 DEF OfOrigin, WellFormed
<1> QED
  BY <1>2, <1>3 DEF Covers, Lacks, Entry

\* A batch about to land is honest against the log it lands in.
LEMMA OpenedIsHonest ==
    ASSUME NEW hist \in SUBSET Entry, NEW held, WellFormed(hist, held),
           NEW batch \in SUBSET hist, NEW v \in Vectors,
           NoneLeftOut(hist, batch, v), StillHeld(hist, v, held),
           NEW n, NEW t, t.rest = batch, t.positions = Vector(held)
    PROVE  LandsHonestly(hist, n, t, held)
<1>1. Vector(held) \in Vectors /\ held \in SUBSET Entry /\ batch \in SUBSET Entry
  BY VectorType DEF WellFormed
<1>2. NoneLeftOut(hist, batch, Vector(held))
  BY <1>1, KnowingMore
<1>3. PositionsKept(hist, n, Vector(held), held)
  BY PositionCovers DEF PositionsKept, Vector
<1> QED
  BY <1>2, <1>3 DEF LandsHonestly

-----------------------------------------------------------------------------
(* The rows a reader finds while a write is under way *)

\* Rows taken, origin by origin, from well-formed logs are well-formed.
LEMMA MixedWellFormed ==
    ASSUME NEW hist, NEW held, WellFormed(hist, held), NEW new, WellFormed(hist, new),
           NEW rows \in SUBSET hist, IsFiniteSet(rows), hist \in SUBSET Entry,
           \A o \in Nodes : \/ OfOrigin(rows, o) \subseteq OfOrigin(held, o)
                            \/ OfOrigin(rows, o) \subseteq OfOrigin(new, o)
    PROVE  WellFormed(hist, rows)
<1>1. ASSUME NEW e \in rows, NEW f \in rows, e.origin = f.origin PROVE e.epoch = f.epoch
  <2> DEFINE o == e.origin
  <2>1. o \in Nodes
    BY DEF Entry
  <2>2. e \in OfOrigin(rows, o) /\ f \in OfOrigin(rows, o)
    BY <1>1 DEF OfOrigin
  <2>3. \/ e \in OfOrigin(held, o) /\ f \in OfOrigin(held, o)
        \/ e \in OfOrigin(new, o) /\ f \in OfOrigin(new, o)
    BY <2>1, <2>2
  <2> QED
    BY <1>1, <2>3 DEF OfOrigin, WellFormed
<1>2. ASSUME NEW o \in Nodes, NEW part \in SUBSET OfOrigin(rows, o), part # {}
      PROVE  \E e \in part : \A f \in part : ~Lacks(e, f)
  <2>1. part \in SUBSET OfOrigin(held, o) \/ part \in SUBSET OfOrigin(new, o)
    OBVIOUS
  <2> QED
    BY <1>2, <2>1 DEF WellFormed
<1> QED
  BY <1>1, <1>2 DEF WellFormed

\* A reader in the middle of a write finds an honest log, if less of the
\* origin being written than the write will leave.
LEMMA FollowingRows ==
    ASSUME NEW hist \in SUBSET Entry, \A h \in hist : h.epoch > 0,
           NEW held, WellFormed(hist, held), Honest(hist, held),
           NEW rows, RowsFollow(hist, held, rows)
    PROVE  /\ WellFormed(hist, rows) /\ Honest(hist, rows)
           /\ StillHeld(hist, Vector(rows), held)
<1>1. /\ WellFormed(hist, rows) /\ rows \in SUBSET Entry /\ held \in SUBSET Entry
      /\ rows \in SUBSET hist
  BY DEF RowsFollow, WellFormed
<1>2. ASSUME NEW o \in Nodes \ EverExpelled(hist)
      PROVE  /\ AtOrAfter(HeldPosition(rows, o), HeldPosition(held, o))
             /\ \A h \in hist : h.origin = o /\ Covers(HeldPosition(rows, o), h)
                                  => h \in rows \/ Superseded(hist, h)
  <2>1. HeldPosition(rows, o) \in Positions /\ HeldPosition(held, o) \in Positions
    BY <1>1, VectorType
  <2>2. CASE OfOrigin(rows, o) = OfOrigin(held, o)
    <3>1. HeldPosition(rows, o) = HeldPosition(held, o)
      BY <2>2, SameOriginSamePosition
    <3>2. AtOrAfter(HeldPosition(rows, o), HeldPosition(held, o))
      BY <2>1, <3>1 DEF AtOrAfter, Positions
    <3>3. \A h \in hist : h.origin = o /\ Covers(HeldPosition(rows, o), h)
                            => h \in held \/ Superseded(hist, h)
      BY <3>1 DEF Honest
    <3> QED
      BY <2>2, <3>2, <3>3 DEF OfOrigin
  <2>3. ASSUME NEW e \in OfOrigin(held, o), OfOrigin(rows, o) = OfOrigin(held, o) \ {e},
               \A f \in OfOrigin(rows, o) : Lacks(f, e)
        PROVE  /\ AtOrAfter(HeldPosition(rows, o), HeldPosition(held, o))
               /\ \A h \in hist : h.origin = o /\ Covers(HeldPosition(rows, o), h)
                                    => h \in rows \/ Superseded(hist, h)
    <3>1. e \in Entry /\ \A f \in OfOrigin(rows, o) : f \in Entry
      BY <1>1 DEF OfOrigin
    <3>2. \A f \in OfOrigin(held, o) : ~Lacks(e, f)
      BY <2>3, <3>1 DEF Lacks, Entry
    <3>3. HeldPosition(held, o) = [epoch |-> e.epoch, seq |-> e.seq]
      BY <1>1, <3>2, TopIsHeldPosition
    <3>4. CASE OfOrigin(rows, o) = {}
      <4>1. HeldPosition(rows, o) = NoPosition
        BY <3>4 DEF HeldPosition
      <4>2. AtOrAfter(HeldPosition(rows, o), HeldPosition(held, o))
        BY <3>1, <3>3, <4>1 DEF AtOrAfter, NoPosition, Entry
      <4>3. \A h \in hist : ~Covers(NoPosition, h)
        BY DEF Covers, NoPosition
      <4> QED
        BY <4>1, <4>2, <4>3
    <3>5. CASE OfOrigin(rows, o) # {}
      <4>1. PICK t \in OfOrigin(rows, o) : HeldPosition(rows, o) = [epoch |-> t.epoch, seq |-> t.seq]
        BY <1>1, <3>5, HeldPositionIsTop DEF WellFormed
      <4>2. Lacks(t, e) /\ t \in Entry /\ t \in OfOrigin(held, o)
        BY <2>3, <3>1, <4>1
      <4>3. t.epoch = e.epoch
        BY <4>2 DEF OfOrigin, WellFormed
      <4>4. AtOrAfter(HeldPosition(rows, o), HeldPosition(held, o))
        BY <3>1, <3>3, <4>1, <4>2 DEF AtOrAfter, Lacks, Entry
      <4>5. ASSUME NEW h \in hist, h.origin = o, Covers(HeldPosition(rows, o), h)
            PROVE  h \in rows \/ Superseded(hist, h)
        <5>1. h \in Entry /\ h.epoch = e.epoch /\ h.seq < e.seq
          BY <3>1, <4>1, <4>2, <4>3, <4>5 DEF Covers, Lacks, Entry
        <5>2. Covers(HeldPosition(held, h.origin), h)
          BY <3>1, <3>3, <4>5, <5>1 DEF Covers, Entry
        <5>3. h \in held \/ Superseded(hist, h)
          BY <4>5, <5>2 DEF Honest
        <5>4. h # e
          BY <3>1, <5>1 DEF Entry
        <5> QED
          BY <2>3, <4>5, <5>3, <5>4 DEF OfOrigin
      <4> QED
        BY <4>4, <4>5
    <3> QED
      BY <3>4, <3>5
  <2> QED
    BY <2>2, <2>3 DEF RowsFollow
<1>3. Honest(hist, rows)
  <2> SUFFICES ASSUME NEW h \in hist, h.origin \notin EverExpelled(hist),
                      Covers(HeldPosition(rows, h.origin), h)
               PROVE  h \in rows \/ Superseded(hist, h)
    BY DEF Honest
  <2>1. h.origin \in Nodes
    BY DEF Entry
  <2> QED
    BY <1>2, <2>1
<1>4. StillHeld(hist, Vector(rows), held)
  BY <1>2 DEF StillHeld, Vector
<1> QED
  BY <1>1, <1>3, <1>4

\* The rows a write begins with follow the log it makes.
LEMMA BegunFollows ==
    ASSUME NEW hist \in SUBSET Entry, NEW held, WellFormed(hist, held), NEW e \in hist,
           NEW known, NEW local,
           \A f \in OfOrigin(held, e.origin) : Lacks(f, e),
           Supersedes(known, e) \/ \A f \in OfOrigin(held, e.origin) : f.epoch = e.epoch,
           WellFormed(hist, HeldLog(held, known, local, e))
    PROVE  LET new  == HeldLog(held, known, local, e)
               rows == Begun(held, known, e)
           IN  /\ RowsFollow(hist, new, rows)
               /\ OfOrigin(rows, e.origin) = OfOrigin(new, e.origin)
                    \/ /\ OfOrigin(rows, e.origin) = OfOrigin(new, e.origin) \ {e}
                       /\ e \in new /\ e \notin rows
               /\ \A o \in Nodes : o # e.origin => OfOrigin(rows, o) = OfOrigin(held, o)
<1> DEFINE new  == HeldLog(held, known, local, e)
           left == Cleared(held, known, e)
           rows == Begun(held, known, e)
<1>1. /\ held \in SUBSET hist /\ IsFiniteSet(held) /\ e \in Entry /\ e.origin \in Nodes
      /\ \A f \in held : f \in Entry
  BY DEF WellFormed, Entry
<1>2. Purged(local, e) \subseteq EverExpelled(hist) /\ e.origin \notin Purged(local, e)
  BY PurgedAreExpelled
<1>3. left \subseteq held /\ \A f \in held : f.origin # e.origin => f \in left
  BY DEF Cleared, Compacted, PurgedLog
<1>4. new = {f \in left \cup {e} : f.origin \notin Purged(local, e)}
  BY DEF HeldLog, Appended, Cleared
<1>5. e \notin held
  BY <1>1 DEF OfOrigin, Lacks, Entry
<1>6. (rows = held \cup {e} /\ left = held) \/ rows = left
  BY DEF Begun
<1> HIDE DEF new, left, rows
<1>7. OfOrigin(new, e.origin) = OfOrigin(left, e.origin) \cup {e} /\ e \in new
  BY <1>2, <1>4 DEF OfOrigin
<1>8. \/ OfOrigin(rows, e.origin) = OfOrigin(new, e.origin)
      \/ OfOrigin(rows, e.origin) = OfOrigin(new, e.origin) \ {e} /\ e \notin rows
  <2>1. CASE rows = held \cup {e} /\ left = held
    BY <1>7, <2>1 DEF OfOrigin
  <2>2. CASE rows = left
    BY <1>3, <1>5, <1>7, <2>2 DEF OfOrigin
  <2> QED
    BY <1>6, <2>1, <2>2
<1>9. \A f \in OfOrigin(rows, e.origin) : f = e \/ Lacks(f, e)
  BY <1>3, <1>6 DEF OfOrigin
<1>10. \A o \in Nodes : o # e.origin => OfOrigin(rows, o) = OfOrigin(held, o)
  BY <1>3, <1>6 DEF OfOrigin
<1>11. \A o \in Nodes : o # e.origin =>
          \/ OfOrigin(new, o) = OfOrigin(held, o)
          \/ OfOrigin(new, o) = {} /\ o \in EverExpelled(hist)
  BY <1>2, <1>3, <1>4 DEF OfOrigin
<1>12. WellFormed(hist, rows)
  <2>1. rows \in SUBSET hist
    BY <1>1, <1>3, <1>6
  <2>2. IsFiniteSet(rows)
    <3>1. IsFiniteSet(held \cup {e})
      BY <1>1, FS_AddElement
    <3>2. rows \subseteq held \cup {e}
      BY <1>3, <1>6
    <3> QED
      BY <3>1, <3>2, FS_Subset
  <2>3. WellFormed(hist, new)
    BY DEF new
  <2>4. \A o \in Nodes : \/ OfOrigin(rows, o) \subseteq OfOrigin(held, o)
                         \/ OfOrigin(rows, o) \subseteq OfOrigin(new, o)
    BY <1>8, <1>10
  <2> QED
    BY <2>1, <2>2, <2>3, <2>4, MixedWellFormed
<1>13. RowsFollow(hist, new, rows)
  <2> SUFFICES ASSUME NEW o \in Nodes
               PROVE  \/ OfOrigin(rows, o) = OfOrigin(new, o)
                      \/ \E f \in OfOrigin(new, o) :
                            /\ OfOrigin(rows, o) = OfOrigin(new, o) \ {f}
                            /\ \A g \in OfOrigin(rows, o) : Lacks(g, f)
                      \/ OfOrigin(new, o) = {} /\ o \in EverExpelled(hist)
    BY <1>12 DEF RowsFollow
  <2>1. CASE o = e.origin
    <3>1. e \in OfOrigin(new, o)
      BY <1>7, <2>1
    <3> QED
      BY <1>8, <1>9, <2>1, <3>1
  <2>2. CASE o # e.origin
    BY <1>10, <1>11, <2>2
  <2> QED
    BY <2>1, <2>2
<1> QED
  BY <1>7, <1>8, <1>10, <1>13 DEF new, rows

\* The rows of another node's log follow it as before once there is more
\* history.
LEMMA FollowsMoreHistory ==
    ASSUME NEW hist, NEW more, hist \subseteq more, NEW held, NEW rows,
           RowsFollow(hist, held, rows)
    PROVE  RowsFollow(more, held, rows)
<1>1. EverExpelled(hist) \subseteq EverExpelled(more)
  BY MoreHistory
<1>2. WellFormed(more, rows)
  BY DEF RowsFollow, WellFormed
<1> QED
  BY <1>1, <1>2 DEF RowsFollow

\* A log's own rows follow it.
LEMMA WholeRowsFollow ==
    ASSUME NEW hist, NEW held, WellFormed(hist, held)
    PROVE  RowsFollow(hist, held, held)
  BY DEF RowsFollow

(***************************************************************************)
(* Types and logs: TypeOK, LogInv, TablesFollow and HonestVectors.         *)
(***************************************************************************)

\* Types and logs are invariant together: a vector has a type because the
\* rows it is read from are well-formed.
IInv == TypeOK /\ LogInv /\ TablesFollow

-----------------------------------------------------------------------------
(* Types of records, rows and positions *)

\* What a record of each kind speaks about and says.
LEMMA RecordTypes ==
    ASSUME NEW r \in Records
    PROVE  /\ r.kind \in {"Source", "SourceGone", "Node", "Host", "Stewardship",
                          "StewardshipWithdrawn", "Expulsion"}
           /\ r.kind = "Source" => r.about \in Addresses /\ r.value \in Envelopes
           /\ r.kind = "Node" => r.about \in Nodes /\ r.value \in Names
           /\ r.kind = "Host" => r.about \in Hosts /\ r.value \in Names
           /\ r.kind = "Stewardship" => r.about \in Nodes /\ r.host \in Hosts
           /\ r.kind = "Expulsion" => r.about \in Nodes
  BY DEF Records, SourceRecord, SourceGoneRecord, NodeRecord, HostRecord,
         StewardshipRecord, WithdrawnRecord, ExpulsionRecord

\* Writing a source keeps the catalog one of source rows.
LEMMA SourceWrittenType ==
    ASSUME NEW rows \in SUBSET SourceRow, NEW w \in Nodes \cup {Local},
           NEW a \in Addresses, NEW v \in Envelopes
    PROVE  SourceWritten(rows, w, a, v) \in SUBSET SourceRow
  BY DEF SourceWritten, SourceRow, RowsAt

\* Landing an entry keeps the catalog one of source rows.
LEMMA CatalogAfterType ==
    ASSUME NEW rows \in SUBSET SourceRow, NEW known, NEW local, NEW e \in Entry
    PROVE  CatalogAfter(rows, known, local, e) \in SUBSET SourceRow
<1> DEFINE base == IF Supersedes(known, e) THEN PurgedCatalog(rows, e.origin) ELSE rows
           r    == e.record
           kept == CASE r.kind = "Source"     -> SourceWritten(base, e.origin, r.about, r.value)
                     [] r.kind = "SourceGone" -> CatalogTombstoned(base, e.origin, r.about)
                     [] OTHER                 -> base
<1>1. base \in SUBSET SourceRow
  BY DEF PurgedCatalog
<1>2. r \in Records /\ e.origin \in Nodes
  BY DEF Entry
<1> HIDE DEF base
<1>3. kept \in SUBSET SourceRow
  <2>1. CASE r.kind = "Source"
    <3>1. SourceWritten(base, e.origin, r.about, r.value) \in SUBSET SourceRow
      BY <1>1, <1>2, <2>1, RecordTypes, SourceWrittenType
    <3> QED
      BY <2>1, <3>1
  <2>2. CASE r.kind = "SourceGone"
    BY <1>1, <2>2 DEF CatalogTombstoned
  <2>3. CASE r.kind \notin {"Source", "SourceGone"}
    BY <1>1, <2>3
  <2> QED
    BY <2>1, <2>2, <2>3
<1>4. CatalogAfter(rows, known, local, e) = {row \in kept : row.steward \notin Purged(local, e)}
  BY DEF CatalogAfter, base
<1> QED
  BY <1>3, <1>4

\* A purge keeps the roster tables.
LEMMA PurgedRosterType ==
    ASSUME NEW ros \in Rosters, NEW x
    PROVE  PurgedRoster(ros, x) \in Rosters
  BY DEF PurgedRoster, Rosters

\* Applying a record keeps the roster tables.
LEMMA MaterializedType ==
    ASSUME NEW ros \in Rosters, NEW o \in Nodes, NEW r \in Records
    PROVE  Materialized(ros, o, r) \in Rosters
<1> USE RecordTypes
<1>1. CASE ~Speaks(o, r)
  BY <1>1 DEF Materialized, Speaks
<1>2. CASE Speaks(o, r) /\ r.kind = "Node"
  BY <1>2 DEF Materialized, Rosters
<1>3. CASE r.kind = "Host"
  <2>1. Speaks(o, r)
    BY <1>3 DEF Speaks
  <2> QED
    BY <1>3, <2>1 DEF Materialized, Rosters
<1>4. CASE Speaks(o, r) /\ r.kind = "Stewardship"
  BY <1>4 DEF Materialized, Rosters
<1>5. CASE Speaks(o, r) /\ r.kind = "StewardshipWithdrawn"
  BY <1>5 DEF Materialized, Rosters
<1>6. CASE r.kind = "Expulsion"
  <2>1. Speaks(o, r)
    BY <1>6 DEF Speaks
  <2> QED
    BY <1>6, <2>1 DEF Materialized, Rosters
<1>7. CASE r.kind \in {"Source", "SourceGone"}
  <2>1. Speaks(o, r)
    BY <1>7 DEF Speaks
  <2> QED
    BY <1>7, <2>1 DEF Materialized
<1> QED
  BY <1>1, <1>2, <1>3, <1>4, <1>5, <1>6, <1>7

\* Landing an entry keeps the roster tables.
LEMMA RosterAfterType ==
    ASSUME NEW ros \in Rosters, NEW known, NEW local, NEW e \in Entry
    PROVE  RosterAfter(ros, known, local, e) \in Rosters
<1> DEFINE base == IF Supersedes(known, e) THEN PurgedRoster(ros, e.origin) ELSE ros
<1>1. base \in Rosters
  BY PurgedRosterType
<1> HIDE DEF base
<1>2. Materialized(base, e.origin, e.record) \in Rosters
  BY <1>1, MaterializedType DEF Entry
<1>3. PurgedRoster(Materialized(base, e.origin, e.record), e.record.about) \in Rosters
  BY <1>2, PurgedRosterType
<1> QED
  BY <1>2, <1>3 DEF RosterAfter, base

\* The initial values have their types.
LEMMA FirstTypes ==
    /\ EmptyVector \in Vectors
    /\ Unlocked \in Landings
    /\ Idle \in Conversations
    /\ \A n \in Nodes : FirstRoster(n) \in Rosters
    /\ \A n \in Nodes, ep \in Nat : FirstEntry(n, ep) \in Entry
<1>1. EmptyVector \in Vectors
  BY DEF EmptyVector, Vectors, NoPosition, Positions
<1>2. Unlocked \in Landings
  BY <1>1 DEF Unlocked, Landings, Batches, NoBatch
<1>3. Idle \in Conversations
  BY <1>1, SyncAssumption DEF Idle, Conversations, Batches, NoBatch, NoOne, Phases
<1>4. FirstName \in Names
  BY SyncAssumption DEF FirstName
<1>5. \A n \in Nodes : FirstRoster(n) \in Rosters
  BY <1>4 DEF FirstRoster, EmptyRoster, Rosters
<1>6. \A n \in Nodes : NodeRecord(n, FirstName) \in Records
  BY <1>4 DEF Records
<1>7. \A n \in Nodes, ep \in Nat : FirstEntry(n, ep) \in Entry
  BY <1>6 DEF FirstEntry, Entry
<1> QED
  BY <1>1, <1>2, <1>3, <1>5, <1>7

\* Every vector a node reads off its log has its type.
LEMMA VectorsTyped ==
    ASSUME IInv
    PROVE  \A n \in Nodes : /\ Vector(log[n]) \in Vectors /\ Vector(table[n]) \in Vectors
                            /\ log[n] \in SUBSET Entry /\ table[n] \in SUBSET Entry
                            /\ WellFormed(history, log[n]) /\ WellFormed(history, table[n])
                            /\ \A o \in Nodes : HeldPosition(log[n], o) \in Positions
<1>1. history \in SUBSET Entry
      /\ \A n \in Nodes : WellFormed(history, log[n]) /\ WellFormed(history, table[n])
  BY DEF IInv, TypeOK, LogInv, HeldLogs, TablesFollow, RowsFollow
<1>2. \A n \in Nodes : log[n] \in SUBSET Entry /\ table[n] \in SUBSET Entry
  BY <1>1 DEF WellFormed
<1> QED
  BY <1>1, <1>2, VectorType

-----------------------------------------------------------------------------
(* Type correctness, action by action *)

\* A log an entry is appended to is a log.
LEMMA HeldLogType ==
    ASSUME NEW held \in SUBSET Entry, NEW known, NEW local, NEW e \in Entry
    PROVE  HeldLog(held, known, local, e) \in SUBSET Entry
  BY DEF HeldLog, Appended, Compacted, PurgedLog

\* So are the rows a reader finds meanwhile.
LEMMA BegunType ==
    ASSUME NEW held \in SUBSET Entry, NEW known, NEW e \in Entry
    PROVE  Begun(held, known, e) \in SUBSET Entry
  BY DEF Begun, Cleared, Compacted, PurgedLog

\* Appending to the local log keeps the types of all it changes.
LEMMA LoggedTypes ==
    ASSUME IInv, NEW n \in Nodes, NEW r \in Records, Logged(n, r)
    PROVE  /\ NextEntry(n, r) \in Entry
           /\ epoch' \in [Nodes -> Nat] /\ mark' \in [Nodes -> Nat]
           /\ log' \in [Nodes -> Batches] /\ table' \in [Nodes -> Batches]
           /\ tx' \in [Nodes -> Landings]
           /\ exchange' \in [Exchanges -> Conversations]
           /\ late' \subseteq LateRequests
           /\ history' \subseteq Entry
<1> USE DEF IInv, TypeOK
<1>1. NextEntry(n, r) \in Entry
  BY DEF NextEntry, Entry
<1>2. HeldLog(log[n], NoPosition, n, NextEntry(n, r)) \in Batches
  BY <1>1, HeldLogType DEF Batches
<1>3. log' \in [Nodes -> Batches] /\ table' \in [Nodes -> Batches]
  <2>1. Begun(table[n], NoPosition, NextEntry(n, r)) \in Batches
    BY <1>1, BegunType DEF Batches
  <2> QED
    BY <1>2, <2>1 DEF Logged
<1>4. epoch' \in [Nodes -> Nat] /\ mark' \in [Nodes -> Nat]
  BY DEF Logged
<1>5. tx' = tx /\ exchange' = exchange /\ late' = late
  BY DEF Logged, wireVars
<1>6. history' \subseteq Entry
  BY <1>1 DEF Logged
<1> QED
  BY <1>1, <1>3, <1>4, <1>5, <1>6

\* Publishing a record keeps the types.
LEMMA PublishTypes ==
    ASSUME IInv, NEW n \in Nodes, NEW r \in Records, Publish(n, r)
    PROVE  TypeOK'
<1>1. Logged(n, r)
  BY DEF Publish
<1>2. NextEntry(n, r) \in Entry
  BY <1>1, LoggedTypes
<1>3. catalog[n] \in SUBSET SourceRow /\ roster[n] \in Rosters
  BY DEF IInv, TypeOK
<1>4. CatalogAfter(catalog[n], NoPosition, n, NextEntry(n, r)) \in SUBSET SourceRow
  BY <1>2, <1>3, CatalogAfterType
<1>5. RosterAfter(roster[n], NoPosition, n, NextEntry(n, r)) \in Rosters
  BY <1>2, <1>3, RosterAfterType
<1>6. catalog' \in [Nodes -> SUBSET SourceRow]
  BY <1>4 DEF IInv, TypeOK, Publish
<1>7. roster' \in [Nodes -> Rosters]
  BY <1>5 DEF IInv, TypeOK, Publish
<1> QED
  BY <1>1, <1>6, <1>7, LoggedTypes DEF TypeOK

\* What every write publishes is a record.
LEMMA PublishedRecords ==
    /\ \A a \in Addresses, v \in Envelopes : SourceRecord(a, v) \in Records
    /\ \A a \in Addresses : SourceGoneRecord(a) \in Records
    /\ \A n \in Nodes, v \in Names : NodeRecord(n, v) \in Records
    /\ \A h \in Hosts, v \in Names : HostRecord(h, v) \in Records
    /\ \A n \in Nodes, h \in Hosts : StewardshipRecord(n, h) \in Records
                                      /\ WithdrawnRecord(n, h) \in Records
    /\ \A x \in Expellable : ExpulsionRecord(x) \in Records
<1>1. \A a \in Addresses, v \in Envelopes : SourceRecord(a, v) \in Records
  BY DEF Records
<1>2. \A a \in Addresses : SourceGoneRecord(a) \in Records
  BY DEF Records
<1>3. \A n \in Nodes, v \in Names : NodeRecord(n, v) \in Records
  BY DEF Records
<1>4. \A h \in Hosts, v \in Names : HostRecord(h, v) \in Records
  BY DEF Records
<1>5. \A n \in Nodes, h \in Hosts : StewardshipRecord(n, h) \in Records
                                    /\ WithdrawnRecord(n, h) \in Records
  BY DEF Records
<1>6. \A x \in Expellable : ExpulsionRecord(x) \in Records
  BY SyncAssumption DEF Records
<1> QED
  BY <1>1, <1>2, <1>3, <1>4, <1>5, <1>6

\* Every write of a node is one of these: an unchanged log, one entry
\* appended to it, or a rebuilt store.
LEMMA WriteCases ==
    ASSUME NEW n \in Nodes, Write(n)
    PROVE  \/ \E a \in Addresses, v \in Envelopes : UpsertSource(n, a, v)
           \/ \E a \in Addresses : DeleteSource(n, a)
           \/ \E r \in Records : Publish(n, r)
           \/ Rebuild(n)
<1>1. CASE \E v \in Names : PublishNode(n, v)
  BY <1>1, PublishedRecords DEF PublishNode
<1>2. CASE \E h \in Hosts, v \in Names : PublishHost(n, h, v)
  BY <1>2, PublishedRecords DEF PublishHost
<1>3. CASE \E h \in Hosts : PublishStewardship(n, h)
  BY <1>3, PublishedRecords DEF PublishStewardship
<1>4. CASE \E h \in Hosts : WithdrawStewardship(n, h)
  BY <1>4, PublishedRecords DEF WithdrawStewardship
<1>5. CASE \E x \in Expellable : Expel(n, x)
  BY <1>5, PublishedRecords DEF Expel
<1> QED
  BY <1>1, <1>2, <1>3, <1>4, <1>5 DEF Write

\* A node's own writes keep the types.
LEMMA WriteTypes ==
    ASSUME IInv, NEW n \in Nodes, Write(n)
    PROVE  TypeOK'
<1>1. ASSUME NEW a \in Addresses, NEW v \in Envelopes, UpsertSource(n, a, v)
      PROVE  TypeOK'
  <2>1. catalog[n] \in SUBSET SourceRow /\ Local \in Nodes \cup {Local}
    BY DEF IInv, TypeOK
  <2>2. SourceWritten(catalog[n], Local, a, v) \in SUBSET SourceRow
    BY <2>1, SourceWrittenType
  <2>3. catalog' \in [Nodes -> SUBSET SourceRow] /\ roster' \in [Nodes -> Rosters]
    BY <1>1, <2>2 DEF IInv, TypeOK, UpsertSource
  <2>4. CASE IsNews(catalog[n], a, v)
    <3>1. Logged(n, SourceRecord(a, v)) /\ SourceRecord(a, v) \in Records
      BY <1>1, <2>4, PublishedRecords DEF UpsertSource
    <3> QED
      BY <2>3, <3>1, LoggedTypes DEF TypeOK
  <2>5. CASE ~IsNews(catalog[n], a, v)
    <3>1. UNCHANGED <<epoch, mark, log, table, tx, wireVars, history>>
      BY <1>1, <2>5 DEF UpsertSource
    <3> QED
      BY <2>3, <3>1 DEF IInv, TypeOK, wireVars
  <2> QED
    BY <2>4, <2>5
<1>2. ASSUME NEW a \in Addresses, DeleteSource(n, a)
      PROVE  TypeOK'
  <2>1. Logged(n, SourceGoneRecord(a)) /\ SourceGoneRecord(a) \in Records
    BY <1>2, PublishedRecords DEF DeleteSource
  <2>2. catalog' \in [Nodes -> SUBSET SourceRow] /\ roster' \in [Nodes -> Rosters]
    BY <1>2 DEF IInv, TypeOK, DeleteSource
  <2> QED
    BY <2>1, <2>2, LoggedTypes DEF TypeOK
<1>3. ASSUME NEW r \in Records, Publish(n, r)
      PROVE  TypeOK'
  BY <1>3, PublishTypes
<1>4. CASE Rebuild(n)
  <2>1. epoch[n] + 1 \in Nat
    BY DEF IInv, TypeOK
  <2>2. FirstEntry(n, epoch[n] + 1) \in Entry /\ FirstRoster(n) \in Rosters
    BY <2>1, FirstTypes
  <2>3. Rebuilt(n) /\ tx' = tx /\ exchange' = exchange /\ late' = late
    BY <1>4 DEF Rebuild, wireVars
  <2>4. epoch' \in [Nodes -> Nat] /\ mark' \in [Nodes -> Nat]
    BY <2>1, <2>3 DEF IInv, TypeOK, Rebuilt
  <2>5. log' \in [Nodes -> Batches] /\ table' \in [Nodes -> Batches] /\ history' \subseteq Entry
    BY <2>2, <2>3 DEF IInv, TypeOK, Rebuilt, Batches
  <2>6. catalog' \in [Nodes -> SUBSET SourceRow] /\ roster' \in [Nodes -> Rosters]
    BY <2>2, <2>3 DEF IInv, TypeOK, Rebuilt
  <2> QED
    BY <2>3, <2>4, <2>5, <2>6 DEF IInv, TypeOK
<1> QED
  BY <1>1, <1>2, <1>3, <1>4, WriteCases

\* Landing a batch keeps the types.
LEMMA LandTypes ==
    ASSUME IInv, NEW n \in Nodes, Land(n)
    PROVE  TypeOK'
<1>1. /\ tx[n] \in Landings /\ tx \in [Nodes -> Landings]
      /\ exchange \in [Exchanges -> Conversations]
      /\ catalog[n] \in SUBSET SourceRow /\ roster[n] \in Rosters
      /\ log[n] \in SUBSET Entry /\ table[n] \in SUBSET Entry
  BY DEF IInv, TypeOK, Batches
<1>2. CASE SkipEntry(n)
  <2>1. PICK e \in tx[n].rest : tx' = [tx EXCEPT ![n].rest = @ \ {e}]
    BY <1>2 DEF SkipEntry
  <2>2. [tx[n] EXCEPT !.rest = @ \ {e}] \in Landings
    BY <1>1 DEF Landings, Batches
  <2>3. tx' \in [Nodes -> Landings]
    BY <1>1, <2>1, <2>2
  <2> QED
    BY <1>2, <2>3 DEF IInv, TypeOK, SkipEntry, storeVars, wireVars
<1>3. CASE HoldEntry(n)
  <2>1. PICK e \in tx[n].rest :
          LET known == tx[n].positions[e.origin] IN
          /\ log'     = [log EXCEPT ![n] = HeldLog(@, known, n, e)]
          /\ table'   = [table EXCEPT ![n] = Begun(@, known, e)]
          /\ catalog' = [catalog EXCEPT ![n] = CatalogAfter(@, known, n, e)]
          /\ roster'  = [roster EXCEPT ![n] = RosterAfter(@, known, n, e)]
          /\ tx' = [tx EXCEPT ![n] = Landed(tx[n], e)]
    BY <1>3 DEF HoldEntry
  <2> DEFINE known == tx[n].positions[e.origin]
             pos   == [epoch |-> e.epoch, seq |-> e.seq]
  <2>2. e \in Entry /\ e.origin \in Nodes /\ pos \in Positions
    BY <1>1 DEF Landings, Batches, Entry, Positions
  <2>4. [tx[n].positions EXCEPT ![e.origin] = pos] \in Vectors
    BY <1>1, <2>2 DEF Landings, Vectors
  <2>5. Speaks(e.origin, e.record) \in BOOLEAN
    BY DEF Speaks
  <2>6. Landed(tx[n], e) \in Landings
    BY <1>1, <2>4, <2>5 DEF Landed, Landings, Batches
  <2>7. tx' \in [Nodes -> Landings]
    BY <1>1, <2>1, <2>6
  <2>8. log' \in [Nodes -> Batches] /\ table' \in [Nodes -> Batches]
    <3>1. HeldLog(log[n], known, n, e) \in Batches /\ Begun(table[n], known, e) \in Batches
      BY <1>1, <2>2, HeldLogType, BegunType DEF Batches
    <3> QED
      BY <2>1, <3>1 DEF IInv, TypeOK
  <2>9. catalog' \in [Nodes -> SUBSET SourceRow]
    <3>1. CatalogAfter(catalog[n], known, n, e) \in SUBSET SourceRow
      BY <1>1, <2>2, CatalogAfterType
    <3> QED
      BY <2>1, <3>1 DEF IInv, TypeOK
  <2>10. roster' \in [Nodes -> Rosters]
    <3>1. RosterAfter(roster[n], known, n, e) \in Rosters
      BY <1>1, <2>2, RosterAfterType
    <3> QED
      BY <2>1, <3>1 DEF IInv, TypeOK
  <2> QED
    BY <1>3, <2>7, <2>8, <2>9, <2>10 DEF IInv, TypeOK, HoldEntry, wireVars
<1>4. CASE Commit(n)
  <2>1. tx' \in [Nodes -> Landings]
    BY <1>1, <1>4, FirstTypes DEF Commit
  <2>2. exchange' \in [Exchanges -> Conversations]
    <3>1. CASE tx[n].by = Abandoned
      BY <1>1, <1>4, <3>1 DEF Commit
    <3>2. CASE tx[n].by # Abandoned
      <4>1. tx[n].by \in Exchanges /\ tx[n].news \in BOOLEAN
        BY <1>1, <1>4, <3>2 DEF Commit, Landings
      <4>2. exchange[tx[n].by] \in Conversations
        BY <1>1, <4>1
      <4>3. /\ [exchange[tx[n].by] EXCEPT !.phase = "served"] \in Conversations
            /\ [exchange[tx[n].by] EXCEPT !.phase = "merged", !.news = tx[n].news] \in Conversations
        BY <4>1, <4>2 DEF Conversations, Phases
      <4> QED
        BY <1>1, <1>4, <3>2, <4>1, <4>3 DEF Commit
    <3> QED
      BY <3>1, <3>2
  <2> QED
    BY <1>4, <2>1, <2>2 DEF IInv, TypeOK, Commit, storeVars
<1>5. CASE InsertEntry(n) \/ PurgeEntries(n)
  <2>1. table' \in [Nodes -> Batches]
    BY <1>1, <1>5 DEF IInv, TypeOK, InsertEntry, PurgeEntries, Batches
  <2> QED
    BY <1>5, <2>1 DEF IInv, TypeOK, InsertEntry, PurgeEntries, wireVars
<1> QED
  BY <1>2, <1>3, <1>4, <1>5 DEF Land

\* A batch cut from a log is a batch.
LEMMA LogAfterType ==
    ASSUME NEW held \in SUBSET Entry, NEW vector, NEW limit
    PROVE  LogAfter(held, vector, limit) \in Batches
  BY DEF LogAfter, Lacking, Batches

\* The steps of an exchange keep the types.
LEMMA ExchangeTypes ==
    ASSUME IInv, NEW i \in Exchanges,
           \/ \E n, p \in Nodes : StartExchange(i, n, p)
           \/ Proceed(i) \/ BeginServe(i) \/ BeginMerge(i) \/ Abandon(i)
    PROVE  TypeOK'
<1> DEFINE x == exchange[i]
<1>1. /\ x \in Conversations /\ tx \in [Nodes -> Landings]
      /\ exchange \in [Exchanges -> Conversations]
      /\ x.batch \in Batches /\ x.phase \in Phases /\ x.previous \in Vectors
      /\ x.round \in 0..RoundsMax
  BY DEF IInv, TypeOK, Conversations
<1>2. x.phase # "idle" => x.from \in Nodes /\ x.to \in Nodes
  BY DEF IInv, LogInv, TxOwners
<1>3. ASSUME NEW n \in Nodes, NEW by \in Exchanges \cup {Nobody, Abandoned}, NEW batch \in Batches
      PROVE  OpenTx(n, by, batch) \in Landings
  BY VectorsTyped DEF OpenTx, Landings
<1>4. ASSUME UNCHANGED <<storeVars, history>>, exchange' \in [Exchanges -> Conversations],
             tx' \in [Nodes -> Landings], late' \subseteq LateRequests
      PROVE  TypeOK'
  BY <1>4 DEF IInv, TypeOK, storeVars
<1>5. tx \in [Nodes -> Landings] /\ late \subseteq LateRequests
  BY DEF IInv, TypeOK
<1>6. CASE \E n, p \in Nodes : StartExchange(i, n, p)
  <2>1. PICK n \in Nodes, p \in Nodes : StartExchange(i, n, p)
    BY <1>6
  <2>2. [Idle EXCEPT !.phase = "request", !.from = n, !.to = p, !.round = 1,
                     !.asked = Vector(table[n])] \in Conversations
    <3>1. Idle \in Conversations /\ Vector(table[n]) \in Vectors /\ 1 \in 0..RoundsMax
      BY FirstTypes, VectorsTyped, SyncAssumption
    <3> QED
      BY <3>1 DEF Conversations, Phases
  <2> QED
    BY <1>1, <1>4, <1>5, <2>1, <2>2 DEF StartExchange
<1>7. CASE SendRequest(i)
  <2>1. x.from \in Nodes
    BY <1>2, <1>7 DEF SendRequest
  <2>2. [x EXCEPT !.phase = "request", !.asked = Vector(table[x.from])] \in Conversations
    BY <1>1, <2>1, VectorsTyped DEF Conversations, Phases
  <2>3. exchange' = [exchange EXCEPT ![i] = [x EXCEPT !.phase = "request", !.asked = Vector(table[x.from])]]
    BY <1>1, <1>7 DEF SendRequest
  <2> QED
    BY <1>1, <1>4, <1>5, <1>7, <2>2, <2>3 DEF SendRequest
<1>8. CASE BeginMerge(i)
  <2>1. x.from \in Nodes
    BY <1>2, <1>8 DEF BeginMerge
  <2>2. [x EXCEPT !.phase = "merged", !.news = FALSE, !.asked = EmptyVector] \in Conversations
    BY <1>1, FirstTypes DEF Conversations, Phases
  <2>3. [x EXCEPT !.phase = "merging", !.batch = NoBatch, !.asked = EmptyVector] \in Conversations
    BY <1>1, FirstTypes DEF Conversations, Phases, NoBatch, Batches
  <2>4. CASE x.batch = NoBatch
    <3>1. exchange' = [exchange EXCEPT ![i] = [x EXCEPT !.phase = "merged", !.news = FALSE,
                                                        !.asked = EmptyVector]]
      BY <1>1, <1>8, <2>4 DEF BeginMerge
    <3> QED
      BY <1>1, <1>4, <1>5, <1>8, <2>2, <2>4, <3>1 DEF BeginMerge
  <2>5. CASE x.batch # NoBatch
    <3>1. exchange' = [exchange EXCEPT ![i] = [x EXCEPT !.phase = "merging", !.batch = NoBatch,
                                                        !.asked = EmptyVector]]
      BY <1>1, <1>8, <2>5 DEF BeginMerge
    <3>2. tx' = [tx EXCEPT ![x.from] = OpenTx(x.from, i, x.batch)]
      BY <1>8, <2>5 DEF BeginMerge
    <3>3. tx' \in [Nodes -> Landings]
      BY <1>1, <1>3, <2>1, <3>2
    <3> QED
      BY <1>1, <1>4, <1>5, <1>8, <2>3, <3>1, <3>3 DEF BeginMerge
  <2> QED
    BY <2>4, <2>5
<1>9. CASE Finish(i)
  <2>1. exchange' = [exchange EXCEPT ![i] = Idle]
    BY <1>9 DEF Finish
  <2> QED
    BY <1>1, <1>4, <1>5, <1>9, <2>1, FirstTypes DEF Finish
<1>10. CASE NextRound(i)
  <2>1. x.from \in Nodes /\ x.round < RoundsMax
    BY <1>2, <1>10 DEF NextRound
  <2>2. Outbound(i) \in Batches
    BY <2>1, VectorsTyped, LogAfterType DEF Outbound
  <2>3. x.round + 1 \in 0..RoundsMax
    BY <1>1, <2>1, SyncAssumption
  <2>4. [x EXCEPT !.phase = "ready", !.round = @ + 1, !.batch = Outbound(i),
                  !.previous = x.learned, !.learned = EmptyVector, !.news = FALSE] \in Conversations
    BY <1>1, <2>2, <2>3, FirstTypes DEF Conversations, Phases
  <2>5. exchange' = [exchange EXCEPT ![i] =
          [x EXCEPT !.phase = "ready", !.round = @ + 1, !.batch = Outbound(i),
                    !.previous = x.learned, !.learned = EmptyVector, !.news = FALSE]]
    BY <1>10 DEF NextRound
  <2> QED
    BY <1>1, <1>4, <1>5, <1>10, <2>4, <2>5 DEF NextRound
<1>11. CASE BeginServe(i)
  <2>1. x.to \in Nodes
    BY <1>2, <1>11 DEF BeginServe
  <2>2. /\ [x EXCEPT !.phase = "served"] \in Conversations
        /\ [x EXCEPT !.phase = "serving", !.batch = NoBatch] \in Conversations
    BY <1>1 DEF Conversations, Phases, NoBatch, Batches
  <2>3. CASE x.batch = NoBatch
    <3>1. exchange' = [exchange EXCEPT ![i] = [x EXCEPT !.phase = "served"]]
      BY <1>1, <1>11, <2>3 DEF BeginServe
    <3> QED
      BY <1>1, <1>4, <1>5, <1>11, <2>2, <2>3, <3>1 DEF BeginServe
  <2>4. CASE x.batch # NoBatch
    <3>1. exchange' = [exchange EXCEPT ![i] = [x EXCEPT !.phase = "serving", !.batch = NoBatch]]
      BY <1>1, <1>11, <2>4 DEF BeginServe
    <3>2. tx' = [tx EXCEPT ![x.to] = OpenTx(x.to, i, x.batch)]
      BY <1>11, <2>4 DEF BeginServe
    <3>3. tx' \in [Nodes -> Landings]
      BY <1>1, <1>3, <2>1, <3>2
    <3> QED
      BY <1>1, <1>4, <1>5, <1>11, <2>2, <3>1, <3>3 DEF BeginServe
  <2> QED
    BY <2>3, <2>4
<1>12. CASE ReadVector(i)
  <2>1. x.to \in Nodes
    BY <1>2, <1>12 DEF ReadVector
  <2>2. [x EXCEPT !.phase = "answering", !.learned = Vector(table[x.to])] \in Conversations
    BY <1>1, <2>1, VectorsTyped DEF Conversations, Phases
  <2>3. exchange' = [exchange EXCEPT ![i] = [x EXCEPT !.phase = "answering",
                                                      !.learned = Vector(table[x.to])]]
    BY <1>1, <1>12 DEF ReadVector
  <2> QED
    BY <1>1, <1>4, <1>5, <1>12, <2>2, <2>3 DEF ReadVector
<1>13. CASE ReadLog(i)
  <2>1. x.to \in Nodes
    BY <1>2, <1>13 DEF ReadLog
  <2>2. LogAfter(table[x.to], x.asked, BatchMax) \in Batches
    BY <2>1, VectorsTyped, LogAfterType
  <2>3. [x EXCEPT !.phase = "response", !.batch = LogAfter(table[x.to], x.asked, BatchMax)]
          \in Conversations
    BY <1>1, <2>2 DEF Conversations, Phases
  <2>4. exchange' = [exchange EXCEPT ![i] =
          [x EXCEPT !.phase = "response", !.batch = LogAfter(table[x.to], x.asked, BatchMax)]]
    BY <1>1, <1>13 DEF ReadLog
  <2> QED
    BY <1>1, <1>4, <1>5, <1>13, <2>3, <2>4 DEF ReadLog
<1>14. CASE Abandon(i)
  <2>1. x.from \in Nodes /\ x.to \in Nodes
    BY <1>2, <1>14 DEF Abandon, Waiting
  <2>2. exchange' \in [Exchanges -> Conversations]
    BY <1>1, <1>14, FirstTypes DEF Abandon
  <2>3. [tx[x.to] EXCEPT !.by = Abandoned] \in Landings
    BY <1>1, <2>1 DEF Landings
  <2>4. tx' \in [Nodes -> Landings]
    <3>1. CASE x.phase = "serving"
      <4>1. tx' = [tx EXCEPT ![x.to] = [tx[x.to] EXCEPT !.by = Abandoned]]
        BY <1>1, <1>14, <2>1, <3>1 DEF Abandon
      <4> QED
        BY <1>1, <2>3, <4>1
    <3>2. CASE x.phase # "serving"
      BY <1>1, <1>14, <3>2 DEF Abandon
    <3> QED
      BY <3>1, <3>2
  <2>5. [to |-> x.to, batch |-> x.batch, base |-> x.previous] \in LateRequests
    BY <1>1, <2>1 DEF LateRequests
  <2>6. late' \subseteq LateRequests
    BY <1>5, <1>14, <2>5 DEF Abandon
  <2> QED
    BY <1>4, <1>14, <2>2, <2>4, <2>6 DEF Abandon
<1> QED
  BY <1>6, <1>7, <1>8, <1>9, <1>10, <1>11, <1>12, <1>13, <1>14 DEF Proceed

\* Every step keeps the types.
LEMMA NextTypes ==
    ASSUME IInv, [Next]_vars
    PROVE  TypeOK'
<1>1. CASE \E n \in Nodes : Write(n) \/ Land(n)
  BY <1>1, WriteTypes, LandTypes
<1>2. CASE \E i \in Exchanges : \/ \E n, p \in Nodes : StartExchange(i, n, p)
                                \/ Proceed(i) \/ BeginServe(i) \/ BeginMerge(i) \/ Abandon(i)
  BY <1>2, ExchangeTypes
<1>3. CASE ServeLate
  <2>1. PICK m \in late : /\ tx' = [tx EXCEPT ![m.to] = OpenTx(m.to, Abandoned, m.batch)]
                          /\ late' = late \ {m}
    BY <1>3 DEF ServeLate
  <2>2. m.to \in Nodes /\ m.batch \in Batches
    BY DEF IInv, TypeOK, LateRequests
  <2>3. OpenTx(m.to, Abandoned, m.batch) \in Landings
    BY <2>2, VectorsTyped DEF OpenTx, Landings
  <2> QED
    BY <1>3, <2>1, <2>3 DEF IInv, TypeOK, ServeLate, storeVars
<1>4. CASE LoseLate
  BY <1>4 DEF IInv, TypeOK, LoseLate, storeVars
<1>5. CASE UNCHANGED vars
  BY <1>5 DEF IInv, TypeOK, vars, wireVars
<1> QED
  BY <1>1, <1>2, <1>3, <1>4, <1>5 DEF Next

-----------------------------------------------------------------------------
(* The first state *)

\* The log of a new store: its own first entry.
LEMMA NewLog ==
    ASSUME NEW hist \in SUBSET Entry, NEW g \in hist,
           \A h \in hist : h.epoch > 0,
           \A h \in hist : h.origin = g.origin /\ h.epoch = g.epoch => h = g
    PROVE  WellFormed(hist, {g}) /\ Honest(hist, {g})
<1>1. g \in Entry /\ {g} \in SUBSET Entry /\ g.origin \in Nodes
  BY DEF Entry
<1>2. OfOrigin({g}, g.origin) = {g} /\ \A o : o # g.origin => OfOrigin({g}, o) = {}
  BY DEF OfOrigin
<1>3. ~Lacks(g, g)
  BY <1>1 DEF Lacks, Entry
<1>4. WellFormed(hist, {g})
  <2>1. IsFiniteSet({g})
    BY FS_Singleton
  <2> QED
    BY <1>2, <1>3, <2>1 DEF WellFormed
<1>5. HeldPosition({g}, g.origin) = [epoch |-> g.epoch, seq |-> g.seq]
  <2>1. g \in OfOrigin({g}, g.origin) /\ \A f \in OfOrigin({g}, g.origin) : ~Lacks(g, f)
    BY <1>2, <1>3
  <2> QED
    BY <1>1, <2>1, TopIsHeldPosition
<1>6. \A o : o # g.origin => HeldPosition({g}, o) = NoPosition
  BY <1>2 DEF HeldPosition
<1>7. Honest(hist, {g})
  <2> SUFFICES ASSUME NEW h \in hist, Covers(HeldPosition({g}, h.origin), h)
               PROVE  h \in {g}
    BY DEF Honest
  <2>1. CASE h.origin = g.origin
    BY <1>5, <2>1 DEF Covers
  <2>2. CASE h.origin # g.origin
    BY <1>6, <2>2 DEF Covers, NoPosition
  <2> QED
    BY <2>1, <2>2
<1> QED
  BY <1>4, <1>7

\* The program starts typed and honest.
LEMMA InitInv == Init => IInv
<1> SUFFICES ASSUME Init PROVE TypeOK /\ LogInv /\ TablesFollow
  BY DEF IInv
<1> USE DEF Init
<1>1. \A n \in Nodes : FirstEntry(n, 1) \in Entry
  BY FirstTypes
<1>2. \A n \in Nodes : /\ FirstEntry(n, 1).origin = n
                       /\ FirstEntry(n, 1).epoch = 1 /\ FirstEntry(n, 1).seq = 1
  BY DEF FirstEntry
<1>3. TypeOK
  BY <1>1, FirstTypes DEF TypeOK, Batches
<1>4. SequenceIdentifiesEntry
  BY <1>2 DEF SequenceIdentifiesEntry
<1>5. HistoryIsMarked
  BY <1>2 DEF HistoryIsMarked
<1>6. \A n \in Nodes : WellFormed(history, log[n]) /\ Honest(history, log[n])
  <2> TAKE n \in Nodes
  <2>1. history \in SUBSET Entry /\ FirstEntry(n, 1) \in history
    BY <1>1
  <2>2. /\ \A h \in history : h.epoch > 0
        /\ \A h \in history : h.origin = FirstEntry(n, 1).origin => h = FirstEntry(n, 1)
    BY <1>2
  <2> QED
    BY <2>1, <2>2, NewLog
<1>7. HeldLogs
  BY <1>2, <1>6 DEF HeldLogs
<1>8. TxIsHonest
  BY DEF TxIsHonest, LandsHonestly, Unlocked
<1>9. TxOwners
  BY SyncAssumption DEF TxOwners, Unlocked, Idle
<1>10. WireIsHonest
  BY DEF WireIsHonest, TalksHonestly, Idle, NoBatch, Waiting
<1>11. TablesFollow
  BY <1>6, WholeRowsFollow DEF TablesFollow
<1> QED
  BY <1>3, <1>4, <1>5, <1>6, <1>7, <1>8, <1>9, <1>10, <1>11 DEF LogInv, LogsAreHonest

-----------------------------------------------------------------------------
(* Writing: the local log grows by an entry, or the store is rebuilt *)

\* An entry past all its origin wrote is new to everybody.
LEMMA FreshEntry ==
    ASSUME IInv, NEW n \in Nodes, NEW g \in Entry, g.origin = n, g.epoch > 0,
           \/ g.epoch = epoch[n] /\ g.seq = mark[n] + 1
           \/ g.epoch = epoch[n] + 1
    PROVE  LET more == history \cup {g} IN
           /\ more \in SUBSET Entry
           /\ \A h \in history : h.origin = n => Lacks(h, g)
           /\ \A g1, h \in more :
                 g1.origin = h.origin /\ g1.epoch = h.epoch /\ g1.seq = h.seq => g1 = h
           /\ \A m \in Nodes : WellFormed(more, log[m]) /\ Honest(more, log[m])
           /\ \A batch \in SUBSET history : \A v :
                 NoneLeftOut(history, batch, v) => NoneLeftOut(more, batch, v)
<1> DEFINE more == history \cup {g}
<1>1. history \in SUBSET Entry /\ epoch[n] \in Nat /\ mark[n] \in Nat /\ more \in SUBSET Entry
  BY DEF IInv, TypeOK
<1>2. HistoryIsMarked /\ SequenceIdentifiesEntry
  BY DEF IInv, LogInv
<1>3. ASSUME NEW h \in history, h.origin = n PROVE Lacks(h, g)
  <2>1. h \in Entry /\ h.epoch <= epoch[n] /\ (h.epoch = epoch[n] => h.seq <= mark[n])
    BY <1>1, <1>2, <1>3 DEF HistoryIsMarked
  <2>2. h.epoch \in Nat /\ h.seq \in Nat /\ g.epoch \in Nat /\ g.seq \in Nat
    BY <2>1 DEF Entry
  <2> QED
    BY <1>1, <2>1, <2>2 DEF Lacks
<1>4. ASSUME NEW a \in more, NEW b \in more, a.origin = b.origin, a.epoch = b.epoch, a.seq = b.seq
      PROVE  a = b
  <2>1. \A h \in history : h.origin = n => ~(h.epoch = g.epoch /\ h.seq = g.seq)
    BY <1>1, <1>3 DEF Lacks, Entry
  <2> QED
    BY <1>2, <1>4, <2>1 DEF SequenceIdentifiesEntry
<1>5. ASSUME NEW m \in Nodes PROVE WellFormed(more, log[m]) /\ Honest(more, log[m])
  <2>1. WellFormed(history, log[m]) /\ Honest(history, log[m])
    BY DEF IInv, LogInv, HeldLogs, LogsAreHonest
  <2>2. WellFormed(more, log[m])
    BY <2>1 DEF WellFormed
  <2>3. Honest(more, log[m])
    BY <1>1, <1>3, <2>1, HonestMoreHistory
  <2> QED
    BY <2>2, <2>3
<1>6. ASSUME NEW batch \in SUBSET history, NEW v, NoneLeftOut(history, batch, v)
      PROVE  NoneLeftOut(more, batch, v)
  <2>1. \A e \in batch : ~(g.origin = e.origin /\ g.epoch = e.epoch /\ g.seq <= e.seq)
    <3> SUFFICES ASSUME NEW e \in batch, e.origin = n
                 PROVE  ~(g.epoch = e.epoch /\ g.seq <= e.seq)
      OBVIOUS
    <3>1. Lacks(e, g) /\ e \in Entry
      BY <1>1, <1>3
    <3> QED
      BY <3>1 DEF Lacks, Entry
  <2> QED
    BY <1>1, <1>6, <2>1, NewEntryNotLeftOut
<1> QED
  BY <1>1, <1>3, <1>4, <1>5, <1>6

\* A write of n: a fresh entry g, and a log of n that is in order with it.
Grows(n, g, new) ==
    /\ g \in Entry /\ g.origin = n /\ g.epoch > 0 /\ g.seq > 0
    /\ \/ g.epoch = epoch[n] /\ g.seq = mark[n] + 1
       \/ g.epoch = epoch[n] + 1
    /\ epoch' = [epoch EXCEPT ![n] = g.epoch] /\ mark' = [mark EXCEPT ![n] = g.seq]
    /\ log' = [log EXCEPT ![n] = new] /\ history' = history \cup {g}
    /\ tx' = tx /\ exchange' = exchange /\ late' = late
    /\ tx[n] = Unlocked
    /\ WellFormed(history \cup {g}, new) /\ Honest(history \cup {g}, new)
    /\ g \in new /\ \A e \in new : e.origin = n => e.epoch = g.epoch
    /\ StillHeld(history \cup {g}, Vector(log[n]), new) \/ Quiet(n)

\* Such a write keeps the invariant.
LEMMA WriteKeepsLogs ==
    ASSUME IInv, TypeOK', NEW n \in Nodes, NEW g, NEW new, Grows(n, g, new)
    PROVE  LogInv'
<1> DEFINE more == history \cup {g}
<1>0. /\ g \in Entry /\ g.origin = n /\ g.epoch > 0 /\ g.seq > 0
      /\ WellFormed(more, new) /\ Honest(more, new)
      /\ g \in new /\ \A e \in new : e.origin = n => e.epoch = g.epoch
      /\ StillHeld(more, Vector(log[n]), new) \/ Quiet(n)
      /\ tx' = tx /\ exchange' = exchange /\ late' = late /\ tx[n] = Unlocked
  BY DEF Grows
<1>1. /\ more \in SUBSET Entry
      /\ \A h \in history : h.origin = n => Lacks(h, g)
      /\ \A g1, h \in more :
            g1.origin = h.origin /\ g1.epoch = h.epoch /\ g1.seq = h.seq => g1 = h
      /\ \A m \in Nodes : WellFormed(more, log[m]) /\ Honest(more, log[m])
      /\ \A batch \in SUBSET history : \A v :
            NoneLeftOut(history, batch, v) => NoneLeftOut(more, batch, v)
  BY FreshEntry DEF Grows
<1>2. /\ history' = more /\ history \subseteq more /\ history \in SUBSET Entry
      /\ \A h \in more : h = g \/ h \in history
      /\ log \in [Nodes -> Batches] /\ epoch \in [Nodes -> Nat] /\ mark \in [Nodes -> Nat]
      /\ log'[n] = new /\ \A m \in Nodes \ {n} : log'[m] = log[m]
      /\ epoch'[n] = g.epoch /\ \A m \in Nodes \ {n} : epoch'[m] = epoch[m]
      /\ mark'[n] = g.seq /\ \A m \in Nodes \ {n} : mark'[m] = mark[m]
  BY DEF IInv, TypeOK, Grows
<1> HIDE DEF more
<1>3. SequenceIdentifiesEntry'
  BY <1>1, <1>2 DEF SequenceIdentifiesEntry
<1>4. HistoryIsMarked'
  <2> SUFFICES ASSUME NEW h \in more
               PROVE  /\ h.epoch > 0 /\ h.seq > 0 /\ h.epoch <= epoch'[h.origin]
                      /\ h.epoch = epoch'[h.origin] => h.seq <= mark'[h.origin]
    BY <1>2 DEF HistoryIsMarked
  <2>1. h \in Entry /\ h.origin \in Nodes
    BY <1>1 DEF Entry
  <2>2. CASE h = g
    BY <1>0, <1>2, <2>1, <2>2 DEF Entry
  <2>3. CASE h # g /\ h.origin = n
    <3>1. Lacks(h, g) /\ h.epoch > 0 /\ h.seq > 0
      BY <1>1, <1>2, <2>3 DEF IInv, LogInv, HistoryIsMarked
    <3> QED
      BY <1>0, <1>2, <2>1, <2>3, <3>1 DEF Lacks, Entry
  <2>4. CASE h.origin # n
    BY <1>0, <1>2, <2>1, <2>4 DEF IInv, LogInv, HistoryIsMarked
  <2> QED
    BY <2>2, <2>3, <2>4
<1>5. HeldLogs'
  <2> SUFFICES ASSUME NEW m \in Nodes
               PROVE  /\ WellFormed(more, log'[m])
                      /\ \A e \in log'[m] : e.origin = m => e.epoch = epoch'[m]
                      /\ \E e \in log'[m] : e.origin = m /\ e.seq = mark'[m]
    BY <1>2 DEF HeldLogs
  <2>1. CASE m = n
    BY <1>0, <1>2, <2>1
  <2>2. CASE m # n
    BY <1>1, <1>2, <2>2 DEF IInv, LogInv, HeldLogs
  <2> QED
    BY <2>1, <2>2
<1>6. LogsAreHonest'
  BY <1>0, <1>1, <1>2 DEF LogsAreHonest
<1>7. TxIsHonest'
  <2> SUFFICES ASSUME NEW m \in Nodes, tx[m].by # Nobody
               PROVE  /\ tx[m].rest \subseteq more
                      /\ NoneLeftOut(more, tx[m].rest, Vector(log'[m]))
                      /\ PositionsKept(more, m, tx[m].positions, log'[m])
    BY <1>0, <1>2 DEF TxIsHonest, LandsHonestly
  <2>1. m # n
    BY <1>0 DEF Unlocked
  <2>2. LandsHonestly(history, m, tx[m], log[m]) /\ log'[m] = log[m]
    BY <1>2, <2>1 DEF IInv, LogInv, TxIsHonest
  <2>3. EverExpelled(history) \subseteq EverExpelled(more)
    BY <1>2, MoreHistory
  <2>4. PositionsKept(more, m, tx[m].positions, log[m])
    BY <2>2, <2>3 DEF LandsHonestly, PositionsKept
  <2> QED
    BY <1>1, <1>2, <2>2, <2>4 DEF LandsHonestly
<1>8. TxOwners'
  BY <1>0 DEF IInv, LogInv, TxOwners
<1>9. ASSUME NEW k \in Nodes, k # n \/ ~Quiet(n), NEW v \in Vectors,
             StillHeld(history, v, log[k])
      PROVE  StillHeld(more, v, log'[k])
  <2>1. CASE k # n
    BY <1>2, <1>9, <2>1, MoreHistory
  <2>2. CASE k = n
    <3>1. WellFormed(history, log[n])
      BY DEF IInv, LogInv, HeldLogs
    <3> QED
      BY <1>0, <1>1, <1>2, <1>9, <2>2, <3>1, ClaimsSurvive
  <2> QED
    BY <2>1, <2>2
<1>10. \A i \in Exchanges : TalksHonestly(more, exchange[i], log')
  <2> TAKE i \in Exchanges
  <2>1. exchange[i] \in Conversations /\ TalksHonestly(history, exchange[i], log)
    BY DEF IInv, TypeOK, LogInv, WireIsHonest
  <2>2. exchange[i].phase # "idle" => exchange[i].from \in Nodes /\ exchange[i].to \in Nodes
    BY DEF IInv, LogInv, TxOwners
  <2>3. Quiet(n) => exchange[i].from # n /\ exchange[i].to # n
    BY DEF Quiet
  <2> QED
    BY <1>1, <1>2, <1>9, <2>1, <2>2, <2>3, TalkSurvives
<1>11. \A m \in late : ArrivesHonestly(more, m, log')
  <2> TAKE m \in late
  <2>1. m \in LateRequests /\ ArrivesHonestly(history, m, log) /\ m.to \in Nodes
    BY DEF IInv, TypeOK, LogInv, WireIsHonest, LateRequests
  <2>2. Quiet(n) => m.to # n
    BY DEF Quiet
  <2> QED
    BY <1>1, <1>2, <1>9, <2>1, <2>2, ArrivalSurvives
<1>12. WireIsHonest'
  BY <1>0, <1>2, <1>10, <1>11 DEF WireIsHonest
<1> QED
  BY <1>3, <1>4, <1>5, <1>6, <1>7, <1>8, <1>12 DEF LogInv

\* A node's position of its own log is its epoch and high-water mark.
LEMMA OwnPosition ==
    ASSUME IInv, NEW n \in Nodes
    PROVE  HeldPosition(log[n], n) = [epoch |-> epoch[n], seq |-> mark[n]]
<1>1. log[n] \in SUBSET Entry /\ log[n] \subseteq history /\ mark[n] \in Nat
  BY VectorsTyped DEF WellFormed, IInv, TypeOK
<1>2. PICK e \in log[n] : e.origin = n /\ e.seq = mark[n]
  BY DEF IInv, LogInv, HeldLogs
<1>3. \A f \in OfOrigin(log[n], n) : f.epoch = epoch[n] /\ f.seq <= mark[n]
  BY <1>1 DEF IInv, LogInv, HeldLogs, HistoryIsMarked, OfOrigin
<1>4. e \in OfOrigin(log[n], n) /\ e.epoch = epoch[n]
  BY <1>2, <1>3 DEF OfOrigin
<1>5. \A f \in OfOrigin(log[n], n) : ~Lacks(e, f)
  BY <1>1, <1>2, <1>3, <1>4 DEF Lacks, OfOrigin, Entry
<1> QED
  BY <1>1, <1>2, <1>4, <1>5, TopIsHeldPosition

\* Writing an entry to the local log keeps the invariant.
LEMMA LoggedKeepsLogs ==
    ASSUME IInv, TypeOK', NEW n \in Nodes, NEW r \in Records, WriteFree(n), Logged(n, r)
    PROVE  LogInv'
<1> DEFINE g    == NextEntry(n, r)
           more == history \cup {g}
           new  == HeldLog(log[n], NoPosition, n, g)
<1>1. /\ g \in Entry /\ g.origin = n /\ g.epoch = epoch[n] /\ g.seq = mark[n] + 1
      /\ epoch[n] \in Nat /\ mark[n] \in Nat
  BY LoggedTypes DEF NextEntry, IInv, TypeOK
<1> HIDE DEF g
<1>2. g.epoch > 0 /\ g.seq > 0
  <2>1. \E e \in log[n] : e \in history /\ e.origin = n /\ e.epoch = epoch[n]
    BY DEF IInv, LogInv, HeldLogs, WellFormed
  <2> QED
    BY <1>1, <2>1 DEF IInv, LogInv, HistoryIsMarked
<1>3. /\ more \in SUBSET Entry
      /\ \A h \in history : h.origin = n => Lacks(h, g)
      /\ WellFormed(more, log[n]) /\ Honest(more, log[n])
  BY <1>1, <1>2, FreshEntry
<1>4. WellFormed(history, log[n]) /\ Honest(history, log[n])
      /\ \A f \in OfOrigin(log[n], n) : f \in history /\ f.epoch = epoch[n]
  BY DEF IInv, LogInv, HeldLogs, LogsAreHonest, WellFormed, OfOrigin
<1>5. \A f \in OfOrigin(log[n], g.origin) : Lacks(f, g) /\ f.epoch = g.epoch
  BY <1>1, <1>3, <1>4 DEF OfOrigin
<1>6. g \in more /\ \A h \in more : h = g \/ h \in history
  OBVIOUS
<1> HIDE DEF more
<1>7. ASSUME NEW h \in more, h.origin = g.origin, h.epoch = g.epoch, h.seq <= g.seq,
             h.origin \notin EverExpelled(more)
      PROVE  h = g \/ h \in log[n] \/ Superseded(more, h)
  <2> SUFFICES ASSUME h # g PROVE h \in log[n] \/ Superseded(more, h)
    OBVIOUS
  <2>1. h \in history /\ h.seq <= mark[n]
    BY <1>1, <1>6, <1>7 DEF IInv, LogInv, HistoryIsMarked
  <2>2. Covers(HeldPosition(log[n], h.origin), h)
    <3>1. HeldPosition(log[n], h.origin) = [epoch |-> epoch[n], seq |-> mark[n]]
      BY <1>1, <1>7, OwnPosition
    <3> QED
      BY <1>1, <1>7, <2>1, <3>1 DEF Covers
  <2> QED
    BY <1>3, <1>7, <2>2 DEF Honest
<1> HIDE DEF new
<1>8. /\ WellFormed(more, new) /\ Honest(more, new) /\ StillHeld(more, Vector(log[n]), new)
      /\ g \in new /\ \A e \in new : e.origin = n => e.epoch = g.epoch
  BY <1>1, <1>3, <1>5, <1>6, <1>7, OwnEntry DEF new
<1>9. Grows(n, g, new)
  BY <1>1, <1>2, <1>8 DEF Grows, Logged, IInv, TypeOK, WriteFree, wireVars, g, more, new
<1> QED
  BY <1>9, WriteKeepsLogs

\* A rebuilt store keeps the invariant: nobody was in touch with it, and its
\* first entry is of an epoch nobody has seen.
LEMMA RebuildKeepsLogs ==
    ASSUME IInv, TypeOK', NEW n \in Nodes, Rebuild(n)
    PROVE  LogInv'
<1> DEFINE g    == FirstEntry(n, epoch[n] + 1)
           more == history \cup {g}
<1>1. /\ epoch[n] \in Nat /\ g \in Entry /\ g.origin = n
      /\ g.epoch = epoch[n] + 1 /\ g.seq = 1 /\ g.epoch > 0 /\ g.seq > 0
  BY FirstTypes DEF FirstEntry, IInv, TypeOK
<1> HIDE DEF g
<1>2. more \in SUBSET Entry
  BY <1>1, FreshEntry
<1>3. \A h \in history : h.epoch > 0 /\ (h.origin = n => h.epoch < g.epoch)
  <2> SUFFICES ASSUME NEW h \in history
               PROVE  h.epoch > 0 /\ (h.origin = n => h.epoch < g.epoch)
    OBVIOUS
  <2>1. h.epoch \in Nat
    BY <1>2 DEF Entry
  <2> QED
    BY <1>1, <2>1 DEF IInv, LogInv, HistoryIsMarked
<1>4. WellFormed(more, {g}) /\ Honest(more, {g})
  <2>1. \A h \in more : h.epoch > 0
    BY <1>1, <1>3
  <2>2. \A h \in more : h.origin = g.origin /\ h.epoch = g.epoch => h = g
    <3>1. \A h \in history : h.epoch \in Nat
      BY <1>2 DEF Entry
    <3> QED
      BY <1>1, <1>3, <3>1
  <2> QED
    BY <1>2, <2>1, <2>2, NewLog
<1>5. Grows(n, g, {g})
  BY <1>1, <1>4 DEF Grows, Rebuild, Rebuilt, Quiet, WriteFree, wireVars, g
<1> QED
  BY <1>5, WriteKeepsLogs

\* A node's own writes keep the invariant.
LEMMA WriteKeepsLogInv ==
    ASSUME IInv, TypeOK', NEW n \in Nodes, Write(n)
    PROVE  LogInv'
<1>1. ASSUME NEW a \in Addresses, NEW v \in Envelopes, UpsertSource(n, a, v)
      PROVE  LogInv'
  <2>1. CASE IsNews(catalog[n], a, v)
    BY <1>1, <2>1, PublishedRecords, LoggedKeepsLogs DEF UpsertSource
  <2>2. CASE ~IsNews(catalog[n], a, v)
    <3>1. UNCHANGED <<epoch, mark, log, tx, exchange, late, history>>
      BY <1>1, <2>2 DEF UpsertSource, wireVars
    <3> QED
      BY <3>1 DEF IInv, LogInv, SequenceIdentifiesEntry, HistoryIsMarked, HeldLogs,
                  LogsAreHonest, TxIsHonest, TxOwners, WireIsHonest
  <2> QED
    BY <2>1, <2>2
<1>2. ASSUME NEW a \in Addresses, DeleteSource(n, a)
      PROVE  LogInv'
  BY <1>2, PublishedRecords, LoggedKeepsLogs DEF DeleteSource
<1>3. ASSUME NEW r \in Records, Publish(n, r)
      PROVE  LogInv'
  BY <1>3, LoggedKeepsLogs DEF Publish
<1>4. CASE Rebuild(n)
  BY <1>4, RebuildKeepsLogs
<1> QED
  BY <1>1, <1>2, <1>3, <1>4, WriteCases

-----------------------------------------------------------------------------
(* Landing a batch *)

\* Steps that leave the logs alone only have to answer for what is under way.
LEMMA LogsStand ==
    ASSUME IInv, epoch' = epoch, mark' = mark, log' = log, history' = history,
           TxIsHonest', TxOwners', WireIsHonest'
    PROVE  LogInv'
  BY DEF IInv, LogInv, SequenceIdentifiesEntry, HistoryIsMarked, HeldLogs, LogsAreHonest

\* A landing that goes on belongs to whom it belonged.
LEMMA OwnersStand ==
    ASSUME IInv, NEW n \in Nodes, tx[n].by # Nobody, NEW t, t.by = tx[n].by,
           tx' = [tx EXCEPT ![n] = t], exchange' = exchange
    PROVE  TxOwners'
<1>1. tx \in [Nodes -> Landings] /\ TxOwners
  BY DEF IInv, TypeOK, LogInv
<1>2. \A m \in Nodes : tx'[m].by = tx[m].by /\ (m # n => tx'[m] = tx[m])
  BY <1>1
<1>3. \A i \in Exchanges :
         LET x == exchange[i] IN
         /\ x.phase # "idle" => x.from \in Nodes /\ x.to \in Nodes
         /\ x.phase = "serving" => tx'[x.to].by = i
         /\ x.phase = "merging" => tx'[x.from].by = i
  BY <1>1, <1>2 DEF TxOwners
<1>4. \A m \in Nodes : tx'[m].by \in Exchanges =>
         LET x == exchange[tx'[m].by] IN
         \/ x.phase = "serving" /\ x.to = m
         \/ x.phase = "merging" /\ x.from = m
  BY <1>1, <1>2 DEF TxOwners
<1>5. \A m \in Nodes : tx'[m].by = Nobody => tx'[m] = Unlocked
  BY <1>1, <1>2 DEF TxOwners
<1> QED
  BY <1>3, <1>4, <1>5 DEF TxOwners

\* A node with something left to land is under its write lock.
LEMMA LandingIsOwned ==
    ASSUME IInv, NEW n \in Nodes, tx[n].rest # {}
    PROVE  /\ tx[n].by # Nobody /\ LandsHonestly(history, n, tx[n], log[n])
           /\ tx[n] \in Landings /\ tx \in [Nodes -> Landings]
  BY DEF IInv, TypeOK, LogInv, TxOwners, TxIsHonest, Unlocked, NoBatch

\* Skipping an entry the node has no use for keeps the invariant.
LEMMA SkipKeepsLogs ==
    ASSUME IInv, NEW n \in Nodes, SkipEntry(n)
    PROVE  LogInv'
<1>1. PICK e \in tx[n].rest : /\ e.origin = n \/ ~Lacks(tx[n].positions[e.origin], e)
                             /\ tx' = [tx EXCEPT ![n].rest = @ \ {e}]
  BY DEF SkipEntry
<1> DEFINE t == [tx[n] EXCEPT !.rest = @ \ {e}]
<1>2. /\ tx[n].by # Nobody /\ LandsHonestly(history, n, tx[n], log[n])
      /\ tx[n] \in Landings /\ tx \in [Nodes -> Landings]
  BY <1>1, LandingIsOwned
<1>3. /\ tx' = [tx EXCEPT ![n] = t] /\ t.by = tx[n].by /\ t.positions = tx[n].positions
      /\ t.rest = tx[n].rest \ {e}
  BY <1>1, <1>2 DEF Landings
<1> HIDE DEF t
<1>4. /\ epoch' = epoch /\ mark' = mark /\ log' = log /\ history' = history
      /\ exchange' = exchange /\ late' = late
  BY DEF SkipEntry, storeVars, wireVars
<1>5. e \in history /\ e.origin \in Nodes /\ e.epoch \in Nat /\ e.seq \in Nat
  BY <1>1, <1>2 DEF LandsHonestly, IInv, TypeOK, Entry
<1>6. e.origin \in EverExpelled(history) \/ ~Lacks(Vector(log[n])[e.origin], e)
  <2>1. Vector(log[n])[e.origin] = HeldPosition(log[n], e.origin)
    BY <1>5 DEF Vector
  <2>2. CASE e.origin = n
    <3>1. HeldPosition(log[n], e.origin) = [epoch |-> epoch[n], seq |-> mark[n]]
      BY <2>2, OwnPosition
    <3>2. epoch[n] \in Nat /\ mark[n] \in Nat
          /\ e.epoch <= epoch[n] /\ (e.epoch = epoch[n] => e.seq <= mark[n])
      BY <1>5, <2>2 DEF IInv, TypeOK, LogInv, HistoryIsMarked
    <3> QED
      BY <1>5, <2>1, <3>1, <3>2 DEF Lacks
  <2>3. CASE e.origin # n /\ e.origin \notin EverExpelled(history)
    <3>1. tx[n].positions[e.origin] = HeldPosition(log[n], e.origin)
      BY <1>2, <1>5, <2>3 DEF LandsHonestly, PositionsKept
    <3> QED
      BY <1>1, <2>1, <2>3, <3>1
  <2> QED
    BY <2>2, <2>3
<1>7. NoneLeftOut(history, t.rest, Vector(log[n]))
  <2>1. NoneLeftOut(history, tx[n].rest, Vector(log[n]))
    BY <1>2 DEF LandsHonestly
  <2> QED
    BY <1>3, <1>6, <2>1 DEF NoneLeftOut
<1>8. LandsHonestly(history, n, t, log[n])
  BY <1>2, <1>3, <1>7 DEF LandsHonestly
<1>9. TxIsHonest'
  <2>1. \A m \in Nodes : LandsHonestly(history, m, tx'[m], log[m])
    BY <1>2, <1>3, <1>8 DEF IInv, LogInv, TxIsHonest
  <2> QED
    BY <1>4, <2>1 DEF TxIsHonest
<1>10. TxOwners'
  BY <1>2, <1>3, <1>4, OwnersStand
<1>11. WireIsHonest'
  BY <1>4 DEF IInv, LogInv, WireIsHonest
<1> QED
  BY <1>4, <1>9, <1>10, <1>11, LogsStand

\* The first entry of a batch the node has no position past comes after all
\* the node holds of its log, and leaves no gap behind it.
LEMMA LandsInOrder ==
    ASSUME IInv, NEW n \in Nodes, NEW e \in tx[n].rest, IsFirst(e, tx[n].rest), e.origin # n,
           NEW known, known = tx[n].positions[e.origin], Lacks(known, e)
    PROVE  /\ e \in history /\ e \in Entry
           /\ \A f \in OfOrigin(log[n], e.origin) : Lacks(f, e)
           /\ Supersedes(known, e) \/ \A f \in OfOrigin(log[n], e.origin) : f.epoch = e.epoch
           /\ Supersedes(known, e) => \A f \in OfOrigin(log[n], e.origin) : f.epoch # e.epoch
           /\ \A h \in history :
                 h.origin = e.origin /\ h.epoch = e.epoch /\ h.seq <= e.seq
                   /\ h.origin \notin EverExpelled(history)
                 => h = e \/ Superseded(history, h) \/ (~Supersedes(known, e) /\ h \in log[n])
<1> DEFINE held == log[n]
<1>1. /\ tx[n].by # Nobody /\ LandsHonestly(history, n, tx[n], held)
      /\ tx[n] \in Landings
  BY LandingIsOwned
<1>4. /\ tx[n].rest \subseteq history /\ history \in SUBSET Entry
      /\ NoneLeftOut(history, tx[n].rest, Vector(held))
      /\ PositionsKept(history, n, tx[n].positions, held)
  BY <1>1 DEF LandsHonestly, IInv, TypeOK
<1>5. /\ e \in history /\ e \in Entry /\ e.origin \in Nodes /\ e.epoch \in Nat /\ e.seq \in Nat
      /\ known \in Positions
  BY <1>1, <1>4 DEF Entry, Landings, Vectors
<1>6. Honest(history, held) /\ held \in SUBSET history
  BY DEF IInv, LogInv, HeldLogs, LogsAreHonest, WellFormed
<1>8. Lacks(known, e) /\ IsFirst(e, tx[n].rest) /\ e.origin # n
  OBVIOUS
<1>9. e.origin \notin EverExpelled(history) => known = HeldPosition(held, e.origin)
  BY <1>4, <1>5, <1>8 DEF PositionsKept
<1>10. \A f \in OfOrigin(held, e.origin) : Covers(known, f) /\ f \in Entry /\ f.epoch > 0
  BY <1>4, <1>5, <1>6, <1>8 DEF PositionsKept, OfOrigin, IInv, LogInv, HistoryIsMarked
<1>11. /\ \A f \in OfOrigin(held, e.origin) : Lacks(f, e)
       /\ Supersedes(known, e) \/ \A f \in OfOrigin(held, e.origin) : f.epoch = e.epoch
  <2>1. held \in SUBSET Entry
    BY <1>4, <1>6
  <2> QED
    BY <1>5, <1>8, <1>10, <2>1, PastHeld
<1>12. ASSUME NEW h \in history, h.origin = e.origin, h.epoch = e.epoch, h.seq <= e.seq,
              h.origin \notin EverExpelled(history)
       PROVE  h = e \/ Superseded(history, h) \/ (~Supersedes(known, e) /\ h \in held)
  <2>1. h \in Entry /\ h.epoch \in Nat /\ h.seq \in Nat
    BY <1>4 DEF Entry
  <2>2. ~Lacks(Vector(held)[h.origin], h) \/ h \in tx[n].rest \/ Superseded(history, h)
    BY <1>4, <1>12 DEF NoneLeftOut
  <2>3. CASE h \in tx[n].rest
    <3>1. h = e \/ Before(e, h)
      BY <1>8, <2>3 DEF IsFirst
    <3>2. h.origin \in Nat
      BY <1>5, <1>12, StoreAssumption
    <3> QED
      BY <1>5, <1>12, <2>1, <3>1, <3>2 DEF Before, Lacks
  <2>4. CASE ~Lacks(Vector(held)[h.origin], h)
    <3>1. known = HeldPosition(held, h.origin) /\ Vector(held)[h.origin] = known
      BY <1>5, <1>9, <1>12 DEF Vector
    <3>2. known.epoch \in Nat /\ known.seq \in Nat
      BY <1>5 DEF Positions
    <3>3. Covers(known, h) /\ known.epoch = e.epoch
      BY <1>5, <1>8, <1>12, <2>1, <2>4, <3>1, <3>2 DEF Lacks, Covers
    <3>4. h \in held \/ Superseded(history, h)
      BY <1>6, <1>12, <3>1, <3>3 DEF Honest
    <3>5. ~Supersedes(known, e)
      BY <1>5, <3>3 DEF Supersedes
    <3> QED
      BY <3>4, <3>5
  <2> QED
    BY <2>2, <2>3, <2>4
<1>13. ASSUME Supersedes(known, e), NEW f \in OfOrigin(held, e.origin) PROVE f.epoch # e.epoch
  BY <1>5, <1>10, <1>13 DEF Supersedes, Covers, Positions
<1> QED
  BY <1>5, <1>11, <1>12, <1>13

\* Holding an entry of a peer keeps the invariant: nothing of its origin is
\* missing before it, so the log stays honest at once, mid-batch.
LEMMA HoldKeepsLogs ==
    ASSUME IInv, NEW n \in Nodes, HoldEntry(n)
    PROVE  LogInv'
<1>1. PICK e \in tx[n].rest :
        LET known == tx[n].positions[e.origin] IN
        /\ IsFirst(e, tx[n].rest)
        /\ e.origin # n
        /\ Lacks(known, e)
        /\ log' = [log EXCEPT ![n] = HeldLog(@, known, n, e)]
        /\ tx'  = [tx EXCEPT ![n] = Landed(tx[n], e)]
  BY DEF HoldEntry
<1> DEFINE known == tx[n].positions[e.origin]
           held  == log[n]
           new   == HeldLog(held, known, n, e)
           t     == Landed(tx[n], e)
<1>2. /\ epoch' = epoch /\ mark' = mark /\ history' = history
      /\ exchange' = exchange /\ late' = late
  BY DEF HoldEntry, wireVars
<1>3. /\ tx[n].by # Nobody /\ LandsHonestly(history, n, tx[n], held)
      /\ tx[n] \in Landings /\ tx \in [Nodes -> Landings]
  BY <1>1, LandingIsOwned
<1>4. /\ tx[n].rest \subseteq history /\ history \in SUBSET Entry
      /\ NoneLeftOut(history, tx[n].rest, Vector(held))
      /\ PositionsKept(history, n, tx[n].positions, held)
  BY <1>3 DEF LandsHonestly, IInv, TypeOK
<1>5. /\ e \in history /\ e \in Entry /\ e.origin \in Nodes /\ e.epoch \in Nat /\ e.seq \in Nat
      /\ known \in Positions
  BY <1>1, <1>3, <1>4 DEF Entry, Landings, Vectors
<1>6. /\ WellFormed(history, held) /\ Honest(history, held) /\ held \in SUBSET history
      /\ log \in [Nodes -> Batches]
  BY DEF IInv, TypeOK, LogInv, HeldLogs, LogsAreHonest, WellFormed
<1>7. /\ t.by = tx[n].by /\ t.rest = tx[n].rest \ {e}
      /\ t.positions = [tx[n].positions EXCEPT ![e.origin] = [epoch |-> e.epoch, seq |-> e.seq]]
  BY <1>3 DEF Landed, Landings
<1>8. /\ log' = [log EXCEPT ![n] = new] /\ tx' = [tx EXCEPT ![n] = t]
      /\ Lacks(known, e) /\ IsFirst(e, tx[n].rest) /\ e.origin # n
  BY <1>1
<1> HIDE DEF known, new, t
<1>11. /\ \A f \in OfOrigin(held, e.origin) : Lacks(f, e)
       /\ Supersedes(known, e) \/ \A f \in OfOrigin(held, e.origin) : f.epoch = e.epoch
  BY <1>1, <1>8, LandsInOrder DEF known
<1>12. \A h \in history :
          h.origin = e.origin /\ h.epoch = e.epoch /\ h.seq <= e.seq
            /\ h.origin \notin EverExpelled(history)
          => h = e \/ Superseded(history, h) \/ (~Supersedes(known, e) /\ h \in held)
  BY <1>1, <1>8, LandsInOrder DEF known
<1>13. /\ WellFormed(history, new)
       /\ HeldPosition(new, e.origin) = [epoch |-> e.epoch, seq |-> e.seq]
       /\ Honest(history, new)
       /\ StillHeld(history, Vector(held), new)
  BY <1>4, <1>5, <1>6, <1>11, <1>12, LandedEntry DEF new, Honest
<1>14. /\ \A f \in OfOrigin(new, e.origin) : f.epoch = e.epoch /\ f.seq <= e.seq
       /\ \A o : o # e.origin /\ o \notin Purged(n, e) => OfOrigin(new, o) = OfOrigin(held, o)
       /\ \A o \in Purged(n, e) : OfOrigin(new, o) = {}
       /\ new \subseteq held \cup {e}
  <2>1. history \in SUBSET Entry /\ held \in SUBSET history /\ e \in history
    BY <1>4, <1>5, <1>6
  <2>2. new = HeldLog(held, known, n, e)
    BY DEF new
  <2> HIDE DEF held
  <2>3. \A f \in OfOrigin(new, e.origin) : f.epoch = e.epoch /\ f.seq <= e.seq
    BY <1>11, <2>1, <2>2, HeldLogContents
  <2>4. \A o : o # e.origin /\ o \notin Purged(n, e) => OfOrigin(new, o) = OfOrigin(held, o)
    BY <1>11, <2>1, <2>2, HeldLogContents
  <2>5. /\ \A o \in Purged(n, e) : OfOrigin(new, o) = {}
        /\ new \subseteq held \cup {e}
    BY <1>11, <2>1, <2>2, HeldLogContents
  <2> QED
    BY <2>3, <2>4, <2>5
<1>15. Purged(n, e) \subseteq EverExpelled(history) /\ n \notin Purged(n, e)
  BY <1>5, PurgedAreExpelled
<1>16. /\ log'[n] = new /\ \A m \in Nodes \ {n} : log'[m] = log[m]
       /\ tx'[n] = t /\ \A m \in Nodes \ {n} : tx'[m] = tx[m]
  BY <1>3, <1>6, <1>8
<1>17. NoneLeftOut(history, t.rest, Vector(new))
  <2>1. Vector(held) \in Vectors /\ Vector(new) \in Vectors
    BY <1>4, <1>6, <1>13, VectorType
  <2>2. new \in SUBSET Entry /\ tx[n].rest \in SUBSET Entry
    BY <1>4, <1>13 DEF WellFormed
  <2>3. NoneLeftOut(history, tx[n].rest, Vector(new))
    BY <1>4, <1>13, <2>1, <2>2, KnowingMore
  <2>4. Vector(new)[e.origin] = [epoch |-> e.epoch, seq |-> e.seq]
    BY <1>5, <1>13 DEF Vector
  <2>5. ~Lacks(Vector(new)[e.origin], e)
    BY <1>5, <2>4 DEF Lacks
  <2> QED
    BY <1>7, <2>3, <2>5 DEF NoneLeftOut
<1>18. PositionsKept(history, n, t.positions, new)
  <2> SUFFICES ASSUME NEW o \in Nodes \ {n}
               PROVE  /\ o \notin EverExpelled(history) => t.positions[o] = HeldPosition(new, o)
                      /\ \A f \in OfOrigin(new, o) : Covers(t.positions[o], f)
    BY DEF PositionsKept
  <2>1. tx[n].positions \in Vectors
    BY <1>3 DEF Landings
  <2>2. CASE o = e.origin
    <3>1. t.positions[o] = [epoch |-> e.epoch, seq |-> e.seq]
      BY <1>5, <1>7, <2>1, <2>2 DEF Vectors
    <3> QED
      BY <1>13, <1>14, <2>2, <3>1 DEF Covers
  <2>3. CASE o # e.origin /\ o \in Purged(n, e)
    BY <1>14, <1>15, <2>3
  <2>4. CASE o # e.origin /\ o \notin Purged(n, e)
    <3>1. t.positions[o] = tx[n].positions[o]
      BY <1>7, <2>1, <2>4 DEF Vectors
    <3>2. OfOrigin(new, o) = OfOrigin(held, o) /\ HeldPosition(new, o) = HeldPosition(held, o)
      BY <1>14, <2>4, SameOriginSamePosition
    <3> QED
      BY <1>4, <3>1, <3>2 DEF PositionsKept
  <2> QED
    BY <2>2, <2>3, <2>4
<1>19. TxIsHonest'
  <2>1. LandsHonestly(history, n, t, new)
    BY <1>4, <1>7, <1>17, <1>18 DEF LandsHonestly
  <2>2. \A m \in Nodes : LandsHonestly(history, m, tx'[m], log'[m])
    BY <1>16, <2>1 DEF IInv, LogInv, TxIsHonest
  <2> QED
    BY <1>2, <2>2 DEF TxIsHonest
<1>20. LogsAreHonest'
  <2>1. \A m \in Nodes : Honest(history, log'[m])
    BY <1>13, <1>16 DEF IInv, LogInv, LogsAreHonest
  <2> QED
    BY <1>2, <2>1 DEF LogsAreHonest
<1>21. HeldLogs'
  <2> SUFFICES ASSUME NEW m \in Nodes
               PROVE  /\ WellFormed(history, log'[m])
                      /\ \A f \in log'[m] : f.origin = m => f.epoch = epoch[m]
                      /\ \E f \in log'[m] : f.origin = m /\ f.seq = mark[m]
    BY <1>2 DEF HeldLogs
  <2>1. CASE m = n
    <3>1. OfOrigin(new, n) = OfOrigin(held, n)
      BY <1>8, <1>14, <1>15
    <3>2. /\ \A f \in held : f.origin = n => f.epoch = epoch[n]
          /\ \E f \in held : f.origin = n /\ f.seq = mark[n]
      BY DEF IInv, LogInv, HeldLogs
    <3> QED
      BY <1>13, <1>16, <2>1, <3>1, <3>2 DEF OfOrigin
  <2>2. CASE m # n
    BY <1>16, <2>2 DEF IInv, LogInv, HeldLogs
  <2> QED
    BY <2>1, <2>2
<1>22. ASSUME NEW k \in Nodes, NEW v \in Vectors, StillHeld(history, v, log[k])
       PROVE  StillHeld(history, v, log'[k])
  <2>1. CASE k = n
    BY <1>4, <1>6, <1>13, <1>16, <1>22, <2>1, ClaimsSurvive
  <2>2. CASE k # n
    BY <1>16, <1>22, <2>2
  <2> QED
    BY <2>1, <2>2
<1>23. WireIsHonest'
  <2>1. ASSUME NEW i \in Exchanges PROVE TalksHonestly(history, exchange[i], log')
    <3>1. exchange[i] \in Conversations /\ TalksHonestly(history, exchange[i], log)
      BY DEF IInv, TypeOK, LogInv, WireIsHonest
    <3>2. exchange[i].phase # "idle" => exchange[i].from \in Nodes /\ exchange[i].to \in Nodes
      BY DEF IInv, LogInv, TxOwners
    <3> QED
      BY <1>22, <3>1, <3>2, TalkSurvives
  <2>2. ASSUME NEW m \in late PROVE ArrivesHonestly(history, m, log')
    <3>1. m \in LateRequests /\ m.to \in Nodes /\ ArrivesHonestly(history, m, log)
      BY DEF IInv, TypeOK, LogInv, WireIsHonest, LateRequests
    <3> QED
      BY <1>22, <3>1, ArrivalSurvives
  <2> QED
    BY <1>2, <2>1, <2>2 DEF WireIsHonest
<1>24. TxOwners'
  BY <1>2, <1>3, <1>7, <1>8, OwnersStand
<1>25. SequenceIdentifiesEntry' /\ HistoryIsMarked'
  BY <1>2 DEF IInv, LogInv, SequenceIdentifiesEntry, HistoryIsMarked
<1> QED
  BY <1>19, <1>20, <1>21, <1>23, <1>24, <1>25 DEF LogInv

-----------------------------------------------------------------------------
(* Steps of exchanges *)

\* A step of one exchange is honest if what that exchange then has in hand is.
LEMMA TalkStep ==
    ASSUME IInv, NEW i \in Exchanges, NEW y, TalksHonestly(history, y, log),
           exchange' = [exchange EXCEPT ![i] = y], log' = log, history' = history, late' = late
    PROVE  WireIsHonest'
<1>1. exchange \in [Exchanges -> Conversations] /\ WireIsHonest
  BY DEF IInv, TypeOK, LogInv
<1>2. \A j \in Exchanges : TalksHonestly(history, exchange'[j], log)
  BY <1>1 DEF WireIsHonest
<1> QED
  BY <1>1, <1>2 DEF WireIsHonest

\* An exchange that holds no lock before nor after leaves the owners alone.
LEMMA LocklessStep ==
    ASSUME IInv, NEW i \in Exchanges, exchange[i].phase \notin {"serving", "merging"},
           NEW y, y.phase \notin {"serving", "merging"},
           y.phase # "idle" => y.from \in Nodes /\ y.to \in Nodes,
           exchange' = [exchange EXCEPT ![i] = y], tx' = tx
    PROVE  TxOwners'
<1>1. exchange \in [Exchanges -> Conversations] /\ TxOwners
  BY DEF IInv, TypeOK, LogInv
<1>2. exchange'[i] = y /\ \A j \in Exchanges \ {i} : exchange'[j] = exchange[j]
  BY <1>1
<1>3. \A m \in Nodes : tx[m].by # i
  BY <1>1 DEF TxOwners
<1>4. ASSUME NEW j \in Exchanges
      PROVE  LET x == exchange'[j] IN
             /\ x.phase # "idle" => x.from \in Nodes /\ x.to \in Nodes
             /\ x.phase = "serving" => tx[x.to].by = j
             /\ x.phase = "merging" => tx[x.from].by = j
  BY <1>1, <1>2 DEF TxOwners
<1>5. ASSUME NEW m \in Nodes, tx[m].by \in Exchanges
      PROVE  LET x == exchange'[tx[m].by] IN
             \/ x.phase = "serving" /\ x.to = m
             \/ x.phase = "merging" /\ x.from = m
  BY <1>1, <1>2, <1>3, <1>5 DEF TxOwners
<1> QED
  BY <1>1, <1>4, <1>5 DEF TxOwners

\* A free node's write lock goes to the exchange that opens a batch on it.
LEMMA LockingStep ==
    ASSUME IInv, NEW i \in Exchanges, exchange[i].phase \notin {"serving", "merging"},
           NEW y, y.from \in Nodes, y.to \in Nodes, NEW n \in Nodes,
           \/ y.phase = "serving" /\ y.to = n
           \/ y.phase = "merging" /\ y.from = n,
           exchange' = [exchange EXCEPT ![i] = y],
           tx[n] = Unlocked, NEW t, t.by = i, tx' = [tx EXCEPT ![n] = t]
    PROVE  TxOwners'
<1>1. exchange \in [Exchanges -> Conversations] /\ tx \in [Nodes -> Landings] /\ TxOwners
      /\ Nobody \notin Exchanges /\ tx[n].by = Nobody
  BY SyncAssumption DEF IInv, TypeOK, LogInv, Unlocked
<1>2. /\ exchange'[i] = y /\ \A j \in Exchanges \ {i} : exchange'[j] = exchange[j]
      /\ tx'[n] = t /\ \A m \in Nodes \ {n} : tx'[m] = tx[m]
  BY <1>1
<1>3. \A m \in Nodes : tx[m].by # i
  BY <1>1 DEF TxOwners
<1>4. ASSUME NEW j \in Exchanges
      PROVE  LET x == exchange'[j] IN
             /\ x.phase # "idle" => x.from \in Nodes /\ x.to \in Nodes
             /\ x.phase = "serving" => tx'[x.to].by = j
             /\ x.phase = "merging" => tx'[x.from].by = j
  <2>1. CASE j = i
    BY <1>2, <2>1
  <2>2. CASE j # i
    BY <1>1, <1>2, <2>2 DEF TxOwners
  <2> QED
    BY <2>1, <2>2
<1>5. ASSUME NEW m \in Nodes, tx'[m].by \in Exchanges
      PROVE  LET x == exchange'[tx'[m].by] IN
             \/ x.phase = "serving" /\ x.to = m
             \/ x.phase = "merging" /\ x.from = m
  <2>1. CASE m = n
    BY <1>2, <2>1
  <2>2. CASE m # n
    BY <1>1, <1>2, <1>3, <1>5, <2>2 DEF TxOwners
  <2> QED
    BY <2>1, <2>2
<1>6. \A m \in Nodes : tx'[m].by = Nobody => tx'[m] = Unlocked
  BY <1>1, <1>2 DEF TxOwners
<1> QED
  BY <1>4, <1>5, <1>6 DEF TxOwners

\* The owner of a write lock lets go of it, or is forgotten.
LEMMA UnlockingStep ==
    ASSUME IInv, NEW n \in Nodes, tx[n].by \in Exchanges,
           NEW y, y.phase \notin {"serving", "merging"},
           y.phase # "idle" => y.from \in Nodes /\ y.to \in Nodes,
           exchange' = [exchange EXCEPT ![tx[n].by] = y],
           NEW t, t = Unlocked \/ t.by = Abandoned, tx' = [tx EXCEPT ![n] = t]
    PROVE  TxOwners'
<1>1. exchange \in [Exchanges -> Conversations] /\ tx \in [Nodes -> Landings] /\ TxOwners
      /\ Nobody \notin Exchanges /\ Abandoned \notin Exchanges /\ t.by \notin Exchanges
      /\ Nobody # Abandoned
  BY SyncAssumption DEF IInv, TypeOK, LogInv, Unlocked, Nobody, Abandoned
<1>2. /\ exchange'[tx[n].by] = y /\ \A j \in Exchanges \ {tx[n].by} : exchange'[j] = exchange[j]
      /\ tx'[n] = t /\ \A m \in Nodes \ {n} : tx'[m] = tx[m]
  BY <1>1
<1>3. \A m \in Nodes \ {n} : tx[m].by # tx[n].by
  BY <1>1 DEF TxOwners
<1>4. ASSUME NEW j \in Exchanges
      PROVE  LET x == exchange'[j] IN
             /\ x.phase # "idle" => x.from \in Nodes /\ x.to \in Nodes
             /\ x.phase = "serving" => tx'[x.to].by = j
             /\ x.phase = "merging" => tx'[x.from].by = j
  <2>1. CASE j = tx[n].by
    BY <1>2, <2>1
  <2>2. CASE j # tx[n].by
    BY <1>1, <1>2, <2>2 DEF TxOwners
  <2> QED
    BY <2>1, <2>2
<1>5. ASSUME NEW m \in Nodes, tx'[m].by \in Exchanges
      PROVE  LET x == exchange'[tx'[m].by] IN
             \/ x.phase = "serving" /\ x.to = m
             \/ x.phase = "merging" /\ x.from = m
  BY <1>1, <1>2, <1>3, <1>5 DEF TxOwners
<1>6. \A m \in Nodes : tx'[m].by = Nobody => tx'[m] = Unlocked
  BY <1>1, <1>2 DEF TxOwners
<1> QED
  BY <1>4, <1>5, <1>6 DEF TxOwners

\* A step on one node's landing is honest if that landing then is.
LEMMA LandingStep ==
    ASSUME IInv, NEW n \in Nodes, NEW t, LandsHonestly(history, n, t, log[n]),
           tx' = [tx EXCEPT ![n] = t], log' = log, history' = history
    PROVE  TxIsHonest'
<1>1. tx \in [Nodes -> Landings] /\ TxIsHonest
  BY DEF IInv, TypeOK, LogInv
<1>2. \A m \in Nodes : LandsHonestly(history, m, tx'[m], log[m])
  BY <1>1 DEF TxIsHonest
<1> QED
  BY <1>2 DEF TxIsHonest

\* What is known of a running exchange.
LEMMA RunningExchange ==
    ASSUME IInv, NEW i \in Exchanges
    PROVE  LET x == exchange[i] IN
           /\ x \in Conversations /\ TalksHonestly(history, x, log)
           /\ x.phase # "idle" =>
                /\ x.from \in Nodes /\ x.to \in Nodes
                /\ \A n \in {x.from, x.to} :
                      WellFormed(history, log[n]) /\ Honest(history, log[n])
           /\ history \in SUBSET Entry
  BY DEF IInv, TypeOK, LogInv, WireIsHonest, TxOwners, HeldLogs, LogsAreHonest

\* What a reader finds, whenever it comes.
LEMMA ReadRows ==
    ASSUME IInv
    PROVE  \A n \in Nodes :
              /\ WellFormed(history, table[n]) /\ Honest(history, table[n])
              /\ StillHeld(history, Vector(table[n]), log[n])
<1> TAKE n \in Nodes
<1>1. /\ history \in SUBSET Entry /\ \A h \in history : h.epoch > 0
      /\ WellFormed(history, log[n]) /\ Honest(history, log[n])
      /\ RowsFollow(history, log[n], table[n])
  BY DEF IInv, TypeOK, LogInv, HistoryIsMarked, HeldLogs, LogsAreHonest, TablesFollow
<1> QED
  BY <1>1, FollowingRows

\* Committing a batch keeps the invariant.
LEMMA CommitKeepsLogs ==
    ASSUME IInv, NEW n \in Nodes, Commit(n)
    PROVE  LogInv'
<1>1. /\ epoch' = epoch /\ mark' = mark /\ log' = log /\ history' = history /\ late' = late
      /\ tx' = [tx EXCEPT ![n] = Unlocked] /\ tx[n].by # Nobody
  BY DEF Commit, storeVars
<1>2. /\ tx \in [Nodes -> Landings] /\ TxOwners /\ tx[n].by \in Exchanges \cup {Abandoned}
      /\ Nobody \notin Exchanges /\ Abandoned \notin Exchanges
  BY <1>1, SyncAssumption DEF IInv, TypeOK, LogInv, Landings
<1>3. TxIsHonest'
  <2>1. LandsHonestly(history, n, Unlocked, log[n])
    BY DEF LandsHonestly, Unlocked
  <2> QED
    BY <1>1, <2>1, LandingStep
<1>4. CASE tx[n].by = Abandoned
  <2>1. exchange' = exchange
    BY <1>4 DEF Commit
  <2>2. WireIsHonest'
    BY <1>1, <2>1 DEF IInv, LogInv, WireIsHonest
  <2>3. TxOwners'
    <3>1. tx'[n] = Unlocked /\ \A m \in Nodes \ {n} : tx'[m] = tx[m]
      BY <1>1, <1>2
    <3>2. Unlocked.by = Nobody
      BY DEF Unlocked
    <3> QED
      BY <1>2, <1>4, <2>1, <3>1, <3>2 DEF TxOwners
  <2> QED
    BY <1>1, <1>3, <2>2, <2>3, LogsStand
<1>5. CASE tx[n].by \in Exchanges
  <2> DEFINE i == tx[n].by
             x == exchange[i]
             y == IF x.phase = "serving"
                  THEN [x EXCEPT !.phase = "served"]
                  ELSE [x EXCEPT !.phase = "merged", !.news = tx[n].news]
  <2>1. exchange' = [exchange EXCEPT ![i] = y]
    BY <1>2, <1>5 DEF Commit
  <2>2. /\ x \in Conversations /\ TalksHonestly(history, x, log)
        /\ x.phase = "serving" \/ x.phase = "merging"
        /\ x.from \in Nodes /\ x.to \in Nodes
    BY <1>2, <1>5, RunningExchange DEF TxOwners
  <2>3. /\ y.from = x.from /\ y.to = x.to /\ y.batch = x.batch
        /\ y.asked = x.asked /\ y.learned = x.learned
        /\ x.phase = "serving" => y.phase = "served"
        /\ x.phase = "merging" => y.phase = "merged"
    BY <2>2 DEF Conversations
  <2> HIDE DEF y
  <2>4. TalksHonestly(history, y, log)
    BY <2>2, <2>3 DEF TalksHonestly, Waiting
  <2>5. WireIsHonest'
    BY <1>1, <1>5, <2>1, <2>4, TalkStep
  <2>6. TxOwners'
    BY <1>1, <1>5, <2>1, <2>2, <2>3, UnlockingStep
  <2> QED
    BY <1>1, <1>3, <2>5, <2>6, LogsStand
<1> QED
  BY <1>2, <1>4, <1>5

\* Landing keeps the invariant.
LEMMA LandKeepsLogInv ==
    ASSUME IInv, NEW n \in Nodes, Land(n)
    PROVE  LogInv'
<1>1. CASE InsertEntry(n) \/ PurgeEntries(n)
  <2>1. /\ epoch' = epoch /\ mark' = mark /\ log' = log /\ history' = history
        /\ exchange' = exchange /\ late' = late /\ tx' = tx
    BY <1>1 DEF InsertEntry, PurgeEntries, wireVars
  <2> QED
    BY <2>1, LogsStand DEF IInv, LogInv, TxIsHonest, TxOwners, WireIsHonest
<1> QED
  BY <1>1, SkipKeepsLogs, HoldKeepsLogs, CommitKeepsLogs DEF Land

\* The requester's and the responder's steps keep the invariant.
LEMMA ExchangeKeepsLogInv ==
    ASSUME IInv, NEW i \in Exchanges,
           \/ \E n, p \in Nodes : StartExchange(i, n, p)
           \/ Proceed(i) \/ BeginServe(i) \/ BeginMerge(i) \/ Abandon(i)
    PROVE  LogInv'
<1> DEFINE x == exchange[i]
<1>1. /\ x \in Conversations /\ TalksHonestly(history, x, log)
      /\ x.phase # "idle" =>
            /\ x.from \in Nodes /\ x.to \in Nodes
            /\ \A n \in {x.from, x.to} :
                  WellFormed(history, log[n]) /\ Honest(history, log[n])
      /\ history \in SUBSET Entry /\ exchange \in [Exchanges -> Conversations]
      /\ tx \in [Nodes -> Landings]
  BY RunningExchange DEF IInv, TypeOK
<1>2. epoch' = epoch /\ mark' = mark /\ log' = log /\ history' = history
  BY DEF StartExchange, Proceed, SendRequest, ReadVector, ReadLog, Finish, NextRound,
         BeginServe, BeginMerge, Abandon, storeVars

\* A step without a lock.
<1>3. ASSUME NEW y, x.phase \notin {"serving", "merging"}, y.phase \notin {"serving", "merging"},
             y.phase # "idle" => y.from \in Nodes /\ y.to \in Nodes,
             TalksHonestly(history, y, log),
             exchange' = [exchange EXCEPT ![i] = y], tx' = tx, late' = late
      PROVE  LogInv'
  <2>1. WireIsHonest'
    BY <1>2, <1>3, TalkStep
  <2>2. TxOwners'
    BY <1>3, LocklessStep
  <2>3. TxIsHonest'
    BY <1>2, <1>3 DEF IInv, LogInv, TxIsHonest
  <2> QED
    BY <1>2, <2>1, <2>2, <2>3, LogsStand

\* A step that opens a batch on a node.
<1>4. ASSUME NEW y, NEW n \in Nodes, NEW v \in Vectors,
             x.phase \notin {"idle", "serving", "merging"},
             y.from = x.from, y.to = x.to,
             \/ y.phase = "serving" /\ y.to = n
             \/ y.phase = "merging" /\ y.from = n,
             TalksHonestly(history, y, log),
             NoneLeftOut(history, x.batch, v), StillHeld(history, v, log[n]),
             exchange' = [exchange EXCEPT ![i] = y], late' = late,
             tx[n] = Unlocked, tx' = [tx EXCEPT ![n] = OpenTx(n, i, x.batch)]
      PROVE  LogInv'
  <2> DEFINE t == OpenTx(n, i, x.batch)
  <2>1. t.by = i /\ t.rest = x.batch /\ t.positions = Vector(log[n])
    BY DEF OpenTx
  <2> HIDE DEF t
  <2>2. x.batch \in SUBSET history /\ WellFormed(history, log[n])
    BY <1>1, <1>4 DEF TalksHonestly
  <2>3. LandsHonestly(history, n, t, log[n])
    BY <1>1, <1>4, <2>1, <2>2, OpenedIsHonest
  <2>4. tx' = [tx EXCEPT ![n] = t]
    BY <1>4 DEF t
  <2>5. TxIsHonest'
    BY <1>2, <2>3, <2>4, LandingStep
  <2>6. WireIsHonest'
    BY <1>2, <1>4, TalkStep
  <2>7. /\ y.from \in Nodes /\ y.to \in Nodes
        /\ exchange[i].phase \notin {"serving", "merging"}
        /\ \/ y.phase = "serving" /\ y.to = n
           \/ y.phase = "merging" /\ y.from = n
    BY <1>1, <1>4
  <2>8. TxOwners'
    <3> HIDE DEF x
    <3>1. exchange' = [exchange EXCEPT ![i] = y] /\ tx[n] = Unlocked
      BY <1>4
    <3> QED
      BY <2>1, <2>4, <2>7, <3>1, LockingStep
  <2> QED
    BY <1>2, <2>5, <2>6, <2>8, LogsStand
<1>5. ASSUME NEW n \in Nodes, NEW p \in Nodes, StartExchange(i, n, p) PROVE LogInv'
  <2> DEFINE y == [Idle EXCEPT !.phase = "request", !.from = n, !.to = p, !.round = 1,
                               !.asked = Vector(table[n])]
  <2>1. /\ exchange' = [exchange EXCEPT ![i] = y] /\ tx' = tx /\ late' = late
        /\ x.phase = "idle"
    BY <1>5 DEF StartExchange
  <2>2. /\ y.phase = "request" /\ y.from = n /\ y.to = p /\ y.batch = NoBatch
        /\ y.asked = Vector(table[n]) /\ y.previous = EmptyVector
    BY DEF Idle
  <2> HIDE DEF y
  <2>3. /\ StillHeld(history, Vector(table[n]), log[n]) /\ StillHeld(history, EmptyVector, log[p])
    BY <1>1, VectorIsHeld, ReadRows DEF IInv, LogInv, HeldLogs
  <2>4. NoneLeftOut(history, NoBatch, EmptyVector) /\ NoBatch \subseteq history
    BY NothingLeftOut DEF NoBatch
  <2>5. TalksHonestly(history, y, log)
    BY <2>2, <2>3, <2>4 DEF TalksHonestly
  <2> QED
    BY <1>3, <2>1, <2>2, <2>5
<1>6. CASE SendRequest(i)
  <2> DEFINE y == [x EXCEPT !.phase = "request", !.asked = Vector(table[x.from])]
  <2>1. exchange' = [exchange EXCEPT ![i] = y] /\ tx' = tx /\ late' = late /\ x.phase = "ready"
    BY <1>1, <1>6 DEF SendRequest
  <2>2. /\ y.phase = "request" /\ y.from = x.from /\ y.to = x.to /\ y.batch = x.batch
        /\ y.asked = Vector(table[x.from]) /\ y.previous = x.previous
    BY <1>1 DEF Conversations
  <2> HIDE DEF y
  <2>3. StillHeld(history, Vector(table[x.from]), log[x.from])
    BY <1>1, <2>1, ReadRows
  <2>4. TalksHonestly(history, y, log)
    BY <1>1, <2>1, <2>2, <2>3 DEF TalksHonestly
  <2>5. y.from \in Nodes /\ y.to \in Nodes
    BY <1>1, <2>1, <2>2
  <2> QED
    BY <1>3, <2>1, <2>2, <2>4, <2>5
<1>7. CASE ReadVector(i)
  <2> DEFINE y == [x EXCEPT !.phase = "answering", !.learned = Vector(table[x.to])]
  <2>1. exchange' = [exchange EXCEPT ![i] = y] /\ tx' = tx /\ late' = late /\ x.phase = "served"
    BY <1>1, <1>7 DEF ReadVector
  <2>2. /\ y.phase = "answering" /\ y.from = x.from /\ y.to = x.to /\ y.batch = x.batch
        /\ y.asked = x.asked /\ y.learned = Vector(table[x.to])
    BY <1>1 DEF Conversations
  <2> HIDE DEF y
  <2>3. StillHeld(history, Vector(table[x.to]), log[x.to])
    BY <1>1, <2>1, ReadRows
  <2>4. TalksHonestly(history, y, log)
    BY <1>1, <2>1, <2>2, <2>3 DEF TalksHonestly, Waiting
  <2>5. y.from \in Nodes /\ y.to \in Nodes
    BY <1>1, <2>1, <2>2
  <2> QED
    BY <1>3, <2>1, <2>2, <2>4, <2>5
<1>8. CASE ReadLog(i)
  <2> DEFINE cut == LogAfter(table[x.to], x.asked, BatchMax)
             y   == [x EXCEPT !.phase = "response", !.batch = cut]
  <2>1. exchange' = [exchange EXCEPT ![i] = y] /\ tx' = tx /\ late' = late
        /\ x.phase = "answering"
    BY <1>1, <1>8 DEF ReadLog
  <2>2. /\ y.phase = "response" /\ y.from = x.from /\ y.to = x.to /\ y.batch = cut
        /\ y.asked = x.asked /\ y.learned = x.learned
    BY <1>1 DEF Conversations
  <2> HIDE DEF y
  <2>3. /\ NoneLeftOut(history, cut, x.asked) /\ cut \subseteq history
    <3>1. WellFormed(history, table[x.to]) /\ Honest(history, table[x.to]) /\ BatchMax \in Nat
      BY <1>1, <2>1, ReadRows, SyncAssumption
    <3>2. cut \subseteq history
      BY <3>1 DEF WellFormed, LogAfter, Lacking
    <3> QED
      BY <1>1, <3>1, <3>2, LogAfterLeavesNoneOut
  <2> HIDE DEF cut
  <2>4. TalksHonestly(history, y, log)
    BY <1>1, <2>1, <2>2, <2>3 DEF TalksHonestly, Waiting
  <2>5. y.from \in Nodes /\ y.to \in Nodes
    BY <1>1, <2>1, <2>2
  <2> QED
    BY <1>3, <2>1, <2>2, <2>4, <2>5
<1>9. CASE Finish(i)
  <2>1. exchange' = [exchange EXCEPT ![i] = Idle] /\ tx' = tx /\ late' = late
        /\ x.phase = "merged"
    BY <1>9 DEF Finish
  <2>2. Idle.phase = "idle" /\ TalksHonestly(history, Idle, log)
    BY DEF TalksHonestly, Idle, Waiting, NoBatch
  <2> QED
    BY <1>3, <2>1, <2>2
<1>10. CASE NextRound(i)
  <2> DEFINE y == [x EXCEPT !.phase = "ready", !.round = x.round + 1,
                            !.batch = Outbound(i), !.previous = x.learned,
                            !.learned = EmptyVector, !.news = FALSE]
  <2>1. exchange' = [exchange EXCEPT ![i] = y] /\ tx' = tx /\ late' = late
        /\ x.phase = "merged"
    BY <1>10 DEF NextRound
  <2>2. /\ y.phase = "ready" /\ y.from = x.from /\ y.to = x.to /\ y.batch = Outbound(i)
        /\ y.previous = x.learned
    BY <1>1 DEF Conversations
  <2> HIDE DEF y
  <2>3. /\ NoneLeftOut(history, Outbound(i), x.learned) /\ Outbound(i) \subseteq history
    <3>1. WellFormed(history, table[x.from]) /\ Honest(history, table[x.from]) /\ BatchMax \in Nat
      BY <1>1, <2>1, ReadRows, SyncAssumption
    <3>2. Outbound(i) \subseteq history
      BY <3>1 DEF Outbound, WellFormed, LogAfter, Lacking
    <3> QED
      BY <1>1, <3>1, <3>2, LogAfterLeavesNoneOut DEF Outbound
  <2>4. TalksHonestly(history, y, log)
    BY <1>1, <2>1, <2>2, <2>3 DEF TalksHonestly, Waiting
  <2>5. y.from \in Nodes /\ y.to \in Nodes
    BY <1>1, <2>1, <2>2
  <2> QED
    BY <1>3, <2>1, <2>2, <2>4, <2>5
<1>11. CASE BeginServe(i)
  <2>1. x.phase = "request" /\ late' = late /\ x.from \in Nodes /\ x.to \in Nodes
    BY <1>1, <1>11 DEF BeginServe
  <2>2. CASE x.batch = NoBatch
    <3> DEFINE y == [x EXCEPT !.phase = "served"]
    <3>1. exchange' = [exchange EXCEPT ![i] = y] /\ tx' = tx
      BY <1>1, <1>11, <2>2 DEF BeginServe
    <3>2. /\ y.phase = "served" /\ y.from = x.from /\ y.to = x.to /\ y.batch = x.batch
          /\ y.asked = x.asked
      BY <1>1 DEF Conversations
    <3> HIDE DEF y
    <3>3. TalksHonestly(history, y, log)
      BY <1>1, <2>1, <3>2 DEF TalksHonestly, Waiting
    <3> QED
      BY <1>3, <2>1, <3>1, <3>2, <3>3
  <2>3. CASE x.batch # NoBatch
    <3> DEFINE y == [x EXCEPT !.phase = "serving", !.batch = NoBatch]
    <3>1. /\ exchange' = [exchange EXCEPT ![i] = y]
          /\ tx[x.to] = Unlocked /\ tx' = [tx EXCEPT ![x.to] = OpenTx(x.to, i, x.batch)]
      BY <1>1, <1>11, <2>3 DEF BeginServe, WriteFree
    <3>2. /\ y.phase = "serving" /\ y.from = x.from /\ y.to = x.to /\ y.batch = NoBatch
          /\ y.asked = x.asked
      BY <1>1 DEF Conversations
    <3> HIDE DEF y
    <3>3. TalksHonestly(history, y, log)
      BY <1>1, <2>1, <3>2 DEF TalksHonestly, Waiting, NoBatch
    <3>4. /\ NoneLeftOut(history, x.batch, x.previous) /\ x.previous \in Vectors
          /\ StillHeld(history, x.previous, log[x.to])
      BY <1>1, <2>1 DEF TalksHonestly, Conversations
    <3> QED
      BY <1>4, <2>1, <3>1, <3>2, <3>3, <3>4
  <2> QED
    BY <2>2, <2>3
<1>12. CASE BeginMerge(i)
  <2>1. x.phase = "response" /\ late' = late /\ x.from \in Nodes /\ x.to \in Nodes
    BY <1>1, <1>12 DEF BeginMerge
  <2>2. CASE x.batch = NoBatch
    <3> DEFINE y == [x EXCEPT !.phase = "merged", !.news = FALSE, !.asked = EmptyVector]
    <3>1. exchange' = [exchange EXCEPT ![i] = y] /\ tx' = tx
      BY <1>1, <1>12, <2>2 DEF BeginMerge
    <3>2. /\ y.phase = "merged" /\ y.from = x.from /\ y.to = x.to /\ y.batch = x.batch
          /\ y.learned = x.learned
      BY <1>1 DEF Conversations
    <3> HIDE DEF y
    <3>3. TalksHonestly(history, y, log)
      BY <1>1, <2>1, <3>2 DEF TalksHonestly, Waiting
    <3> QED
      BY <1>3, <2>1, <3>1, <3>2, <3>3
  <2>3. CASE x.batch # NoBatch
    <3> DEFINE y == [x EXCEPT !.phase = "merging", !.batch = NoBatch, !.asked = EmptyVector]
    <3>1. /\ exchange' = [exchange EXCEPT ![i] = y]
          /\ tx[x.from] = Unlocked /\ tx' = [tx EXCEPT ![x.from] = OpenTx(x.from, i, x.batch)]
      BY <1>1, <1>12, <2>3 DEF BeginMerge, WriteFree
    <3>2. /\ y.phase = "merging" /\ y.from = x.from /\ y.to = x.to /\ y.batch = NoBatch
          /\ y.learned = x.learned
      BY <1>1 DEF Conversations
    <3> HIDE DEF y
    <3>3. TalksHonestly(history, y, log)
      BY <1>1, <2>1, <3>2 DEF TalksHonestly, Waiting, NoBatch
    <3>4. /\ NoneLeftOut(history, x.batch, x.asked) /\ x.asked \in Vectors
          /\ StillHeld(history, x.asked, log[x.from])
      BY <1>1, <2>1 DEF TalksHonestly, Conversations, Waiting
    <3> QED
      BY <1>4, <2>1, <3>1, <3>2, <3>3, <3>4
  <2> QED
    BY <2>2, <2>3
<1>13. CASE Abandon(i)
  <2>1. /\ exchange' = [exchange EXCEPT ![i] = Idle] /\ x.phase \in Waiting
        /\ x.from \in Nodes /\ x.to \in Nodes
    BY <1>1, <1>13 DEF Abandon, Waiting
  <2>2. Idle.phase = "idle" /\ TalksHonestly(history, Idle, log)
    BY DEF TalksHonestly, Idle, Waiting, NoBatch
  <2>3. WireIsHonest'
    <3>1. \A j \in Exchanges : TalksHonestly(history, exchange'[j], log)
      BY <1>1, <2>1, <2>2 DEF IInv, LogInv, WireIsHonest
    <3>2. ASSUME NEW m \in late' PROVE ArrivesHonestly(history, m, log)
      <4>1. CASE m \in late
        BY <4>1 DEF IInv, LogInv, WireIsHonest
      <4>2. CASE m \notin late
        <5>1. m = [to |-> x.to, batch |-> x.batch, base |-> x.previous] /\ x.phase = "request"
          BY <1>13, <3>2, <4>2 DEF Abandon
        <5>2. m.to = x.to /\ m.batch = x.batch /\ m.base = x.previous
          BY <5>1
        <5> QED
          BY <1>1, <5>1, <5>2 DEF TalksHonestly, ArrivesHonestly
      <4> QED
        BY <4>1, <4>2
    <3> QED
      BY <1>2, <3>1, <3>2 DEF WireIsHonest
  <2>4. CASE x.phase = "serving"
    <3> DEFINE n == x.to
               t == [tx[n] EXCEPT !.by = Abandoned]
    <3>1. tx' = [tx EXCEPT ![n] = t] /\ tx[n] \in Landings
      BY <1>1, <1>13, <2>1, <2>4 DEF Abandon
    <3>2. t.by = Abandoned /\ t.rest = tx[n].rest /\ t.positions = tx[n].positions
      BY <3>1 DEF Landings
    <3> HIDE DEF t
    <3>3. tx[n].by = i /\ i # Nobody
      BY <2>4, SyncAssumption DEF IInv, LogInv, TxOwners
    <3>4. LandsHonestly(history, n, tx[n], log[n])
      BY <2>1 DEF IInv, LogInv, TxIsHonest
    <3>5. LandsHonestly(history, n, t, log[n])
      BY <3>2, <3>3, <3>4 DEF LandsHonestly
    <3> HIDE DEF n
    <3>6. n \in Nodes
      BY <2>1 DEF n
    <3>7. TxIsHonest'
      BY <1>2, <3>1, <3>5, <3>6, LandingStep
    <3>8. TxOwners'
      BY <2>1, <2>2, <3>1, <3>2, <3>3, <3>6, UnlockingStep
    <3> QED
      BY <1>2, <2>3, <3>7, <3>8, LogsStand
  <2>5. CASE x.phase # "serving"
    <3>1. tx' = tx /\ x.phase \notin {"serving", "merging"}
      BY <1>13, <2>1, <2>5 DEF Abandon, Waiting
    <3>2. TxOwners'
      BY <2>1, <2>2, <3>1, LocklessStep
    <3>3. TxIsHonest'
      BY <1>2, <3>1 DEF IInv, LogInv, TxIsHonest
    <3> QED
      BY <1>2, <2>3, <3>2, <3>3, LogsStand
  <2> QED
    BY <2>4, <2>5
<1> QED
  BY <1>5, <1>6, <1>7, <1>8, <1>9, <1>10, <1>11, <1>12, <1>13 DEF Proceed

\* A late request that is served, or lost, keeps the invariant.
LEMMA LateKeepsLogInv ==
    ASSUME IInv, ServeLate \/ LoseLate
    PROVE  LogInv'
<1>1. /\ tx \in [Nodes -> Landings] /\ late \subseteq LateRequests /\ history \in SUBSET Entry
      /\ TxOwners /\ WireIsHonest /\ Abandoned \notin Exchanges /\ Abandoned # Nobody
  BY SyncAssumption DEF IInv, TypeOK, LogInv, Abandoned, Nobody
<1>2. /\ epoch' = epoch /\ mark' = mark /\ log' = log /\ history' = history
      /\ exchange' = exchange /\ late' \subseteq late
  BY DEF ServeLate, LoseLate, storeVars
<1>3. WireIsHonest'
  BY <1>1, <1>2 DEF WireIsHonest
<1>4. CASE LoseLate
  <2>1. tx' = tx
    BY <1>4 DEF LoseLate
  <2>2. TxIsHonest' /\ TxOwners'
    BY <1>2, <2>1 DEF IInv, LogInv, TxIsHonest, TxOwners
  <2> QED
    BY <1>2, <1>3, <2>2, LogsStand
<1>5. CASE ServeLate
  <2>1. PICK m \in late : /\ tx[m.to] = Unlocked
                          /\ tx' = [tx EXCEPT ![m.to] = OpenTx(m.to, Abandoned, m.batch)]
    BY <1>5 DEF ServeLate, WriteFree
  <2>2. /\ m.to \in Nodes /\ m.batch \in SUBSET history /\ m.base \in Vectors
        /\ NoneLeftOut(history, m.batch, m.base) /\ StillHeld(history, m.base, log[m.to])
    BY <1>1 DEF LateRequests, WireIsHonest, ArrivesHonestly
  <2> DEFINE t == OpenTx(m.to, Abandoned, m.batch)
  <2>3. t.by = Abandoned /\ t.rest = m.batch /\ t.positions = Vector(log[m.to])
    BY DEF OpenTx
  <2>4. tx' = [tx EXCEPT ![m.to] = t]
    BY <2>1
  <2> HIDE DEF t
  <2>5. WellFormed(history, log[m.to])
    BY <2>2 DEF IInv, LogInv, HeldLogs
  <2>6. LandsHonestly(history, m.to, t, log[m.to])
    BY <1>1, <2>2, <2>3, <2>5, OpenedIsHonest
  <2>7. TxIsHonest'
    BY <1>2, <2>2, <2>4, <2>6, LandingStep
  <2>8. TxOwners'
    <3>1. tx'[m.to] = t /\ \A k \in Nodes \ {m.to} : tx'[k] = tx[k]
      BY <1>1, <2>2, <2>4
    <3>2. tx[m.to].by = Nobody /\ Nobody \notin Exchanges
      BY <2>1, SyncAssumption DEF Unlocked
    <3> QED
      BY <1>1, <1>2, <2>3, <3>1, <3>2 DEF TxOwners
  <2> QED
    BY <1>2, <1>3, <2>7, <2>8, LogsStand
<1> QED
  BY <1>4, <1>5

-----------------------------------------------------------------------------
(* The rows of sync_log follow the log, write by write *)

\* Steps that neither write nor finish a write leave them alone.
LEMMA TablesStand ==
    ASSUME IInv, log' = log, table' = table, history' = history
    PROVE  TablesFollow'
  BY DEF IInv, TablesFollow

\* A write to the local log.
LEMMA LoggedTables ==
    ASSUME IInv, LogInv', NEW n \in Nodes, NEW r \in Records, WriteFree(n), Logged(n, r)
    PROVE  /\ TablesFollow'
           /\ LET g == NextEntry(n, r) IN
              /\ \A f \in OfOrigin(table[n], n) : Lacks(f, g)
              /\ OfOrigin(table'[n], n) = OfOrigin(log'[n], n)
                   \/ g \in log'[n] \ table'[n]
              /\ \A o \in Nodes \ {n} : OfOrigin(table'[n], o) = OfOrigin(table[n], o)
<1> DEFINE g    == NextEntry(n, r)
           more == history \cup {g}
<1>1. /\ g \in Entry /\ g.origin = n /\ g.epoch = epoch[n] /\ g.seq = mark[n] + 1
      /\ epoch[n] \in Nat /\ mark[n] \in Nat
  BY LoggedTypes DEF NextEntry, IInv, TypeOK
<1>2. /\ history' = more /\ table \in [Nodes -> Batches] /\ log \in [Nodes -> Batches]
      /\ log' = [log EXCEPT ![n] = HeldLog(@, NoPosition, n, g)]
      /\ table' = [table EXCEPT ![n] = Begun(@, NoPosition, g)]
      /\ table[n] = log[n]
  BY DEF Logged, WriteFree, Written, IInv, TypeOK
<1> HIDE DEF g
<1>3. g.epoch > 0
  <2>1. \E e \in log[n] : e \in history /\ e.origin = n /\ e.epoch = epoch[n]
    BY DEF IInv, LogInv, HeldLogs, WellFormed
  <2> QED
    BY <1>1, <2>1 DEF IInv, LogInv, HistoryIsMarked
<1>4. /\ more \in SUBSET Entry
      /\ \A h \in history : h.origin = n => Lacks(h, g)
      /\ \A m \in Nodes : WellFormed(more, log[m])
  BY <1>1, <1>3, FreshEntry
<1>5. \A f \in OfOrigin(log[n], g.origin) : Lacks(f, g) /\ f.epoch = g.epoch
  <2>1. \A f \in OfOrigin(log[n], n) : f \in history /\ f.origin = n /\ f.epoch = epoch[n]
    BY DEF IInv, LogInv, HeldLogs, WellFormed, OfOrigin
  <2> QED
    BY <1>1, <1>4, <2>1
<1>6. /\ log'[n] = HeldLog(log[n], NoPosition, n, g) /\ table'[n] = Begun(log[n], NoPosition, g)
      /\ \A m \in Nodes \ {n} : log'[m] = log[m] /\ table'[m] = table[m]
  BY <1>2
<1>7. WellFormed(more, HeldLog(log[n], NoPosition, n, g))
  BY <1>2, <1>6 DEF LogInv, HeldLogs
<1>8. g \in more /\ history \subseteq more
  OBVIOUS
<1> HIDE DEF more
<1>9. /\ RowsFollow(more, log'[n], table'[n])
      /\ OfOrigin(table'[n], n) = OfOrigin(log'[n], n) \/ g \in log'[n] \ table'[n]
      /\ \A o \in Nodes : o # n => OfOrigin(table'[n], o) = OfOrigin(log[n], o)
  BY <1>1, <1>4, <1>5, <1>6, <1>7, <1>8, BegunFollows
<1>10. ASSUME NEW m \in Nodes PROVE RowsFollow(more, log'[m], table'[m])
  <2>1. CASE m = n
    BY <1>9, <2>1
  <2>2. CASE m # n
    <3>1. RowsFollow(history, log[m], table[m])
      BY DEF IInv, TablesFollow
    <3> QED
      BY <1>6, <1>8, <2>2, <3>1, FollowsMoreHistory
  <2> QED
    BY <2>1, <2>2
<1>11. TablesFollow'
  BY <1>2, <1>10 DEF TablesFollow
<1> QED
  BY <1>1, <1>2, <1>5, <1>9, <1>11 DEF g

\* The entry of a landing batch.
LEMMA HoldTables ==
    ASSUME IInv, LogInv', NEW n \in Nodes, NEW e \in tx[n].rest, IsFirst(e, tx[n].rest),
           e.origin # n, NEW known, known = tx[n].positions[e.origin], Lacks(known, e),
           table[n] = log[n], history' = history,
           log' = [log EXCEPT ![n] = HeldLog(@, known, n, e)],
           table' = [table EXCEPT ![n] = Begun(@, known, e)]
    PROVE  /\ TablesFollow' /\ e \in Entry
           /\ \A f \in OfOrigin(table[n], e.origin) : Lacks(f, e)
           /\ OfOrigin(table'[n], e.origin) = OfOrigin(log'[n], e.origin)
                \/ e \in log'[n] \ table'[n]
           /\ \A o \in Nodes \ {e.origin} : OfOrigin(table'[n], o) = OfOrigin(table[n], o)
<1>1. /\ e \in history /\ e \in Entry
      /\ \A f \in OfOrigin(log[n], e.origin) : Lacks(f, e)
      /\ Supersedes(known, e) \/ \A f \in OfOrigin(log[n], e.origin) : f.epoch = e.epoch
  BY LandsInOrder
<1>2. /\ log \in [Nodes -> Batches] /\ table \in [Nodes -> Batches] /\ history \in SUBSET Entry
      /\ WellFormed(history, log[n])
  BY DEF IInv, TypeOK, LogInv, HeldLogs
<1>3. /\ log'[n] = HeldLog(log[n], known, n, e) /\ table'[n] = Begun(log[n], known, e)
      /\ \A m \in Nodes \ {n} : log'[m] = log[m] /\ table'[m] = table[m]
  BY <1>2
<1>4. WellFormed(history, HeldLog(log[n], known, n, e))
  BY <1>3 DEF LogInv, HeldLogs
<1>5. /\ RowsFollow(history, log'[n], table'[n])
      /\ OfOrigin(table'[n], e.origin) = OfOrigin(log'[n], e.origin) \/ e \in log'[n] \ table'[n]
      /\ \A o \in Nodes : o # e.origin => OfOrigin(table'[n], o) = OfOrigin(log[n], o)
  BY <1>1, <1>2, <1>3, <1>4, BegunFollows
<1>6. \A m \in Nodes : RowsFollow(history, log'[m], table'[m])
  BY <1>3, <1>5 DEF IInv, TablesFollow
<1> QED
  BY <1>1, <1>5, <1>6 DEF TablesFollow

\* The INSERT of a write, and the purge of an expulsion.
LEMMA FinishedTables ==
    ASSUME IInv, NEW n \in Nodes, InsertEntry(n) \/ PurgeEntries(n)
    PROVE  /\ TablesFollow'
           /\ log' = log /\ history' = history
           /\ \A o \in Nodes : \/ OfOrigin(table'[n], o) = OfOrigin(log[n], o)
                               \/ /\ OfOrigin(table'[n], o) = OfOrigin(table[n], o)
                                  /\ o \in EverExpelled(history)
           /\ \A m \in Nodes \ {n} : table'[m] = table[m]
<1>1. /\ log' = log /\ history' = history /\ table \in [Nodes -> Batches]
      /\ history \in SUBSET Entry
      /\ WellFormed(history, log[n]) /\ RowsFollow(history, log[n], table[n])
  BY DEF InsertEntry, PurgeEntries, IInv, TypeOK, LogInv, HeldLogs, TablesFollow
<1>2. \A m \in Nodes \ {n} : table'[m] = table[m]
  BY <1>1 DEF InsertEntry, PurgeEntries
<1>3. /\ RowsFollow(history, log[n], table'[n])
      /\ \A o \in Nodes : \/ OfOrigin(table'[n], o) = OfOrigin(log[n], o)
                          \/ /\ OfOrigin(table'[n], o) = OfOrigin(table[n], o)
                             /\ o \in EverExpelled(history)
  <2>1. CASE PurgeEntries(n)
    <3>1. table'[n] = log[n]
      BY <1>1, <2>1 DEF PurgeEntries
    <3> QED
      BY <1>1, <3>1, WholeRowsFollow
  <2>2. CASE InsertEntry(n)
    <3>1. table'[n] = table[n] \cup log[n]
      BY <1>1, <2>2 DEF InsertEntry
    <3>2. \A o \in Nodes : \/ OfOrigin(table'[n], o) = OfOrigin(log[n], o)
                           \/ /\ OfOrigin(table'[n], o) = OfOrigin(table[n], o)
                              /\ OfOrigin(log[n], o) = {} /\ o \in EverExpelled(history)
      <4> TAKE o \in Nodes
      <4>1. OfOrigin(table'[n], o) = OfOrigin(table[n], o) \cup OfOrigin(log[n], o)
        BY <3>1 DEF OfOrigin
      <4>2. \/ OfOrigin(table[n], o) = OfOrigin(log[n], o)
            \/ OfOrigin(table[n], o) \subseteq OfOrigin(log[n], o)
            \/ OfOrigin(log[n], o) = {} /\ o \in EverExpelled(history)
        BY <1>1 DEF RowsFollow
      <4> QED
        BY <4>1, <4>2
    <3>3. WellFormed(history, table[n])
      BY <1>1 DEF RowsFollow
    <3>4. table'[n] \in SUBSET history /\ IsFiniteSet(table'[n])
      <4>1. IsFiniteSet(log[n]) /\ IsFiniteSet(table[n])
        BY <1>1, <3>3 DEF WellFormed
      <4>2. IsFiniteSet(table[n] \cup log[n])
        BY <4>1, FS_Union
      <4>3. log[n] \subseteq history /\ table[n] \subseteq history
        BY <1>1, <3>3 DEF WellFormed
      <4> QED
        BY <3>1, <4>2, <4>3
    <3>5. WellFormed(history, table'[n])
      BY <1>1, <3>2, <3>3, <3>4, MixedWellFormed
    <3> QED
      BY <3>2, <3>5 DEF RowsFollow
  <2> QED
    BY <2>1, <2>2
<1>4. \A m \in Nodes : RowsFollow(history, log[m], table'[m])
  BY <1>2, <1>3 DEF IInv, TablesFollow
<1> QED
  BY <1>1, <1>2, <1>3, <1>4 DEF TablesFollow

\* Every step keeps the rows behind the log.
LEMMA NextTables ==
    ASSUME IInv, LogInv', [Next]_vars
    PROVE  TablesFollow'
<1>1. ASSUME NEW n \in Nodes, NEW r \in Records, WriteFree(n), Logged(n, r) PROVE TablesFollow'
  BY <1>1, LoggedTables
<1>2. ASSUME NEW n \in Nodes, Write(n) PROVE TablesFollow'
  <2>1. CASE \E a \in Addresses, v \in Envelopes : UpsertSource(n, a, v)
    <3>1. PICK a \in Addresses, v \in Envelopes : UpsertSource(n, a, v)
      BY <2>1
    <3>2. CASE IsNews(catalog[n], a, v)
      BY <1>1, <3>1, <3>2, PublishedRecords DEF UpsertSource
    <3>3. CASE ~IsNews(catalog[n], a, v)
      BY <3>1, <3>3, TablesStand DEF UpsertSource
    <3> QED
      BY <3>2, <3>3
  <2>2. CASE \E a \in Addresses : DeleteSource(n, a)
    BY <1>1, <2>2, PublishedRecords DEF DeleteSource
  <2>3. CASE \E r \in Records : Publish(n, r)
    BY <1>1, <2>3 DEF Publish
  <2>4. CASE Rebuild(n)
    <3>1. /\ log \in [Nodes -> Batches] /\ table \in [Nodes -> Batches]
          /\ log' = [log EXCEPT ![n] = {FirstEntry(n, epoch[n] + 1)}]
          /\ table' = [table EXCEPT ![n] = {FirstEntry(n, epoch[n] + 1)}]
          /\ history \subseteq history'
      BY <2>4 DEF Rebuild, Rebuilt, IInv, TypeOK
    <3>2. WellFormed(history', log'[n]) /\ table'[n] = log'[n]
      BY <3>1 DEF LogInv, HeldLogs
    <3>3. ASSUME NEW m \in Nodes PROVE RowsFollow(history', log'[m], table'[m])
      <4>1. CASE m = n
        BY <3>2, <4>1, WholeRowsFollow
      <4>2. CASE m # n
        <5>1. log'[m] = log[m] /\ table'[m] = table[m] /\ RowsFollow(history, log[m], table[m])
          BY <3>1, <4>2 DEF IInv, TablesFollow
        <5> QED
          BY <3>1, <5>1, FollowsMoreHistory
      <4> QED
        BY <4>1, <4>2
    <3> QED
      BY <3>3 DEF TablesFollow
  <2> QED
    BY <1>2, <2>1, <2>2, <2>3, <2>4, WriteCases
<1>3. ASSUME NEW n \in Nodes, HoldEntry(n) PROVE TablesFollow'
  <2>1. PICK e \in tx[n].rest :
          LET known == tx[n].positions[e.origin] IN
          /\ Written(n) /\ IsFirst(e, tx[n].rest) /\ e.origin # n /\ Lacks(known, e)
          /\ log' = [log EXCEPT ![n] = HeldLog(@, known, n, e)]
          /\ table' = [table EXCEPT ![n] = Begun(@, known, e)]
    BY <1>3 DEF HoldEntry
  <2>2. history' = history /\ table[n] = log[n]
    BY <1>3, <2>1 DEF HoldEntry, Written
  <2> QED
    BY <2>1, <2>2, HoldTables
<1>4. ASSUME NEW n \in Nodes, InsertEntry(n) \/ PurgeEntries(n) PROVE TablesFollow'
  BY <1>4, FinishedTables
<1>5. CASE \/ \E m \in Nodes : SkipEntry(m) \/ Commit(m)
           \/ \E i \in Exchanges : \/ \E m, p \in Nodes : StartExchange(i, m, p)
                                   \/ Proceed(i) \/ BeginServe(i) \/ BeginMerge(i) \/ Abandon(i)
           \/ ServeLate \/ LoseLate
           \/ UNCHANGED vars
  <2>1. log' = log /\ table' = table /\ history' = history
    BY <1>5 DEF SkipEntry, Commit, StartExchange, Proceed, SendRequest, ReadVector, ReadLog,
         Finish, NextRound, BeginServe, BeginMerge, Abandon, ServeLate, LoseLate, vars, storeVars
  <2> QED
    BY <2>1, TablesStand
<1> QED
  BY <1>2, <1>3, <1>4, <1>5 DEF Next, Land

-----------------------------------------------------------------------------
(* The theorems *)

\* Every step keeps the inductive invariant.
LEMMA NextInv == IInv /\ [Next]_vars => IInv'
<1> SUFFICES ASSUME IInv, [Next]_vars PROVE LogInv'
  BY NextTypes, NextTables DEF IInv
<1>1. TypeOK'
  BY NextTypes
<1>2. ASSUME NEW n \in Nodes, Write(n) \/ Land(n) PROVE LogInv'
  BY <1>1, <1>2, WriteKeepsLogInv, LandKeepsLogInv
<1>3. ASSUME NEW i \in Exchanges,
             \/ \E n, p \in Nodes : StartExchange(i, n, p)
             \/ Proceed(i) \/ BeginServe(i) \/ BeginMerge(i) \/ Abandon(i)
      PROVE  LogInv'
  BY <1>3, ExchangeKeepsLogInv
<1>4. CASE ServeLate \/ LoseLate
  BY <1>4, LateKeepsLogInv
<1>5. CASE UNCHANGED vars
  <2>1. /\ epoch' = epoch /\ mark' = mark /\ log' = log /\ history' = history
        /\ exchange' = exchange /\ late' = late /\ tx' = tx
    BY <1>5 DEF vars
  <2> QED
    BY <2>1, LogsStand DEF IInv, LogInv, TxIsHonest, TxOwners, WireIsHonest
<1> QED
  BY <1>2, <1>3, <1>4, <1>5 DEF Next

\* The inductive invariant holds in every reachable state.
THEOREM LogsAreSound == Spec => []IInv
<1>1. Init => IInv
  BY InitInv
<1>2. IInv /\ [Next]_vars => IInv'
  BY NextInv
<1> QED
  BY <1>1, <1>2, PTL DEF Spec

\* Every variable keeps its shape, however many nodes, names, exchanges and
\* rounds there are.
THEOREM TypesHold == Spec => []TypeOK
<1>1. IInv => TypeOK
  BY DEF IInv
<1> QED
  BY <1>1, LogsAreSound, PTL

\* A version vector tells the truth, also in the middle of a batch, while
\* exchanges overlap, requests arrive late and nodes are expelled: every
\* entry of a never expelled origin it claims is held or was compacted.
THEOREM VectorsAreHonest == Spec => []HonestVectors
<1>1. IInv => HonestVectors
  BY ReadRows DEF HonestVectors
<1> QED
  BY <1>1, LogsAreSound, PTL

\* An (origin, epoch, sequence) names one entry for ever: compaction never
\* frees a number, and a rebuilt store writes under an epoch of its own.
THEOREM SequencesIdentify == Spec => []SequenceIdentifiesEntry
<1>1. IInv => SequenceIdentifiesEntry
  BY DEF IInv, LogInv
<1> QED
  BY <1>1, LogsAreSound, PTL

(***************************************************************************)
(* What no step may do: let a peer's batch touch a row this node stewards, *)
(* or forget an expulsion this node knows.                                 *)
(***************************************************************************)

-----------------------------------------------------------------------------
(* Local rows *)

LocalRows(rows) == {r \in rows : r.steward = Local}

\* A remote record leaves the local rows alone, or finds none at its address.
LEMMA RemoteRecordKeepsLocalRows ==
    ASSUME NEW rows, NEW writer \in Nodes
    PROVE  /\ \A a, v : LocalRows(SourceWritten(rows, writer, a, v)) = LocalRows(rows)
           /\ \A a : LocalRows(CatalogTombstoned(rows, writer, a)) = LocalRows(rows)
           /\ LocalRows(PurgedCatalog(rows, writer)) = LocalRows(rows)
<1>1. writer # Local
  BY StoreAssumption DEF Local
<1>2. ASSUME NEW a, NEW v PROVE LocalRows(SourceWritten(rows, writer, a, v)) = LocalRows(rows)
  <2>1. CASE \E r \in RowsAt(rows, a) : r.steward = Local
    BY <1>1, <2>1 DEF SourceWritten
  <2>2. CASE ~ \E r \in RowsAt(rows, a) : r.steward = Local
    <3> DEFINE written == [address |-> a, envelope |-> v, steward |-> writer]
    <3>1. SourceWritten(rows, writer, a, v) = (rows \ RowsAt(rows, a)) \cup {written}
      BY <2>2 DEF SourceWritten
    <3>2. written.steward # Local
      BY <1>1
    <3> HIDE DEF written
    <3> QED
      BY <2>2, <3>1, <3>2 DEF LocalRows
  <2> QED
    BY <2>1, <2>2
<1>3. \A a : LocalRows(CatalogTombstoned(rows, writer, a)) = LocalRows(rows)
  BY <1>1 DEF LocalRows, CatalogTombstoned
<1>4. LocalRows(PurgedCatalog(rows, writer)) = LocalRows(rows)
  BY <1>1 DEF LocalRows, PurgedCatalog
<1> QED
  BY <1>2, <1>3, <1>4

\* Landing one entry leaves the local rows alone, whatever it supersedes or
\* purges.
LEMMA LandingKeepsLocalRows ==
    ASSUME NEW rows, NEW known, NEW local, NEW e \in Entry
    PROVE  LocalRows(CatalogAfter(rows, known, local, e)) = LocalRows(rows)
<1> DEFINE base == IF Supersedes(known, e) THEN PurgedCatalog(rows, e.origin) ELSE rows
           r    == e.record
           kept == CASE r.kind = "Source"     -> SourceWritten(base, e.origin, r.about, r.value)
                     [] r.kind = "SourceGone" -> CatalogTombstoned(base, e.origin, r.about)
                     [] OTHER                 -> base
<1>1. e.origin \in Nodes /\ r \in Records
  BY DEF Entry
<1>2. LocalRows(base) = LocalRows(rows)
  <2>1. LocalRows(PurgedCatalog(rows, e.origin)) = LocalRows(rows)
    BY <1>1, RemoteRecordKeepsLocalRows
  <2>2. base = PurgedCatalog(rows, e.origin) \/ base = rows
    OBVIOUS
  <2> HIDE DEF base
  <2> QED
    BY <2>1, <2>2
<1> HIDE DEF base
<1>3. LocalRows(kept) = LocalRows(base)
  <2>1. CASE r.kind = "Source"
    <3>1. kept = SourceWritten(base, e.origin, r.about, r.value)
      BY <2>1
    <3>2. \A a, v : LocalRows(SourceWritten(base, e.origin, a, v)) = LocalRows(base)
      BY <1>1, RemoteRecordKeepsLocalRows
    <3> HIDE DEF kept
    <3> QED
      BY <3>1, <3>2
  <2>2. CASE r.kind = "SourceGone"
    <3>1. kept = CatalogTombstoned(base, e.origin, r.about)
      BY <2>2
    <3>2. LocalRows(CatalogTombstoned(base, e.origin, r.about)) = LocalRows(base)
      BY <1>1, RemoteRecordKeepsLocalRows
    <3> HIDE DEF kept
    <3> QED
      BY <3>1, <3>2
  <2>3. CASE r.kind \notin {"Source", "SourceGone"}
    BY <2>3
  <2> QED
    BY <2>1, <2>2, <2>3
<1>4. CatalogAfter(rows, known, local, e) = {row \in kept : row.steward \notin Purged(local, e)}
  BY DEF CatalogAfter, base
<1>5. Local \notin Purged(local, e)
  <2>1. r.kind = "Expulsion" => r.about \in Nodes
    BY <1>1, RecordTypes
  <2> QED
    BY <2>1, StoreAssumption DEF Purged, Local
<1> HIDE DEF kept
<1> QED
  BY <1>2, <1>3, <1>4, <1>5 DEF LocalRows

\* A node's own write changes its own catalog and roster, under a free lock.
LEMMA WritesAreOwn ==
    ASSUME IInv, NEW n \in Nodes, Write(n)
    PROVE  /\ tx[n] = Unlocked
           /\ \A m \in Nodes \ {n} : catalog'[m] = catalog[m] /\ roster'[m] = roster[m]
<1>1. catalog \in [Nodes -> SUBSET SourceRow] /\ roster \in [Nodes -> Rosters]
  BY DEF IInv, TypeOK
<1>2. CASE \E a \in Addresses, v \in Envelopes : UpsertSource(n, a, v)
  BY <1>1, <1>2 DEF UpsertSource, WriteFree
<1>3. CASE \E a \in Addresses : DeleteSource(n, a)
  BY <1>1, <1>3 DEF DeleteSource, WriteFree
<1>4. CASE \E r \in Records : Publish(n, r)
  BY <1>1, <1>4 DEF Publish, WriteFree
<1>5. CASE Rebuild(n)
  BY <1>1, <1>5 DEF Rebuild, Rebuilt, Quiet, WriteFree
<1> QED
  BY <1>2, <1>3, <1>4, <1>5, WriteCases

\* A landing changes catalog and roster only by an entry it holds.
LEMMA LandingRows ==
    ASSUME IInv, NEW n \in Nodes, Land(n)
    PROVE  \/ catalog' = catalog /\ roster' = roster /\ epoch' = epoch
           \/ \E e \in Entry : \E known :
                /\ catalog' = [catalog EXCEPT ![n] = CatalogAfter(@, known, n, e)]
                /\ roster' = [roster EXCEPT ![n] = RosterAfter(@, known, n, e)]
                /\ epoch' = epoch
<1>1. CASE SkipEntry(n) \/ Commit(n) \/ InsertEntry(n) \/ PurgeEntries(n)
  BY <1>1 DEF SkipEntry, Commit, InsertEntry, PurgeEntries, storeVars
<1>2. CASE HoldEntry(n)
  <2>1. tx[n].rest \in SUBSET Entry
    BY DEF IInv, TypeOK, Landings, Batches
  <2> QED
    BY <1>2, <2>1 DEF HoldEntry
<1> QED
  BY <1>1, <1>2 DEF Land

\* Every other step leaves all rows and epochs alone.
LEMMA RowsStand ==
    ASSUME \/ \E i \in Exchanges : \/ \E n, p \in Nodes : StartExchange(i, n, p)
                                   \/ Proceed(i) \/ BeginServe(i) \/ BeginMerge(i)
                                   \/ Abandon(i)
           \/ ServeLate \/ LoseLate \/ UNCHANGED vars
    PROVE  catalog' = catalog /\ roster' = roster /\ epoch' = epoch
  BY DEF StartExchange, Proceed, SendRequest, ReadVector, ReadLog, Finish, NextRound,
         BeginServe, BeginMerge, Abandon, ServeLate, LoseLate, vars, storeVars

\* No batch of a peer, however it interleaves with the node's own writes,
\* adds, changes or removes a row this node stewards.
THEOREM LocalRowsAreKept == Spec => PeersKeepOffLocalRows
<1> DEFINE Kept == \A n \in Nodes : tx[n] # Unlocked =>
                     LocalRows(catalog[n]) = LocalRows(catalog'[n])
<1>1. IInv /\ [Next]_vars => Kept
  <2> SUFFICES ASSUME IInv, [Next]_vars, NEW n \in Nodes, tx[n] # Unlocked
               PROVE  LocalRows(catalog[n]) = LocalRows(catalog'[n])
    OBVIOUS
  <2>1. ASSUME NEW m \in Nodes, Write(m)
        PROVE  LocalRows(catalog[n]) = LocalRows(catalog'[n])
    BY <2>1, WritesAreOwn
  <2>2. ASSUME NEW m \in Nodes, Land(m)
        PROVE  LocalRows(catalog[n]) = LocalRows(catalog'[n])
    <3>1. CASE catalog' = catalog
      BY <3>1
    <3>2. ASSUME NEW e \in Entry, NEW known,
                 catalog' = [catalog EXCEPT ![m] = CatalogAfter(@, known, m, e)]
          PROVE  LocalRows(catalog[n]) = LocalRows(catalog'[n])
      <4>1. catalog \in [Nodes -> SUBSET SourceRow]
        BY DEF IInv, TypeOK
      <4>2. \/ catalog'[n] = catalog[n]
            \/ n = m /\ catalog'[n] = CatalogAfter(catalog[n], known, m, e)
        BY <3>2, <4>1
      <4> QED
        BY <4>2, LandingKeepsLocalRows
    <3> QED
      BY <2>2, <3>1, <3>2, LandingRows
  <2> QED
    BY <2>1, <2>2, RowsStand DEF Next
<1>2. Kept => (\A n \in Nodes : tx[n] # Unlocked =>
                 {r \in catalog[n] : r.steward = Local} = {r \in catalog'[n] : r.steward = Local})
  BY DEF LocalRows
<1> QED
  BY <1>1, <1>2, LogsAreSound, PTL DEF Spec, PeersKeepOffLocalRows

-----------------------------------------------------------------------------
(* Expulsions *)

\* Neither a purge nor a materialised record takes an expulsion away.
LEMMA RosterKeepsExpulsions ==
    ASSUME NEW ros \in Rosters, NEW known, NEW local, NEW e \in Entry
    PROVE  ros.expelled \subseteq RosterAfter(ros, known, local, e).expelled
<1>1. ASSUME NEW q \in Rosters, NEW x
      PROVE  PurgedRoster(q, x).expelled = q.expelled
  BY DEF PurgedRoster, Rosters
<1>2. ASSUME NEW q \in Rosters
      PROVE  q.expelled \subseteq Materialized(q, e.origin, e.record).expelled
  <2>1. e.record.kind \in {"Source", "SourceGone", "Node", "Host", "Stewardship",
                           "StewardshipWithdrawn", "Expulsion"}
    BY RecordTypes DEF Entry
  <2>2. CASE ~Speaks(e.origin, e.record) \/ e.record.kind \in {"Source", "SourceGone"}
    BY <2>2 DEF Materialized, Speaks
  <2>3. CASE e.record.kind = "Node" /\ Speaks(e.origin, e.record)
    BY <2>3 DEF Materialized, Rosters
  <2>4. CASE e.record.kind = "Host"
    BY <2>4 DEF Materialized, Rosters, Speaks
  <2>5. CASE e.record.kind = "Stewardship" /\ Speaks(e.origin, e.record)
    BY <2>5 DEF Materialized, Rosters
  <2>6. CASE e.record.kind = "StewardshipWithdrawn" /\ Speaks(e.origin, e.record)
    BY <2>6 DEF Materialized, Rosters
  <2>7. CASE e.record.kind = "Expulsion"
    BY <2>7 DEF Materialized, Rosters, Speaks
  <2> QED
    BY <2>1, <2>2, <2>3, <2>4, <2>5, <2>6, <2>7
<1> DEFINE base == IF Supersedes(known, e) THEN PurgedRoster(ros, e.origin) ELSE ros
           rows == Materialized(base, e.origin, e.record)
<1>3. e.origin \in Nodes /\ e.record \in Records
  BY DEF Entry
<1>4. base \in Rosters /\ base.expelled = ros.expelled
  BY <1>1, <1>3, PurgedRosterType
<1> HIDE DEF base
<1>5. rows \in Rosters /\ ros.expelled \subseteq rows.expelled
  BY <1>2, <1>3, <1>4, MaterializedType
<1> HIDE DEF rows
<1>6. PurgedRoster(rows, e.record.about).expelled = rows.expelled
  BY <1>1, <1>5
<1> QED
  BY <1>5, <1>6 DEF RosterAfter, rows, base

\* A step on which a node keeps its epoch keeps the expulsions it knows.
LEMMA StepKeepsExpulsions ==
    ASSUME IInv, [Next]_vars, NEW n \in Nodes, epoch'[n] = epoch[n]
    PROVE  roster[n].expelled \subseteq roster'[n].expelled
<1>1. roster \in [Nodes -> Rosters] /\ epoch \in [Nodes -> Nat]
  BY DEF IInv, TypeOK
<1>2. ASSUME NEW m \in Nodes, NEW known, NEW e \in Entry,
             roster' = [roster EXCEPT ![m] = RosterAfter(@, known, m, e)]
      PROVE  roster[n].expelled \subseteq roster'[n].expelled
  <2>1. roster'[n] = roster[n] \/ (n = m /\ roster'[n] = RosterAfter(roster[n], known, m, e))
    BY <1>1, <1>2
  <2> QED
    BY <1>1, <2>1, RosterKeepsExpulsions
<1>3. ASSUME NEW m \in Nodes, Write(m)
      PROVE  roster[n].expelled \subseteq roster'[n].expelled
  <2>1. CASE \E a \in Addresses : DeleteSource(m, a) \/ \E v \in Envelopes : UpsertSource(m, a, v)
    BY <2>1 DEF DeleteSource, UpsertSource
  <2>2. ASSUME NEW r \in Records, Publish(m, r)
        PROVE  roster[n].expelled \subseteq roster'[n].expelled
    <3>1. NextEntry(m, r) \in Entry
      BY <2>2, LoggedTypes DEF Publish
    <3>2. roster' = [roster EXCEPT ![m] = RosterAfter(@, NoPosition, m, NextEntry(m, r))]
      BY <2>2 DEF Publish
    <3> QED
      BY <1>2, <3>1, <3>2
  <2>3. CASE Rebuild(m)
    <3>1. epoch'[m] = epoch[m] + 1 /\ \A k \in Nodes \ {m} : roster'[k] = roster[k]
      BY <1>1, <2>3 DEF Rebuild, Rebuilt
    <3>2. n # m
      BY <1>1, <3>1
    <3> QED
      BY <3>1, <3>2
  <2> QED
    BY <1>3, <2>1, <2>2, <2>3, WriteCases
<1>4. ASSUME NEW m \in Nodes, Land(m)
      PROVE  roster[n].expelled \subseteq roster'[n].expelled
  <2>1. CASE roster' = roster
    BY <2>1
  <2> QED
    BY <1>2, <1>4, <2>1, LandingRows
<1> QED
  BY <1>3, <1>4, RowsStand DEF Next

\* An expulsion a node has applied is never forgotten by the store that
\* applied it, even when the log that carried it is purged.
THEOREM ExpulsionsAreKept == Spec => ExpulsionsStay
<1> DEFINE Kept == \A n \in Nodes : epoch'[n] = epoch[n] =>
                     roster[n].expelled \subseteq roster'[n].expelled
<1>1. IInv /\ [Next]_vars => Kept
  BY StepKeepsExpulsions
<1> QED
  BY <1>1, LogsAreSound, PTL DEF Spec, ExpulsionsStay

(***************************************************************************)
(* Why the rows of a node say what its logs say: RowInv, RowsAreBacked,    *)
(* OwnRowsAreLogged, SoleWriterIsMaterialized and CaughtUpIsEqual.         *)
(*                                                                         *)
(* A log, a catalog and a roster are each written by an operator of its    *)
(* own.  The first lemmas say which entries and rows each of them keeps,   *)
(* in the same words (Stays); the rest compares them.                      *)
(***************************************************************************)

-----------------------------------------------------------------------------
(* Records and their keys *)

\* A record is what its constructor makes of its fields.
LEMMA RecordShapes ==
    ASSUME NEW r \in Records
    PROVE  /\ r.kind = "Source" => r = SourceRecord(r.about, r.value)
           /\ r.kind = "SourceGone" => r = SourceGoneRecord(r.about)
           /\ r.kind = "Node" => r = NodeRecord(r.about, r.value)
           /\ r.kind = "Host" => r = HostRecord(r.about, r.value)
           /\ r.kind = "Stewardship" => r = StewardshipRecord(r.about, r.host)
           /\ r.kind = "StewardshipWithdrawn" => r = WithdrawnRecord(r.about, r.host)
  BY DEF Records, SourceRecord, SourceGoneRecord, NodeRecord, HostRecord,
         StewardshipRecord, WithdrawnRecord, ExpulsionRecord

\* Whose key is that of a record of each kind.
LEMMA SharedKeys ==
    ASSUME NEW r \in Records
    PROVE  /\ \A a, v : Key(r) = Key(SourceRecord(a, v))
                          <=> r.kind \in {"Source", "SourceGone"} /\ r.about = a
           /\ \A m, v : Key(r) = Key(NodeRecord(m, v)) <=> r.kind = "Node" /\ r.about = m
           /\ \A h, v : Key(r) = Key(HostRecord(h, v)) <=> r.kind = "Host" /\ r.about = h
           /\ \A m, h : Key(r) = Key(StewardshipRecord(m, h))
                          <=> /\ r.kind \in {"Stewardship", "StewardshipWithdrawn"}
                              /\ r.about = m /\ r.host = h
<1>1. /\ r.kind \in {"Source", "SourceGone", "Node", "Host"} => r.host = Absent
      /\ r.kind \in {"Source", "SourceGone", "Node", "Host", "Stewardship",
                     "StewardshipWithdrawn", "Expulsion"}
  BY DEF Records, SourceRecord, SourceGoneRecord, NodeRecord, HostRecord,
         StewardshipRecord, WithdrawnRecord, ExpulsionRecord
<1>2. /\ KeyFamily(r.kind) = "Source" <=> r.kind \in {"Source", "SourceGone"}
      /\ KeyFamily(r.kind) = "Node" <=> r.kind = "Node"
      /\ KeyFamily(r.kind) = "Host" <=> r.kind = "Host"
      /\ KeyFamily(r.kind) = "Stewardship" <=> r.kind \in {"Stewardship", "StewardshipWithdrawn"}
  BY <1>1 DEF KeyFamily
<1>3. /\ \A a, v : Key(SourceRecord(a, v)) = <<"Source", a, Absent>>
      /\ \A m, v : Key(NodeRecord(m, v)) = <<"Node", m, Absent>>
      /\ \A h, v : Key(HostRecord(h, v)) = <<"Host", h, Absent>>
      /\ \A m, h : Key(StewardshipRecord(m, h)) = <<"Stewardship", m, h>>
  BY DEF Key, KeyFamily, SourceRecord, NodeRecord, HostRecord, StewardshipRecord
<1>4. \A x, y, z : Key(r) = <<x, y, z>> <=> KeyFamily(r.kind) = x /\ r.about = y /\ r.host = z
  BY DEF Key
<1> QED
  BY <1>1, <1>2, <1>3, <1>4

-----------------------------------------------------------------------------
(* What an entry leaves of a log, a catalog and a roster *)

\* What an origin said before an entry is still heard after it: it is neither
\* purged nor superseded.
Stays(o, known, local, e) ==
    o \notin Purged(local, e) /\ (o = e.origin => ~Supersedes(known, e))

\* The entries that stay, past which an entry of a log is appended.
Outlives(f, known, local, e) ==
    Stays(f.origin, known, local, e) /\ ~(f.origin = e.origin /\ Key(f.record) = Key(e.record))

\* What a log is after it.
After(held, known, local, e) == {f \in held : Outlives(f, known, local, e)} \cup {e}

\* An entry past all that is held of its origin leaves what stays and is
\* not of its key.
LEMMA HeldLogIs ==
    ASSUME NEW held \in SUBSET Entry, NEW e \in Entry, NEW known, NEW local,
           \A f \in OfOrigin(held, e.origin) : Lacks(f, e),
           Supersedes(known, e) \/ \A f \in OfOrigin(held, e.origin) : f.epoch = e.epoch
    PROVE  HeldLog(held, known, local, e) = After(held, known, local, e)
<1> DEFINE base == IF Supersedes(known, e) THEN PurgedLog(held, e.origin) ELSE held
<1>1. e.origin \notin Purged(local, e)
  BY DEF Purged
<1>2. HeldLog(held, known, local, e)
        = {f \in Compacted(base, e) \cup {e} : f.origin \notin Purged(local, e)}
  BY DEF HeldLog, Appended
<1>3. ASSUME NEW f \in held
      PROVE  f \in Compacted(base, e) <=>
               (f.origin = e.origin => ~Supersedes(known, e) /\ Key(f.record) # Key(e.record))
  <2>1. f \in base <=> (f.origin = e.origin => ~Supersedes(known, e))
    BY DEF PurgedLog
  <2>2. ASSUME f.origin = e.origin, ~Supersedes(known, e)
        PROVE  f.epoch = e.epoch /\ f.seq < e.seq
    <3>1. f \in OfOrigin(held, e.origin) /\ f \in Entry
      BY <2>2 DEF OfOrigin
    <3>2. f.epoch = e.epoch /\ Lacks(f, e)
      BY <2>2, <3>1
    <3> QED
      BY <3>1, <3>2 DEF Lacks, Entry
  <2> HIDE DEF base
  <2> QED
    BY <2>1, <2>2 DEF Compacted
<1>4. Compacted(base, e) \subseteq held
  BY DEF Compacted, PurgedLog
<1>5. ASSUME NEW f \in held
      PROVE  f \in Compacted(base, e) /\ f.origin \notin Purged(local, e)
               <=> Outlives(f, known, local, e)
  BY <1>3 DEF Outlives, Stays
<1> HIDE DEF base
<1> QED
  BY <1>1, <1>2, <1>4, <1>5 DEF After

\* So one entry of a key stays one.
LEMMA HeldLogKeepsKeys ==
    ASSUME NEW held, OneEntryPerKey(held), NEW e, NEW known, NEW local
    PROVE  OneEntryPerKey(After(held, known, local, e))
  BY DEF OneEntryPerKey, Outlives, After

\* A peer's source is written unless the row there is this node's own.
IsWritten(rows, e) ==
    e.record.kind = "Source" /\ \A r \in rows : r.address = e.record.about => r.steward # Local

\* The rows an entry takes the place of or buries.
Displaces(rows, e, r) ==
    \/ IsWritten(rows, e) /\ r.address = e.record.about
    \/ e.record.kind = "SourceGone" /\ r.address = e.record.about /\ r.steward = e.origin

RowOf(e) == [address |-> e.record.about, envelope |-> e.record.value, steward |-> e.origin]

\* Landing an entry keeps the rows whose steward stays and which it does not
\* displace, and writes its own.
LEMMA CatalogAfterIs ==
    ASSUME NEW rows, NEW e \in Entry, NEW known, NEW local
    PROVE  CatalogAfter(rows, known, local, e)
             = {r \in rows : Stays(r.steward, known, local, e) /\ ~Displaces(rows, e, r)}
                 \cup (IF IsWritten(rows, e) THEN {RowOf(e)} ELSE {})
<1> DEFINE base == IF Supersedes(known, e) THEN PurgedCatalog(rows, e.origin) ELSE rows
           kind == e.record.kind
           a    == e.record.about
           kept == CASE kind = "Source"     -> SourceWritten(base, e.origin, a, e.record.value)
                     [] kind = "SourceGone" -> CatalogTombstoned(base, e.origin, a)
                     [] OTHER               -> base
           new  == IF IsWritten(rows, e) THEN {RowOf(e)} ELSE {}
<1>1. CatalogAfter(rows, known, local, e) = {row \in kept : row.steward \notin Purged(local, e)}
  BY DEF CatalogAfter
<1>2. e.origin \in Nodes /\ e.origin # Local /\ e.origin \notin Purged(local, e)
  BY StoreAssumption DEF Entry, Local, Purged
<1>3. base = {r \in rows : r.steward = e.origin => ~Supersedes(known, e)}
  BY DEF PurgedCatalog
<1> HIDE DEF base
<1>4. IsWritten(rows, e) <=> kind = "Source" /\ ~ \E r \in RowsAt(base, a) : r.steward = Local
  BY <1>2, <1>3 DEF IsWritten, RowsAt
<1>5. kept = {r \in base : ~Displaces(rows, e, r)} \cup new
  <2>1. CASE kind = "Source" /\ IsWritten(rows, e)
    <3>1. kept = SourceWritten(base, e.origin, a, e.record.value)
      BY <2>1
    <3>2. kept = (base \ RowsAt(base, a)) \cup {RowOf(e)}
      BY <1>4, <2>1, <3>1 DEF SourceWritten, RowOf
    <3>3. base \ RowsAt(base, a) = {r \in base : ~Displaces(rows, e, r)}
      BY <2>1 DEF RowsAt, Displaces
    <3> HIDE DEF kept
    <3> QED
      BY <2>1, <3>2, <3>3
  <2>2. CASE kind = "Source" /\ ~IsWritten(rows, e)
    <3>1. kept = SourceWritten(base, e.origin, a, e.record.value)
      BY <2>2
    <3>2. kept = base
      BY <1>2, <1>4, <2>2, <3>1 DEF SourceWritten
    <3>3. \A r \in base : ~Displaces(rows, e, r)
      BY <2>2 DEF Displaces
    <3> HIDE DEF kept
    <3> QED
      BY <2>2, <3>2, <3>3
  <2>3. CASE kind = "SourceGone"
    <3>1. kept = CatalogTombstoned(base, e.origin, a) /\ ~IsWritten(rows, e)
      BY <2>3 DEF IsWritten
    <3>2. CatalogTombstoned(base, e.origin, a) = {r \in base : ~Displaces(rows, e, r)}
      BY <2>3, <3>1 DEF CatalogTombstoned, Displaces
    <3> HIDE DEF kept
    <3> QED
      BY <3>1, <3>2
  <2>4. CASE kind \notin {"Source", "SourceGone"}
    <3>1. kept = base /\ ~IsWritten(rows, e)
      BY <2>4 DEF IsWritten
    <3>2. \A r \in base : ~Displaces(rows, e, r)
      BY <2>4 DEF IsWritten, Displaces
    <3> HIDE DEF kept
    <3> QED
      BY <3>1, <3>2
  <2> QED
    BY <2>1, <2>2, <2>3, <2>4
<1> HIDE DEF kept
<1>6. \A r \in new : r.steward \notin Purged(local, e)
  BY <1>2 DEF RowOf
<1> HIDE DEF new
<1>7. CatalogAfter(rows, known, local, e)
        = {r \in base : ~Displaces(rows, e, r) /\ r.steward \notin Purged(local, e)} \cup new
  BY <1>1, <1>5, <1>6
<1>8. \A r \in rows : r \in base /\ r.steward \notin Purged(local, e) <=> Stays(r.steward, known, local, e)
  BY <1>3 DEF Stays
<1>9. base \subseteq rows
  BY <1>3
<1> QED
  BY <1>7, <1>8, <1>9 DEF new

\* What landing an entry leaves of each roster table, and adds to it.
NodesAfter(ros, known, local, e) ==
    {r \in ros.nodes : /\ Stays(r.node, known, local, e)
                       /\ ~(e.record.kind = "Node" /\ r.node = e.origin)}
      \cup (IF e.record.kind = "Node" THEN {[node |-> e.origin, name |-> e.record.value]} ELSE {})

HostsAfter(ros, known, local, e) ==
    {r \in ros.hosts : /\ Stays(r.origin, known, local, e)
                       /\ ~(e.record.kind = "Host" /\ r.host = e.record.about)}
      \cup (IF e.record.kind = "Host"
            THEN {[host |-> e.record.about, name |-> e.record.value, origin |-> e.origin]} ELSE {})

StewardsAfter(ros, known, local, e) ==
    {r \in ros.stewards : /\ Stays(r.node, known, local, e)
                          /\ ~ /\ e.record.kind = "StewardshipWithdrawn"
                               /\ r = [node |-> e.origin, host |-> e.record.host]}
      \cup (IF e.record.kind = "Stewardship" THEN {[node |-> e.origin, host |-> e.record.host]} ELSE {})

\* What an applied record makes of the roster, table by table.
LEMMA RosterAfterIs ==
    ASSUME NEW ros \in Rosters, NEW e \in Entry, Speaks(e.origin, e.record), NEW known, NEW local
    PROVE  LET new == RosterAfter(ros, known, local, e) IN
           /\ new.nodes = NodesAfter(ros, known, local, e)
           /\ new.hosts = HostsAfter(ros, known, local, e)
           /\ new.stewards = StewardsAfter(ros, known, local, e)
           /\ new.expelled = ros.expelled
                \cup (IF e.record.kind = "Expulsion" THEN {e.record.about} ELSE {})
<1> DEFINE base == IF Supersedes(known, e) THEN PurgedRoster(ros, e.origin) ELSE ros
           rows == Materialized(base, e.origin, e.record)
           kind == e.record.kind
           new  == RosterAfter(ros, known, local, e)
<1>1. e.origin \in Nodes /\ e.record \in Records /\ e.origin \notin Purged(local, e)
  BY DEF Entry, Purged
<1>2. kind \in {"Source", "SourceGone", "Node", "Host", "Stewardship",
                "StewardshipWithdrawn", "Expulsion"}
  BY <1>1, RecordTypes
<1>3. /\ base \in Rosters
      /\ base.nodes = {r \in ros.nodes : r.node = e.origin => ~Supersedes(known, e)}
      /\ base.hosts = {r \in ros.hosts : r.origin = e.origin => ~Supersedes(known, e)}
      /\ base.stewards = {r \in ros.stewards : r.node = e.origin => ~Supersedes(known, e)}
      /\ base.expelled = ros.expelled
  <2>1. base \in Rosters
    BY PurgedRosterType
  <2> QED
    BY <2>1 DEF PurgedRoster, Rosters
<1> HIDE DEF base
<1>4. new = IF Purged(local, e) = {} THEN rows ELSE PurgedRoster(rows, e.record.about)
  BY DEF RosterAfter, base
<1>5. kind # "Expulsion" => Purged(local, e) = {} /\ new = rows
  BY <1>4 DEF Purged
<1>6. CASE kind \in {"Source", "SourceGone"}
  <2>1. new = base
    BY <1>5, <1>6 DEF Materialized
  <2> QED
    BY <1>3, <1>5, <1>6, <2>1 DEF Stays, NodesAfter, HostsAfter, StewardsAfter
<1>7. CASE kind = "Node"
  <2>1. new = [base EXCEPT !.nodes = {x \in @ : x.node # e.origin}
                                       \cup {[node |-> e.origin, name |-> e.record.value]}]
    BY <1>5, <1>7 DEF Materialized
  <2> HIDE DEF new
  <2>2. /\ new.nodes = {x \in base.nodes : x.node # e.origin}
                         \cup {[node |-> e.origin, name |-> e.record.value]}
        /\ new.hosts = base.hosts /\ new.stewards = base.stewards /\ new.expelled = base.expelled
    BY <1>3, <2>1 DEF Rosters
  <2> QED
    BY <1>3, <1>5, <1>7, <2>2 DEF Stays, NodesAfter, HostsAfter, StewardsAfter, new
<1>8. CASE kind = "Host"
  <2>1. new = [base EXCEPT !.hosts = {x \in @ : x.host # e.record.about}
                 \cup {[host |-> e.record.about, name |-> e.record.value, origin |-> e.origin]}]
    BY <1>5, <1>8 DEF Materialized
  <2> HIDE DEF new
  <2>2. /\ new.hosts = {x \in base.hosts : x.host # e.record.about}
              \cup {[host |-> e.record.about, name |-> e.record.value, origin |-> e.origin]}
        /\ new.nodes = base.nodes /\ new.stewards = base.stewards /\ new.expelled = base.expelled
    BY <1>3, <2>1 DEF Rosters
  <2> QED
    BY <1>3, <1>5, <1>8, <2>2 DEF Stays, NodesAfter, HostsAfter, StewardsAfter, new
<1>9. CASE kind = "Stewardship"
  <2>1. new = [base EXCEPT !.stewards = @ \cup {[node |-> e.origin, host |-> e.record.host]}]
    BY <1>5, <1>9 DEF Materialized
  <2> HIDE DEF new
  <2>2. /\ new.stewards = base.stewards \cup {[node |-> e.origin, host |-> e.record.host]}
        /\ new.nodes = base.nodes /\ new.hosts = base.hosts /\ new.expelled = base.expelled
    BY <1>3, <2>1 DEF Rosters
  <2> QED
    BY <1>3, <1>5, <1>9, <2>2 DEF Stays, NodesAfter, HostsAfter, StewardsAfter, new
<1>10. CASE kind = "StewardshipWithdrawn"
  <2>1. new = [base EXCEPT !.stewards = @ \ {[node |-> e.origin, host |-> e.record.host]}]
    BY <1>5, <1>10 DEF Materialized
  <2> HIDE DEF new
  <2>2. /\ new.stewards = base.stewards \ {[node |-> e.origin, host |-> e.record.host]}
        /\ new.nodes = base.nodes /\ new.hosts = base.hosts /\ new.expelled = base.expelled
    BY <1>3, <2>1 DEF Rosters
  <2> QED
    BY <1>3, <1>5, <1>10, <2>2 DEF Stays, NodesAfter, HostsAfter, StewardsAfter, new
<1>11. CASE kind = "Expulsion"
  <2> DEFINE x == e.record.about
  <2>1. rows = [base EXCEPT !.expelled = @ \cup {x}]
    BY <1>11 DEF Materialized
  <2>2. /\ rows \in Rosters
        /\ rows.nodes = base.nodes /\ rows.hosts = base.hosts /\ rows.stewards = base.stewards
        /\ rows.expelled = base.expelled \cup {x}
    <3>1. rows \in Rosters
      BY <1>1, <1>3, MaterializedType
    <3> QED
      BY <1>3, <2>1, <3>1 DEF Rosters
  <2> HIDE DEF rows
  <2>3. CASE Purged(local, e) = {}
    BY <1>3, <1>4, <1>11, <2>2, <2>3 DEF Stays, NodesAfter, HostsAfter, StewardsAfter
  <2>4. CASE Purged(local, e) # {}
    <3>1. Purged(local, e) = {x} /\ new = PurgedRoster(rows, x)
      BY <1>4, <2>4 DEF Purged
    <3> HIDE DEF new
    <3>2. /\ new.nodes = {r \in rows.nodes : r.node # x}
          /\ new.hosts = {r \in rows.hosts : r.origin # x}
          /\ new.stewards = {r \in rows.stewards : r.node # x}
          /\ new.expelled = rows.expelled
      BY <2>2, <3>1 DEF PurgedRoster, Rosters
    <3> QED
      BY <1>3, <1>11, <2>2, <3>1, <3>2 DEF Stays, NodesAfter, HostsAfter, StewardsAfter, new
  <2> QED
    BY <2>3, <2>4
<1> QED
  BY <1>2, <1>6, <1>7, <1>8, <1>9, <1>10, <1>11

-----------------------------------------------------------------------------
(* Landing one entry: a store that agrees with its log still does *)

\* A row of a peer goes whenever the entry it was read from does.
LEMMA LandedCatalogIsBacked ==
    ASSUME NEW held \in SUBSET Entry, NEW rows \in SUBSET SourceRow, NEW e \in Entry,
           NEW known, NEW local, OneRowPerAddress(rows), CatalogIsBacked(held, rows)
    PROVE  /\ CatalogIsBacked(After(held, known, local, e), CatalogAfter(rows, known, local, e))
           /\ OneRowPerAddress(CatalogAfter(rows, known, local, e))
<1> DEFINE new   == After(held, known, local, e)
           after == CatalogAfter(rows, known, local, e)
           kept  == {r \in rows : Stays(r.steward, known, local, e) /\ ~Displaces(rows, e, r)}
<1>1. after = kept \cup (IF IsWritten(rows, e) THEN {RowOf(e)} ELSE {})
  BY CatalogAfterIs
<1>2. e.record \in Records
  BY DEF Entry
<1>3. ASSUME NEW r \in kept, r.steward # Local
      PROVE  Said(new, r.steward, SourceRecord(r.address, r.envelope))
  <2>1. PICK f \in held : f.origin = r.steward /\ f.record = SourceRecord(r.address, r.envelope)
    BY <1>3 DEF CatalogIsBacked, Said
  <2>2. ASSUME f.origin = e.origin, Key(f.record) = Key(e.record) PROVE FALSE
    <3>1. e.record.kind \in {"Source", "SourceGone"} /\ e.record.about = r.address
      BY <1>2, <2>1, <2>2, SharedKeys
    <3>2. ~IsWritten(rows, e) /\ e.record.kind # "SourceGone"
      BY <2>1, <2>2, <3>1 DEF Displaces
    <3>3. PICK q \in rows : q.address = e.record.about /\ q.steward = Local
      BY <3>1, <3>2 DEF IsWritten
    <3> QED
      BY <1>3, <3>1, <3>3 DEF OneRowPerAddress
  <2>3. f \in new
    BY <2>1, <2>2 DEF Outlives, After
  <2> QED
    BY <2>1, <2>3 DEF Said
<1>4. ASSUME IsWritten(rows, e)
      PROVE  Said(new, RowOf(e).steward, SourceRecord(RowOf(e).address, RowOf(e).envelope))
  <2>1. e.record = SourceRecord(e.record.about, e.record.value)
    BY <1>2, <1>4, RecordShapes DEF IsWritten
  <2> QED
    BY <2>1 DEF RowOf, Said, After
<1>5. CatalogIsBacked(new, after)
  BY <1>1, <1>3, <1>4 DEF CatalogIsBacked
<1>6. \A r \in kept : IsWritten(rows, e) => r.address # RowOf(e).address
  BY DEF Displaces, RowOf
<1>7. OneRowPerAddress(after)
  BY <1>1, <1>6 DEF OneRowPerAddress
<1> QED
  BY <1>5, <1>7

\* So does a row of the roster tables.
LEMMA LandedRosterIsBacked ==
    ASSUME NEW held \in SUBSET Entry, NEW ros \in Rosters,
           NEW e \in Entry, Speaks(e.origin, e.record),
           NEW known, NEW local, RosterIsBacked(held, ros)
    PROVE  RosterIsBacked(After(held, known, local, e), RosterAfter(ros, known, local, e))
<1> DEFINE new   == After(held, known, local, e)
           after == RosterAfter(ros, known, local, e)
<1>1. /\ after.nodes = NodesAfter(ros, known, local, e)
      /\ after.hosts = HostsAfter(ros, known, local, e)
      /\ after.stewards = StewardsAfter(ros, known, local, e)
  BY RosterAfterIs
<1>2. e.record \in Records
  BY DEF Entry
<1>3. ASSUME NEW o, NEW r, Said(held, o, r), Stays(o, known, local, e),
             o = e.origin => Key(r) # Key(e.record)
      PROVE  Said(new, o, r)
  BY <1>3 DEF Said, After, Outlives
<1>4. Said(new, e.origin, e.record)
  BY DEF Said, After
<1>5. ASSUME NEW r \in NodesAfter(ros, known, local, e)
      PROVE  Said(new, r.node, NodeRecord(r.node, r.name))
  <2>1. CASE /\ r \in ros.nodes /\ Stays(r.node, known, local, e)
             /\ ~(e.record.kind = "Node" /\ r.node = e.origin)
    <3>1. Said(held, r.node, NodeRecord(r.node, r.name))
      BY <2>1 DEF RosterIsBacked
    <3>2. r.node = e.origin => Key(NodeRecord(r.node, r.name)) # Key(e.record)
      BY <1>2, <2>1, SharedKeys
    <3> QED
      BY <1>3, <2>1, <3>1, <3>2
  <2>2. CASE e.record.kind = "Node" /\ r = [node |-> e.origin, name |-> e.record.value]
    <3>1. e.record = NodeRecord(e.origin, e.record.value)
      BY <1>2, <2>2, RecordShapes DEF Speaks
    <3> QED
      BY <1>4, <2>2, <3>1
  <2> QED
    BY <2>1, <2>2 DEF NodesAfter
<1>6. ASSUME NEW r \in HostsAfter(ros, known, local, e)
      PROVE  Said(new, r.origin, HostRecord(r.host, r.name))
  <2>1. CASE /\ r \in ros.hosts /\ Stays(r.origin, known, local, e)
             /\ ~(e.record.kind = "Host" /\ r.host = e.record.about)
    <3>1. Said(held, r.origin, HostRecord(r.host, r.name))
      BY <2>1 DEF RosterIsBacked
    <3>2. Key(HostRecord(r.host, r.name)) # Key(e.record)
      BY <1>2, <2>1, SharedKeys
    <3> QED
      BY <1>3, <2>1, <3>1, <3>2
  <2>2. CASE /\ e.record.kind = "Host"
             /\ r = [host |-> e.record.about, name |-> e.record.value, origin |-> e.origin]
    <3>1. e.record = HostRecord(e.record.about, e.record.value)
      BY <1>2, <2>2, RecordShapes
    <3> QED
      BY <1>4, <2>2, <3>1
  <2> QED
    BY <2>1, <2>2 DEF HostsAfter
<1>7. ASSUME NEW r \in StewardsAfter(ros, known, local, e)
      PROVE  Said(new, r.node, StewardshipRecord(r.node, r.host))
  <2>1. CASE e.record.kind = "Stewardship" /\ r = [node |-> e.origin, host |-> e.record.host]
    <3>1. e.record = StewardshipRecord(e.origin, e.record.host)
      BY <1>2, <2>1, RecordShapes DEF Speaks
    <3> QED
      BY <1>4, <2>1, <3>1
  <2>2. CASE /\ r \in ros.stewards /\ Stays(r.node, known, local, e)
             /\ ~ /\ e.record.kind = "StewardshipWithdrawn"
                  /\ r = [node |-> e.origin, host |-> e.record.host]
    <3>1. Said(held, r.node, StewardshipRecord(r.node, r.host))
      BY <2>2 DEF RosterIsBacked
    <3>2. r = [node |-> r.node, host |-> r.host]
      BY <2>2 DEF Rosters
    <3>3. CASE r.node = e.origin /\ Key(StewardshipRecord(r.node, r.host)) = Key(e.record)
      <4>1. e.record.kind \in {"Stewardship", "StewardshipWithdrawn"} /\ e.record.host = r.host
        BY <1>2, <3>3, SharedKeys
      <4>2. e.record.kind = "Stewardship"
        BY <2>2, <3>2, <3>3, <4>1
      <4>3. e.record = StewardshipRecord(r.node, r.host)
        BY <1>2, <3>3, <4>1, <4>2, RecordShapes DEF Speaks
      <4> QED
        BY <1>4, <3>3, <4>3
    <3>4. CASE r.node = e.origin => Key(StewardshipRecord(r.node, r.host)) # Key(e.record)
      BY <1>3, <2>2, <3>1, <3>4
    <3> QED
      BY <3>3, <3>4
  <2> QED
    BY <2>1, <2>2 DEF StewardsAfter
<1> HIDE DEF new, after
<1> QED
  BY <1>1, <1>5, <1>6, <1>7 DEF RosterIsBacked, new, after

\* A node's own rows are those its own log speaks of.
OwnRows(n, held, rows) ==
    \A a \in Addresses : \A v \in Envelopes :
        ([address |-> a, envelope |-> v, steward |-> Local] \in rows)
          <=> Said(held, n, SourceRecord(a, v))

\* No landing comes between them: it neither touches a local row nor an entry
\* of this node that speaks of one.
LEMMA LandedOwnRows ==
    ASSUME NEW n \in Nodes, NEW held \in SUBSET Entry, NEW rows, NEW e \in Entry, NEW known,
           n = e.origin => /\ ~Supersedes(known, e)
                           /\ e.record.kind \notin {"Source", "SourceGone"},
           OwnRows(n, held, rows)
    PROVE  OwnRows(n, After(held, known, n, e), CatalogAfter(rows, known, n, e))
<1> DEFINE new   == After(held, known, n, e)
           after == CatalogAfter(rows, known, n, e)
<1>1. \A r : r.steward = Local => (r \in rows <=> r \in after)
  <2>1. LocalRows(after) = LocalRows(rows)
    BY LandingKeepsLocalRows
  <2> QED
    BY <2>1 DEF LocalRows
<1>2. e.record \in Records /\ n \notin Purged(n, e)
  BY DEF Entry, Purged
<1>3. ASSUME NEW a, NEW v
      PROVE  Said(held, n, SourceRecord(a, v)) <=> Said(new, n, SourceRecord(a, v))
  <2>1. ASSUME NEW f \in held, f.origin = n, f.record = SourceRecord(a, v)
        PROVE  f \in new
    <3>1. n = e.origin => Key(f.record) # Key(e.record)
      BY <1>2, <2>1, SharedKeys
    <3> QED
      BY <1>2, <2>1, <3>1 DEF After, Outlives, Stays
  <2>2. e.origin = n => e.record # SourceRecord(a, v)
    BY DEF SourceRecord
  <2> QED
    BY <2>1, <2>2 DEF Said, After
<1> QED
  BY <1>1, <1>3 DEF OwnRows

\* An entry of a key nobody else writes is shown from the moment it is held,
\* whatever lands after it.
LEMMA LandedIsShown ==
    ASSUME NEW n \in Nodes, NEW hist \in SUBSET Entry, NEW held \in SUBSET hist,
           NEW rows \in SUBSET SourceRow, NEW ros \in Rosters,
           NEW e \in hist, Speaks(e.origin, e.record), NEW known,
           n = e.origin => e.record.kind \notin {"Source", "SourceGone"},
           \A g \in held : Speaks(g.origin, g.record),
           OwnRows(n, held, rows), CatalogIsBacked(held, rows), RosterIsBacked(held, ros),
           NEW f \in After(held, known, n, e), SoleWriter(hist, f),
           f \in held => IsShown(f, rows, ros)
    PROVE  IsShown(f, CatalogAfter(rows, known, n, e), RosterAfter(ros, known, n, e))
<1> DEFINE after == CatalogAfter(rows, known, n, e)
           tables == RosterAfter(ros, known, n, e)
<1>1. /\ e \in Entry /\ e.record \in Records /\ f \in Entry /\ f.record \in Records
      /\ f \in hist /\ Local \notin Nodes /\ held \in SUBSET Entry /\ Speaks(f.origin, f.record)
  BY StoreAssumption DEF Entry, After, Local
<1>2. after = {r \in rows : Stays(r.steward, known, n, e) /\ ~Displaces(rows, e, r)}
                \cup (IF IsWritten(rows, e) THEN {RowOf(e)} ELSE {})
  BY <1>1, CatalogAfterIs
<1>3. /\ tables.nodes = NodesAfter(ros, known, n, e)
      /\ tables.hosts = HostsAfter(ros, known, n, e)
      /\ tables.stewards = StewardsAfter(ros, known, n, e)
      /\ tables.expelled = ros.expelled
            \cup (IF e.record.kind = "Expulsion" THEN {e.record.about} ELSE {})
  BY <1>1, RosterAfterIs
<1>4. f = e \/ /\ f \in held /\ Stays(f.origin, known, n, e)
               /\ ~(f.origin = e.origin /\ Key(f.record) = Key(e.record))
               /\ IsShown(f, rows, ros)
  BY DEF After, Outlives
<1>5. \A g \in hist : Key(g.record) = Key(f.record) => g.origin = f.origin
  BY DEF SoleWriter
<1>6. f # e => Key(e.record) # Key(f.record)
  BY <1>4, <1>5
<1> HIDE DEF after, tables
<1>7. CASE f.record.kind = "Source"
  <2>1. f.record = SourceRecord(f.record.about, f.record.value)
    BY <1>1, <1>7, RecordShapes
  <2>2. ASSUME NEW r \in rows, r.address = f.record.about
        PROVE  /\ r.steward = Local => n = f.origin
               /\ r.steward # Local => r.steward = f.origin
    <3>1. r.address \in Addresses /\ r.envelope \in Envelopes
          /\ r = [address |-> r.address, envelope |-> r.envelope, steward |-> r.steward]
      BY DEF SourceRow
    <3> DEFINE o == IF r.steward = Local THEN n ELSE r.steward
    <3>2. Said(held, o, SourceRecord(r.address, r.envelope))
      BY <3>1 DEF OwnRows, CatalogIsBacked
    <3>3. Key(SourceRecord(r.address, r.envelope)) = Key(f.record)
      BY <1>1, <1>7, <2>2, SharedKeys
    <3>4. o = f.origin
      BY <1>5, <3>2, <3>3 DEF Said
    <3> QED
      BY <3>4
  <2>3. CASE f = e
    <3>1. \A r \in rows : r.address = e.record.about => r.steward # Local
      BY <1>7, <2>2, <2>3
    <3>2. IsWritten(rows, e) /\ RowOf(e) \in after
      BY <1>2, <1>7, <2>3, <3>1 DEF IsWritten
    <3>3. RowOf(e).address = f.record.about /\ RowOf(e).envelope = f.record.value
      BY <2>3 DEF RowOf
    <3> QED
      BY <1>7, <3>2, <3>3 DEF IsShown, after
  <2>4. CASE f # e
    <3>1. PICK r \in rows : r.address = f.record.about /\ r.envelope = f.record.value
      BY <1>4, <1>7, <2>4 DEF IsShown
    <3>2. Stays(r.steward, known, n, e)
      <4>1. CASE r.steward = Local
        BY <1>1, <4>1, RecordTypes DEF Stays, Purged, Entry
      <4>2. CASE r.steward # Local
        BY <1>4, <2>2, <2>4, <3>1, <4>2
      <4> QED
        BY <4>1, <4>2
    <3>3. ~Displaces(rows, e, r)
      <4>1. e.record.kind \in {"Source", "SourceGone"} => e.record.about # f.record.about
        BY <1>1, <1>6, <2>1, <2>4, SharedKeys
      <4> QED
        BY <3>1, <4>1 DEF Displaces, IsWritten
    <3>4. r \in after
      BY <1>2, <3>2, <3>3
    <3> QED
      BY <1>7, <3>1, <3>4 DEF IsShown, after
  <2> QED
    BY <2>3, <2>4
<1>8. CASE f.record.kind = "Node"
  <2> DEFINE row == [node |-> f.origin, name |-> f.record.value]
  <2>1. f.record = NodeRecord(f.origin, f.record.value)
    BY <1>1, <1>8, RecordShapes DEF Speaks
  <2>2. f # e => row \in ros.nodes /\ ~(e.record.kind = "Node" /\ e.origin = f.origin)
    BY <1>1, <1>4, <1>6, <1>8, <2>1, SharedKeys DEF IsShown, Speaks
  <2>3. row \in tables.nodes
    BY <1>3, <1>4, <1>8, <2>2 DEF NodesAfter
  <2> QED
    BY <1>8, <2>3 DEF IsShown, tables
<1>9. CASE f.record.kind = "Host"
  <2>1. f.record = HostRecord(f.record.about, f.record.value)
    BY <1>1, <1>9, RecordShapes
  <2>2. CASE f = e
    <3>1. [host |-> f.record.about, name |-> f.record.value, origin |-> f.origin] \in tables.hosts
      BY <1>3, <1>9, <2>2 DEF HostsAfter
    <3> QED
      BY <1>9, <3>1 DEF IsShown, tables
  <2>3. CASE f # e
    <3>1. PICK r \in ros.hosts : r.host = f.record.about /\ r.name = f.record.value
      BY <1>4, <1>9, <2>3 DEF IsShown
    <3>2. r.origin = f.origin
      BY <1>1, <1>5, <2>1, <3>1 DEF RosterIsBacked, Said
    <3>3. ~(e.record.kind = "Host" /\ e.record.about = r.host)
      BY <1>1, <1>6, <2>1, <2>3, <3>1, SharedKeys
    <3>4. r \in tables.hosts
      BY <1>3, <1>4, <2>3, <3>2, <3>3 DEF HostsAfter
    <3> QED
      BY <1>9, <3>1, <3>4 DEF IsShown, tables
  <2> QED
    BY <2>2, <2>3
<1>10. CASE f.record.kind = "Stewardship"
  <2> DEFINE row == [node |-> f.origin, host |-> f.record.host]
  <2>1. f.record = StewardshipRecord(f.origin, f.record.host)
    BY <1>1, <1>10, RecordShapes DEF Speaks
  <2>2. f # e => row \in ros.stewards
    BY <1>4, <1>10 DEF IsShown
  <2>3. f # e => ~ /\ e.record.kind = "StewardshipWithdrawn"
                   /\ row = [node |-> e.origin, host |-> e.record.host]
    <3> SUFFICES ASSUME f # e, e.record.kind = "StewardshipWithdrawn",
                        e.origin = f.origin, e.record.host = f.record.host
                 PROVE  FALSE
      OBVIOUS
    <3>1. e.record.about = f.origin
      BY DEF Speaks
    <3> QED
      BY <1>1, <1>6, <2>1, <3>1, SharedKeys
  <2>4. row \in tables.stewards
    BY <1>3, <1>4, <1>10, <2>2, <2>3 DEF StewardsAfter
  <2> QED
    BY <1>10, <2>4 DEF IsShown, tables
<1>11. CASE f.record.kind = "Expulsion"
  <2>1. f.record.about \in tables.expelled
    BY <1>3, <1>4, <1>11 DEF IsShown
  <2> QED
    BY <1>11, <2>1 DEF IsShown, tables
<1>12. CASE f.record.kind \notin {"Source", "Node", "Host", "Stewardship", "Expulsion"}
  BY <1>12 DEF IsShown
<1> QED
  BY <1>7, <1>8, <1>9, <1>10, <1>11, <1>12

\* The rows of one store and its logs say the same.
Agrees(n, hist, held, rows, ros) ==
    /\ OneEntryPerKey(held)
    /\ OneRowPerAddress(rows)
    /\ OwnRows(n, held, rows)
    /\ CatalogIsBacked(held, rows)
    /\ RosterIsBacked(held, ros)
    /\ \A e \in held : SoleWriter(hist, e) => IsShown(e, rows, ros)

\* More history takes only sole writers away.
LEMMA AgreesMoreHistory ==
    ASSUME NEW n, NEW hist, NEW more, hist \subseteq more, NEW held, NEW rows, NEW ros,
           Agrees(n, hist, held, rows, ros)
    PROVE  Agrees(n, more, held, rows, ros)
  BY DEF Agrees, SoleWriter

\* A store agrees with its log after it has landed an entry, or published one
\* of its own that is not about a source.
LEMMA LandedAgrees ==
    ASSUME NEW n \in Nodes, NEW hist \in SUBSET Entry, NEW held \in SUBSET hist,
           NEW rows \in SUBSET SourceRow, NEW ros \in Rosters,
           NEW e \in hist, NEW known,
           n = e.origin => /\ ~Supersedes(known, e)
                           /\ e.record.kind \notin {"Source", "SourceGone"},
           \A f \in OfOrigin(held, e.origin) : Lacks(f, e),
           Supersedes(known, e) \/ \A f \in OfOrigin(held, e.origin) : f.epoch = e.epoch,
           \A g \in hist : Speaks(g.origin, g.record),
           Agrees(n, hist, held, rows, ros)
    PROVE  Agrees(n, hist, HeldLog(held, known, n, e), CatalogAfter(rows, known, n, e),
                  RosterAfter(ros, known, n, e))
<1> DEFINE new == After(held, known, n, e)
<1>1. held \in SUBSET Entry /\ e \in Entry /\ Speaks(e.origin, e.record)
      /\ \A g \in held : Speaks(g.origin, g.record)
  OBVIOUS
<1>2. HeldLog(held, known, n, e) = new
  BY <1>1, HeldLogIs
<1>3. OneEntryPerKey(new)
  BY HeldLogKeepsKeys DEF Agrees
<1>4. /\ OneRowPerAddress(CatalogAfter(rows, known, n, e))
      /\ CatalogIsBacked(new, CatalogAfter(rows, known, n, e))
  BY <1>1, LandedCatalogIsBacked DEF Agrees
<1>5. OwnRows(n, new, CatalogAfter(rows, known, n, e))
  BY <1>1, LandedOwnRows DEF Agrees
<1>6. RosterIsBacked(new, RosterAfter(ros, known, n, e))
  BY <1>1, LandedRosterIsBacked DEF Agrees
<1>7. ASSUME NEW f \in new, SoleWriter(hist, f)
      PROVE  IsShown(f, CatalogAfter(rows, known, n, e), RosterAfter(ros, known, n, e))
  <2>1. f \in held => IsShown(f, rows, ros)
    BY <1>7 DEF Agrees
  <2>2. OwnRows(n, held, rows) /\ CatalogIsBacked(held, rows) /\ RosterIsBacked(held, ros)
    BY DEF Agrees
  <2> QED
    BY <1>1, <1>7, <2>1, <2>2, LandedIsShown
<1> QED
  BY <1>2, <1>3, <1>4, <1>5, <1>6, <1>7 DEF Agrees

\* A store agrees with its log after it has written or deleted a source of
\* its own and logged it.
LEMMA OwnSourceAgrees ==
    ASSUME NEW n \in Nodes, NEW hist \in SUBSET Entry, NEW held \in SUBSET hist,
           NEW rows \in SUBSET SourceRow, NEW ros \in Rosters,
           NEW e \in hist, e.origin = n, e.record.kind \in {"Source", "SourceGone"},
           \A f \in OfOrigin(held, n) : Lacks(f, e) /\ f.epoch = e.epoch,
           Agrees(n, hist, held, rows, ros),
           NEW after,
           after = {r \in rows : r.address # e.record.about}
                     \cup (IF e.record.kind = "Source"
                           THEN {[address |-> e.record.about, envelope |-> e.record.value,
                                  steward |-> Local]}
                           ELSE {})
    PROVE  Agrees(n, hist, HeldLog(held, NoPosition, n, e), after, ros)
<1> DEFINE new == After(held, NoPosition, n, e)
           a   == e.record.about
           own == [address |-> a, envelope |-> e.record.value, steward |-> Local]
<1>1. held \in SUBSET Entry /\ e \in Entry /\ e.record \in Records
  BY DEF Entry
<1>2. HeldLog(held, NoPosition, n, e) = new
  <2>1. \A f \in OfOrigin(held, e.origin) : Lacks(f, e) /\ f.epoch = e.epoch
    OBVIOUS
  <2> QED
    BY <1>1, <2>1, HeldLogIs
<1>3. Key(e.record) = Key(SourceRecord(a, e.record.value))
  BY <1>1, SharedKeys
<1>4. \A f \in held : f \in new <=> f = e \/ ~(f.origin = n /\ Key(f.record) = Key(e.record))
  BY DEF After, Outlives, Stays, Purged, Supersedes
<1>5. /\ e \in new /\ new \subseteq held \cup {e}
      /\ \A f \in new : f.origin = n /\ Key(f.record) = Key(e.record) => f = e
  BY DEF After, Outlives
<1> HIDE DEF new
<1>6. OneEntryPerKey(new)
  BY HeldLogKeepsKeys DEF Agrees, new
<1>7. OneRowPerAddress(after)
  BY DEF Agrees, OneRowPerAddress
<1>8. ASSUME NEW o, NEW b, NEW w, b # a
      PROVE  Said(new, o, SourceRecord(b, w)) <=> Said(held, o, SourceRecord(b, w))
  <2>1. Key(SourceRecord(b, w)) # Key(e.record) /\ e.record # SourceRecord(b, w)
    BY <1>1, <1>8, SharedKeys
  <2> QED
    BY <1>4, <1>5, <2>1 DEF Said
<1>9. OwnRows(n, new, after)
  <2> SUFFICES ASSUME NEW b \in Addresses, NEW w \in Envelopes
               PROVE  ([address |-> b, envelope |-> w, steward |-> Local] \in after)
                        <=> Said(new, n, SourceRecord(b, w))
    BY DEF OwnRows
  <2> DEFINE row == [address |-> b, envelope |-> w, steward |-> Local]
  <2>1. CASE b # a
    <3>1. row \in after <=> row \in rows
      BY <2>1
    <3>2. row \in rows <=> Said(held, n, SourceRecord(b, w))
      BY DEF Agrees, OwnRows
    <3> QED
      BY <1>8, <2>1, <3>1, <3>2
  <2>2. CASE b = a
    <3>1. row \in after <=> e.record.kind = "Source" /\ e.record.value = w
      BY <2>2
    <3>2. Said(new, n, SourceRecord(b, w)) <=> e.record = SourceRecord(b, w)
      <4>1. Key(SourceRecord(b, w)) = Key(e.record)
        BY <1>1, <2>2, SharedKeys
      <4> QED
        BY <1>5, <4>1 DEF Said
    <3>3. e.record = SourceRecord(b, w) <=> e.record.kind = "Source" /\ e.record.value = w
      BY <1>1, <2>2, RecordShapes DEF SourceRecord
    <3> QED
      BY <3>1, <3>2, <3>3
  <2> QED
    BY <2>1, <2>2
<1>10. CatalogIsBacked(new, after)
  BY <1>8 DEF Agrees, CatalogIsBacked
<1>11. ASSUME NEW o, NEW r, Key(r) # Key(e.record), Said(held, o, r) PROVE Said(new, o, r)
  BY <1>4, <1>11 DEF Said
<1>12. RosterIsBacked(new, ros)
  <2>1. /\ \A m, v : Key(NodeRecord(m, v)) # Key(e.record)
        /\ \A h, v : Key(HostRecord(h, v)) # Key(e.record)
        /\ \A m, h : Key(StewardshipRecord(m, h)) # Key(e.record)
    BY <1>1, SharedKeys
  <2> QED
    BY <1>11, <2>1 DEF Agrees, RosterIsBacked
<1>13. ASSUME NEW f \in new, SoleWriter(hist, f) PROVE IsShown(f, after, ros)
  <2>1. CASE f = e
    <3>1. e.record.kind = "Source" => own \in after /\ own.address = a /\ own.envelope = e.record.value
      OBVIOUS
    <3> QED
      BY <2>1, <3>1 DEF IsShown
  <2>2. CASE f # e
    <3>1. f \in held /\ f \in Entry /\ f.record \in Records /\ IsShown(f, rows, ros)
      BY <1>1, <1>5, <1>13, <2>2 DEF Agrees, Entry
    <3>2. Key(f.record) # Key(e.record)
      BY <1>5, <1>13, <2>2 DEF SoleWriter
    <3>3. f.record.kind = "Source" => f.record.about # a
      BY <1>3, <3>1, <3>2, SharedKeys
    <3>4. CASE f.record.kind = "Source"
      <4>1. PICK r \in rows : r.address = f.record.about /\ r.envelope = f.record.value
        BY <3>1, <3>4 DEF IsShown
      <4>2. r \in after
        BY <3>3, <3>4, <4>1
      <4> QED
        BY <3>4, <4>1, <4>2 DEF IsShown
    <3>5. CASE f.record.kind # "Source"
      BY <3>1, <3>5 DEF IsShown
    <3> QED
      BY <3>4, <3>5
  <2> QED
    BY <2>1, <2>2
<1> QED
  BY <1>2, <1>6, <1>7, <1>9, <1>10, <1>12, <1>13 DEF Agrees

-----------------------------------------------------------------------------
(* RowInv is inductive *)

\* RowInv is that every store agrees with its log, records are the word of
\* those who may speak them, and own logs are complete.
LEMMA RowsAgree ==
    ASSUME RowInv
    PROVE  \A n \in Nodes : Agrees(n, history, log[n], catalog[n], roster[n])
  BY DEF RowInv, Agrees, OwnRows, OwnRowsAreLogged, Wrote, Said, RowsAreBacked,
         SoleWriterIsMaterialized

\* What the lemmas of the rows show store by store is RowInv.
LEMMA AgreedRows ==
    ASSUME \A n \in Nodes : Agrees(n, history', log'[n], catalog'[n], roster'[n]),
           \A h \in history' : Speaks(h.origin, h.record),
           OwnLogIsComplete'
    PROVE  RowInv'
<1>1. OwnRowsAreLogged'
  BY DEF Agrees, OwnRows, OwnRowsAreLogged, Wrote, Said
<1>2. RowsAreBacked'
  BY DEF Agrees, RowsAreBacked
<1>3. SoleWriterIsMaterialized'
  BY DEF Agrees, SoleWriterIsMaterialized
<1> QED
  BY <1>1, <1>2, <1>3 DEF RowInv, Agrees

\* A step that touches no log, row or epoch.
LEMMA StandingRows ==
    ASSUME RowInv, epoch' = epoch, log' = log, catalog' = catalog, roster' = roster,
           history' = history
    PROVE  RowInv'
<1>1. OwnLogIsComplete'
  BY DEF RowInv, OwnLogIsComplete
<1>2. \A h \in history' : Speaks(h.origin, h.record)
  BY DEF RowInv
<1> QED
  BY <1>1, <1>2, RowsAgree, AgreedRows

\* What a node publishes is not about a source, and its own word.
LEMMA PublishedSpeak ==
    ASSUME NEW n \in Nodes, Write(n)
    PROVE  \/ \E a \in Addresses, v \in Envelopes : UpsertSource(n, a, v)
           \/ \E a \in Addresses : DeleteSource(n, a)
           \/ \E r \in Records : /\ Publish(n, r) /\ Speaks(n, r)
                                 /\ r.kind \notin {"Source", "SourceGone"}
           \/ Rebuild(n)
<1>1. CASE \E v \in Names : PublishNode(n, v)
  <2>1. \A v : Speaks(n, NodeRecord(n, v)) /\ NodeRecord(n, v).kind = "Node"
    BY DEF Speaks, NodeRecord
  <2> QED
    BY <1>1, <2>1, PublishedRecords DEF PublishNode
<1>2. CASE \E h \in Hosts, v \in Names : PublishHost(n, h, v)
  <2>1. \A h, v : Speaks(n, HostRecord(h, v)) /\ HostRecord(h, v).kind = "Host"
    BY DEF Speaks, HostRecord
  <2> QED
    BY <1>2, <2>1, PublishedRecords DEF PublishHost
<1>3. CASE \E h \in Hosts : PublishStewardship(n, h) \/ WithdrawStewardship(n, h)
  <2>1. \A h : /\ Speaks(n, StewardshipRecord(n, h)) /\ StewardshipRecord(n, h).kind = "Stewardship"
               /\ Speaks(n, WithdrawnRecord(n, h))
               /\ WithdrawnRecord(n, h).kind = "StewardshipWithdrawn"
    BY DEF Speaks, StewardshipRecord, WithdrawnRecord
  <2> QED
    BY <1>3, <2>1, PublishedRecords DEF PublishStewardship, WithdrawStewardship
<1>4. CASE \E x \in Expellable : Expel(n, x)
  <2>1. \A x : Speaks(n, ExpulsionRecord(x)) /\ ExpulsionRecord(x).kind = "Expulsion"
    BY DEF Speaks, ExpulsionRecord
  <2> QED
    BY <1>4, <2>1, PublishedRecords DEF Expel
<1> QED
  BY <1>1, <1>2, <1>3, <1>4 DEF Write

\* What logging a record does: a fresh entry on top of the node's own log.
LEMMA LoggedEntry ==
    ASSUME IInv, NEW n \in Nodes, NEW r \in Records, Logged(n, r)
    PROVE  LET g == NextEntry(n, r) IN
           /\ g \in Entry /\ g.origin = n /\ g.epoch = epoch[n] /\ g.record = r
           /\ \A f \in OfOrigin(log[n], n) : Lacks(f, g) /\ f.epoch = g.epoch
           /\ history' = history \cup {g} /\ history' \in SUBSET Entry
           /\ log[n] \subseteq history
           /\ log'[n] = HeldLog(log[n], NoPosition, n, g)
           /\ \A m \in Nodes \ {n} : log'[m] = log[m]
           /\ epoch' = epoch
<1> DEFINE g == NextEntry(n, r)
<1>1. /\ g \in Entry /\ g.origin = n /\ g.epoch = epoch[n] /\ g.seq = mark[n] + 1 /\ g.record = r
      /\ history' \in SUBSET Entry /\ mark[n] \in Nat /\ log \in [Nodes -> Batches]
  BY LoggedTypes DEF NextEntry, IInv, TypeOK
<1>2. log[n] \subseteq history /\ \A f \in log[n] : f.origin = n => f.epoch = epoch[n]
  BY DEF IInv, LogInv, HeldLogs, WellFormed
<1>3. ASSUME NEW f \in OfOrigin(log[n], n) PROVE Lacks(f, g) /\ f.epoch = g.epoch
  <2>1. f \in history /\ f.origin = n /\ f.epoch = epoch[n] /\ f \in Entry
    BY <1>2 DEF OfOrigin, IInv, TypeOK
  <2>2. f.seq <= mark[n] /\ f.seq \in Nat
    BY <2>1 DEF IInv, LogInv, HistoryIsMarked, Entry
  <2> QED
    BY <1>1, <2>1, <2>2 DEF Lacks
<1>4. /\ log' = [log EXCEPT ![n] = HeldLog(@, NoPosition, n, g)]
      /\ history' = history \cup {g} /\ epoch' = epoch
  BY DEF Logged
<1> QED
  BY <1>1, <1>2, <1>3, <1>4

\* A logged entry overtakes what it compacts, so own logs stay complete.
LEMMA LoggedCompletes ==
    ASSUME IInv, OwnLogIsComplete, NEW n \in Nodes, NEW r \in Records, Logged(n, r)
    PROVE  OwnLogIsComplete'
<1> DEFINE g == NextEntry(n, r)
<1>1. /\ g \in Entry /\ g.origin = n /\ g.epoch = epoch[n] /\ g.record = r
      /\ \A f \in OfOrigin(log[n], n) : Lacks(f, g) /\ f.epoch = g.epoch
      /\ history' = history \cup {g} /\ history' \in SUBSET Entry
      /\ log[n] \subseteq history
      /\ log'[n] = HeldLog(log[n], NoPosition, n, g)
      /\ \A m \in Nodes \ {n} : log'[m] = log[m]
      /\ epoch' = epoch
  BY LoggedEntry
<1> HIDE DEF g
<1>2. log[n] \in SUBSET Entry
  BY <1>1
<1>3. log'[n] = After(log[n], NoPosition, n, g)
  BY <1>1, <1>2, HeldLogIs
<1>4. ~Supersedes(NoPosition, g) /\ n \notin Purged(n, g)
  BY DEF Supersedes, Purged
<1> SUFFICES ASSUME NEW h \in history', h.epoch = epoch[h.origin]
             PROVE  \E f \in log'[h.origin] : /\ f.origin = h.origin
                                              /\ Key(f.record) = Key(h.record)
                                              /\ f.seq >= h.seq
  BY <1>1 DEF OwnLogIsComplete
<1>5. CASE h = g
  <2>1. g \in log'[n] /\ g.seq >= g.seq
    BY <1>1, <1>3 DEF After, Entry
  <2> QED
    BY <1>1, <1>5, <2>1
<1>6. CASE h # g
  <2>1. h \in history /\ h.origin \in Nodes /\ h.seq \in Nat
    BY <1>1, <1>6 DEF Entry
  <2>2. PICK f \in log[h.origin] : /\ f.origin = h.origin /\ Key(f.record) = Key(h.record)
                                   /\ f.seq >= h.seq
    BY <2>1 DEF OwnLogIsComplete
  <2>3. CASE h.origin # n
    BY <1>1, <2>1, <2>2, <2>3
  <2>4. CASE h.origin = n /\ Key(f.record) # Key(r)
    <3>1. f \in log'[n]
      BY <1>1, <1>3, <1>4, <2>2, <2>4 DEF After, Outlives, Stays
    <3> QED
      BY <2>2, <2>4, <3>1
  <2>5. CASE h.origin = n /\ Key(f.record) = Key(r)
    <3>1. f \in OfOrigin(log[n], n) /\ f \in Entry
      BY <1>2, <2>2, <2>5 DEF OfOrigin
    <3>2. g.seq >= h.seq
      BY <1>1, <2>1, <2>2, <3>1 DEF Lacks, Entry
    <3>3. g \in log'[n]
      BY <1>3 DEF After
    <3> QED
      BY <1>1, <2>2, <2>5, <3>2, <3>3
  <2> QED
    BY <2>3, <2>4, <2>5
<1> QED
  BY <1>5, <1>6

\* A logged record keeps RowInv if the store it is logged in still agrees.
LEMMA LoggedKeepsRows ==
    ASSUME IInv, RowInv, NEW n \in Nodes, NEW r \in Records, Logged(n, r), Speaks(n, r),
           Agrees(n, history', log'[n], catalog'[n], roster'[n]),
           \A m \in Nodes \ {n} : catalog'[m] = catalog[m] /\ roster'[m] = roster[m]
    PROVE  RowInv'
<1> DEFINE g == NextEntry(n, r)
<1>1. /\ g.origin = n /\ g.record = r /\ history' = history \cup {g}
      /\ \A m \in Nodes \ {n} : log'[m] = log[m]
  BY LoggedEntry
<1>2. \A h \in history' : Speaks(h.origin, h.record)
  BY <1>1 DEF RowInv
<1>3. \A m \in Nodes \ {n} : Agrees(m, history', log'[m], catalog'[m], roster'[m])
  <2> TAKE m \in Nodes \ {n}
  <2>1. Agrees(m, history, log[m], catalog[m], roster[m])
    BY RowsAgree
  <2>2. Agrees(m, history', log[m], catalog[m], roster[m])
    BY <1>1, <2>1, AgreesMoreHistory
  <2> QED
    BY <1>1, <2>2
<1>4. OwnLogIsComplete'
  BY LoggedCompletes DEF RowInv
<1> QED
  BY <1>2, <1>3, <1>4, AgreedRows

\* Publishing a record.
LEMMA PublishKeepsRows ==
    ASSUME IInv, RowInv, NEW n \in Nodes, NEW r \in Records, Publish(n, r), Speaks(n, r),
           r.kind \notin {"Source", "SourceGone"}
    PROVE  RowInv'
<1> DEFINE g == NextEntry(n, r)
<1>1. Logged(n, r)
  BY DEF Publish
<1>2. /\ g \in Entry /\ g.origin = n /\ g.record = r
      /\ \A f \in OfOrigin(log[n], g.origin) : Lacks(f, g) /\ f.epoch = g.epoch
      /\ history' = history \cup {g} /\ history' \in SUBSET Entry
      /\ log[n] \subseteq history /\ log'[n] = HeldLog(log[n], NoPosition, n, g)
  BY <1>1, LoggedEntry
<1>3. /\ catalog' = [catalog EXCEPT ![n] = CatalogAfter(@, NoPosition, n, g)]
      /\ roster' = [roster EXCEPT ![n] = RosterAfter(@, NoPosition, n, g)]
      /\ catalog \in [Nodes -> SUBSET SourceRow] /\ roster \in [Nodes -> Rosters]
  BY DEF Publish, IInv, TypeOK
<1> HIDE DEF g
<1>4. /\ catalog'[n] = CatalogAfter(catalog[n], NoPosition, n, g)
      /\ roster'[n] = RosterAfter(roster[n], NoPosition, n, g)
      /\ catalog[n] \in SUBSET SourceRow /\ roster[n] \in Rosters
      /\ \A m \in Nodes \ {n} : catalog'[m] = catalog[m] /\ roster'[m] = roster[m]
  BY <1>3
<1>5. Agrees(n, history', log[n], catalog[n], roster[n])
  BY <1>2, RowsAgree, AgreesMoreHistory
<1>6. /\ ~Supersedes(NoPosition, g) /\ g \in history' /\ log[n] \in SUBSET history'
      /\ \A h \in history' : Speaks(h.origin, h.record)
  BY <1>2 DEF Supersedes, RowInv
<1>7. Agrees(n, history', log'[n], catalog'[n], roster'[n])
  BY <1>2, <1>4, <1>5, <1>6, LandedAgrees
<1> QED
  BY <1>1, <1>4, <1>7, LoggedKeepsRows

\* A local row and what is logged of it: the catalog a node's own source
\* write leaves.
LEMMA SourceKeepsRows ==
    ASSUME IInv, RowInv, NEW n \in Nodes, NEW r \in Records, Logged(n, r),
           r.kind \in {"Source", "SourceGone"},
           NEW after, catalog' = [catalog EXCEPT ![n] = after], roster' = roster,
           after = {q \in catalog[n] : q.address # r.about}
                     \cup (IF r.kind = "Source"
                           THEN {[address |-> r.about, envelope |-> r.value, steward |-> Local]}
                           ELSE {})
    PROVE  RowInv'
<1> DEFINE g == NextEntry(n, r)
<1>1. /\ g \in Entry /\ g.origin = n /\ g.record = r
      /\ \A f \in OfOrigin(log[n], n) : Lacks(f, g) /\ f.epoch = g.epoch
      /\ history' = history \cup {g} /\ history' \in SUBSET Entry
      /\ log[n] \subseteq history /\ log'[n] = HeldLog(log[n], NoPosition, n, g)
  BY LoggedEntry
<1>2. /\ catalog[n] \in SUBSET SourceRow /\ roster[n] \in Rosters
      /\ catalog'[n] = after /\ \A m \in Nodes \ {n} : catalog'[m] = catalog[m]
  BY DEF IInv, TypeOK
<1> HIDE DEF g
<1>3. Agrees(n, history', log[n], catalog[n], roster[n])
  BY <1>1, RowsAgree, AgreesMoreHistory
<1>4. g \in history' /\ log[n] \in SUBSET history' /\ g.record.kind \in {"Source", "SourceGone"}
  BY <1>1
<1>5. after = {q \in catalog[n] : q.address # g.record.about}
                \cup (IF g.record.kind = "Source"
                      THEN {[address |-> g.record.about, envelope |-> g.record.value,
                             steward |-> Local]}
                      ELSE {})
  BY <1>1
<1>6. Agrees(n, history', HeldLog(log[n], NoPosition, n, g), after, roster[n])
  BY <1>1, <1>2, <1>3, <1>4, <1>5, OwnSourceAgrees
<1>7. Speaks(n, r)
  BY DEF Speaks
<1> QED
  BY <1>1, <1>2, <1>6, <1>7, LoggedKeepsRows

\* Sighting a source: news is logged, anything else leaves the row as it is.
LEMMA UpsertKeepsRows ==
    ASSUME IInv, RowInv, NEW n \in Nodes, NEW a \in Addresses, NEW v \in Envelopes,
           UpsertSource(n, a, v)
    PROVE  RowInv'
<1> DEFINE row   == [address |-> a, envelope |-> v, steward |-> Local]
           after == (catalog[n] \ RowsAt(catalog[n], a)) \cup {row}
<1>1. /\ catalog' = [catalog EXCEPT ![n] = after] /\ roster' = roster
      /\ catalog \in [Nodes -> SUBSET SourceRow] /\ OneRowPerAddress(catalog[n])
  BY DEF UpsertSource, SourceWritten, IInv, TypeOK, RowInv
<1>2. CASE IsNews(catalog[n], a, v)
  <2>1. Logged(n, SourceRecord(a, v)) /\ SourceRecord(a, v) \in Records
    BY <1>2, PublishedRecords DEF UpsertSource
  <2>2. /\ SourceRecord(a, v).kind = "Source" /\ SourceRecord(a, v).about = a
        /\ SourceRecord(a, v).value = v
    BY DEF SourceRecord
  <2>3. after = {q \in catalog[n] : q.address # a} \cup {row}
    BY DEF RowsAt
  <2> HIDE DEF after
  <2> QED
    BY <1>1, <2>1, <2>2, <2>3, SourceKeepsRows
<1>3. CASE ~IsNews(catalog[n], a, v)
  <2>1. PICK q \in catalog[n] : q.address = a /\ q.steward = Local /\ q.envelope = v
    BY <1>3 DEF IsNews, RowsAt
  <2>2. q = row /\ RowsAt(catalog[n], a) = {q}
    BY <1>1, <2>1 DEF RowsAt, OneRowPerAddress, SourceRow
  <2>3. after = catalog[n]
    BY <2>1, <2>2
  <2>4. catalog' = catalog
    BY <1>1, <2>3
  <2>5. epoch' = epoch /\ log' = log /\ history' = history
    BY <1>3 DEF UpsertSource
  <2> QED
    BY <1>1, <2>4, <2>5, StandingRows
<1> QED
  BY <1>2, <1>3

\* Deleting a source of this node.
LEMMA DeleteKeepsRows ==
    ASSUME IInv, RowInv, NEW n \in Nodes, NEW a \in Addresses, DeleteSource(n, a)
    PROVE  RowInv'
<1>1. PICK q \in RowsAt(catalog[n], a) :
         catalog' = [catalog EXCEPT ![n] = @ \ {q}] /\ Logged(n, SourceGoneRecord(a))
  BY DEF DeleteSource
<1>2. roster' = roster /\ SourceGoneRecord(a) \in Records /\ OneRowPerAddress(catalog[n])
  BY PublishedRecords DEF DeleteSource, RowInv
<1>3. SourceGoneRecord(a).kind = "SourceGone" /\ SourceGoneRecord(a).about = a
  BY DEF SourceGoneRecord
<1> DEFINE r     == SourceGoneRecord(a)
           after == catalog[n] \ {q}
<1>4. after = {p \in catalog[n] : p.address # a}
  BY <1>2 DEF RowsAt, OneRowPerAddress
<1>5. catalog' = [catalog EXCEPT ![n] = after] /\ Logged(n, r) /\ r \in Records
      /\ r.kind = "SourceGone" /\ r.about = a
  BY <1>1, <1>2, <1>3
<1> HIDE DEF r, after
<1>6. after = {p \in catalog[n] : p.address # r.about}
                \cup (IF r.kind = "Source"
                      THEN {[address |-> r.about, envelope |-> r.value, steward |-> Local]}
                      ELSE {})
  BY <1>4, <1>5
<1> QED
  BY <1>2, <1>5, <1>6, SourceKeepsRows

\* A rebuilt store: its log and its rows are what its first entry says.
LEMMA RebuildKeepsRows ==
    ASSUME IInv, RowInv, NEW n \in Nodes, Rebuild(n)
    PROVE  RowInv'
<1> DEFINE g == FirstEntry(n, epoch[n] + 1)
<1>1. /\ epoch[n] \in Nat /\ g \in Entry /\ g.origin = n /\ g.epoch = epoch[n] + 1
      /\ g.record = NodeRecord(n, FirstName)
  BY FirstTypes DEF FirstEntry, IInv, TypeOK
<1> HIDE DEF g
<1>2. /\ history' = history \cup {g} /\ log'[n] = {g} /\ catalog'[n] = {}
      /\ roster'[n] = FirstRoster(n) /\ epoch'[n] = epoch[n] + 1
      /\ \A m \in Nodes \ {n} : /\ log'[m] = log[m] /\ catalog'[m] = catalog[m]
                                /\ roster'[m] = roster[m] /\ epoch'[m] = epoch[m]
  BY DEF Rebuild, Rebuilt, IInv, TypeOK, g
<1>3. /\ g.record.kind = "Node" /\ g.record.about = n /\ g.record.value = FirstName
      /\ \A a, v : g.record # SourceRecord(a, v)
  BY <1>1 DEF NodeRecord, SourceRecord
<1>4. \A h \in history' : Speaks(h.origin, h.record)
  BY <1>1, <1>2, <1>3 DEF RowInv, Speaks
<1>5. Agrees(n, history', log'[n], catalog'[n], roster'[n])
  <2>1. /\ roster'[n].nodes = {[node |-> n, name |-> FirstName]}
        /\ roster'[n].hosts = {} /\ roster'[n].stewards = {}
    BY <1>2 DEF FirstRoster, EmptyRoster
  <2>2. RosterIsBacked(log'[n], roster'[n])
    BY <1>1, <1>2, <2>1 DEF RosterIsBacked, Said
  <2>3. OwnRows(n, log'[n], catalog'[n])
    BY <1>2, <1>3 DEF OwnRows, Said
  <2>4. IsShown(g, catalog'[n], roster'[n])
    BY <1>1, <1>3, <2>1 DEF IsShown
  <2> QED
    BY <1>2, <2>2, <2>3, <2>4 DEF Agrees, OneEntryPerKey, OneRowPerAddress, CatalogIsBacked
<1>6. \A m \in Nodes \ {n} : Agrees(m, history', log'[m], catalog'[m], roster'[m])
  <2> TAKE m \in Nodes \ {n}
  <2>1. Agrees(m, history', log[m], catalog[m], roster[m])
    BY <1>2, RowsAgree, AgreesMoreHistory
  <2> QED
    BY <1>2, <2>1
<1>7. OwnLogIsComplete'
  <2> SUFFICES ASSUME NEW h \in history', h.epoch = epoch'[h.origin]
               PROVE  \E f \in log'[h.origin] : /\ f.origin = h.origin
                                                /\ Key(f.record) = Key(h.record)
                                                /\ f.seq >= h.seq
    BY DEF OwnLogIsComplete
  <2>1. h \in Entry /\ h.origin \in Nodes /\ h.seq \in Nat
    BY <1>1, <1>2 DEF IInv, TypeOK, Entry
  <2>2. CASE h = g
    BY <1>1, <1>2, <2>1, <2>2
  <2>3. CASE h # g /\ h.origin = n
    BY <1>1, <1>2, <2>1, <2>3 DEF IInv, LogInv, HistoryIsMarked
  <2>4. CASE h # g /\ h.origin # n
    BY <1>2, <2>1, <2>4 DEF RowInv, OwnLogIsComplete
  <2> QED
    BY <2>2, <2>3, <2>4
<1> QED
  BY <1>4, <1>5, <1>6, <1>7, AgreedRows

\* Holding an entry of a peer.
LEMMA HoldKeepsRows ==
    ASSUME IInv, RowInv, NEW n \in Nodes, HoldEntry(n)
    PROVE  RowInv'
<1>1. PICK e \in tx[n].rest :
        LET known == tx[n].positions[e.origin] IN
        /\ e.origin # n
        /\ Lacks(known, e)
        /\ log' = [log EXCEPT ![n] = HeldLog(@, known, n, e)]
        /\ catalog' = [catalog EXCEPT ![n] = CatalogAfter(@, known, n, e)]
        /\ roster' = [roster EXCEPT ![n] = RosterAfter(@, known, n, e)]
  BY DEF HoldEntry
<1> DEFINE known == tx[n].positions[e.origin]
<1>2. epoch' = epoch /\ history' = history
  BY DEF HoldEntry
<1>3. /\ LandsHonestly(history, n, tx[n], log[n]) /\ tx[n].by # Nobody /\ tx[n] \in Landings
  BY <1>1, LandingIsOwned
<1>4. /\ history \in SUBSET Entry /\ log[n] \in SUBSET history
      /\ \A h \in history : h.epoch > 0
      /\ catalog[n] \in SUBSET SourceRow /\ roster[n] \in Rosters
      /\ catalog \in [Nodes -> SUBSET SourceRow] /\ roster \in [Nodes -> Rosters]
      /\ log \in [Nodes -> Batches]
  BY DEF IInv, TypeOK, LogInv, HistoryIsMarked, HeldLogs, WellFormed
<1>5. e \in history /\ e \in Entry /\ e.origin \in Nodes /\ known \in Positions
  BY <1>1, <1>3, <1>4 DEF LandsHonestly, Landings, Vectors, Entry
<1>6. \A f \in OfOrigin(log[n], e.origin) : Covers(known, f) /\ f.epoch > 0
  BY <1>1, <1>3, <1>4, <1>5 DEF LandsHonestly, PositionsKept, OfOrigin
<1>7. Lacks(known, e) /\ e.origin # n
  BY <1>1
<1>8. /\ log'[n] = HeldLog(log[n], known, n, e)
      /\ catalog'[n] = CatalogAfter(catalog[n], known, n, e)
      /\ roster'[n] = RosterAfter(roster[n], known, n, e)
      /\ \A m \in Nodes \ {n} : log'[m] = log[m] /\ catalog'[m] = catalog[m]
                                /\ roster'[m] = roster[m]
  BY <1>1, <1>4
<1> HIDE DEF known
<1>9. /\ \A f \in OfOrigin(log[n], e.origin) : Lacks(f, e)
      /\ Supersedes(known, e) \/ \A f \in OfOrigin(log[n], e.origin) : f.epoch = e.epoch
  <2>1. log[n] \in SUBSET Entry
    BY <1>4
  <2> QED
    BY <1>5, <1>6, <1>7, <2>1, PastHeld
<1>10. \A h \in history : Speaks(h.origin, h.record)
  BY DEF RowInv
<1>11. Agrees(n, history, log'[n], catalog'[n], roster'[n])
  BY <1>4, <1>5, <1>7, <1>8, <1>9, <1>10, RowsAgree, LandedAgrees
<1>12. \A m \in Nodes : Agrees(m, history', log'[m], catalog'[m], roster'[m])
  BY <1>2, <1>8, <1>11, RowsAgree
<1>13. OwnLogIsComplete'
  <2>1. \A f \in log[n] : f.origin = n => f \in log'[n]
    <3>1. log[n] \in SUBSET Entry
      BY <1>4
    <3>2. log'[n] = After(log[n], known, n, e)
      BY <1>5, <1>8, <1>9, <3>1, HeldLogIs
    <3>3. n \notin Purged(n, e)
      BY DEF Purged
    <3> QED
      BY <1>7, <3>2, <3>3 DEF After, Outlives, Stays
  <2>2. \A m \in Nodes : \A f \in log[m] : f.origin = m => f \in log'[m]
    BY <1>8, <2>1
  <2>3. \A h \in history : h.origin \in Nodes
    BY <1>4 DEF Entry
  <2> QED
    BY <1>2, <2>2, <2>3 DEF RowInv, OwnLogIsComplete
<1> QED
  BY <1>2, <1>10, <1>12, <1>13, AgreedRows

\* A new store agrees with its first entry.
LEMMA InitRows == Init => RowInv
<1> SUFFICES ASSUME Init PROVE RowInv
  OBVIOUS
<1>1. \A n \in Nodes : /\ FirstEntry(n, 1).origin = n
                       /\ FirstEntry(n, 1).epoch = 1 /\ FirstEntry(n, 1).seq = 1
                       /\ FirstEntry(n, 1).record = NodeRecord(n, FirstName)
  BY DEF FirstEntry
<1>2. /\ history = {FirstEntry(n, 1) : n \in Nodes}
      /\ \A n \in Nodes : /\ epoch[n] = 1 /\ log[n] = {FirstEntry(n, 1)}
                          /\ catalog[n] = {} /\ roster[n] = FirstRoster(n)
  BY DEF Init
<1>3. \A n : /\ NodeRecord(n, FirstName).kind = "Node" /\ NodeRecord(n, FirstName).about = n
             /\ NodeRecord(n, FirstName).value = FirstName
             /\ \A a, v : NodeRecord(n, FirstName) # SourceRecord(a, v)
  BY DEF NodeRecord, SourceRecord
<1>4. \A n : /\ FirstRoster(n).nodes = {[node |-> n, name |-> FirstName]}
             /\ FirstRoster(n).hosts = {} /\ FirstRoster(n).stewards = {}
  BY DEF FirstRoster, EmptyRoster
<1>5. \A n \in Nodes : OneEntryPerKey(log[n]) /\ OneRowPerAddress(catalog[n])
  BY <1>2 DEF OneEntryPerKey, OneRowPerAddress
<1>6. \A h \in history : Speaks(h.origin, h.record)
  BY <1>1, <1>2, <1>3 DEF Speaks
<1>7. OwnLogIsComplete
  BY <1>1, <1>2 DEF OwnLogIsComplete
<1>8. OwnRowsAreLogged
  BY <1>1, <1>2, <1>3 DEF OwnRowsAreLogged, Wrote
<1>9. RowsAreBacked
  BY <1>1, <1>2, <1>4 DEF RowsAreBacked, CatalogIsBacked, RosterIsBacked, Said
<1>10. SoleWriterIsMaterialized
  BY <1>1, <1>2, <1>3, <1>4 DEF SoleWriterIsMaterialized, IsShown
<1> QED
  BY <1>5, <1>6, <1>7, <1>8, <1>9, <1>10 DEF RowInv

\* Every step keeps RowInv, given what is known of logs.
LEMMA NextRows == IInv /\ RowInv /\ [Next]_vars => RowInv'
<1> SUFFICES ASSUME IInv, RowInv, [Next]_vars PROVE RowInv'
  OBVIOUS
<1>1. ASSUME NEW n \in Nodes, Write(n) PROVE RowInv'
  BY <1>1, PublishedSpeak, UpsertKeepsRows, DeleteKeepsRows, PublishKeepsRows, RebuildKeepsRows
<1>2. ASSUME NEW n \in Nodes, Land(n) PROVE RowInv'
  <2>1. CASE SkipEntry(n) \/ Commit(n) \/ InsertEntry(n) \/ PurgeEntries(n)
    <3>1. epoch' = epoch /\ log' = log /\ catalog' = catalog /\ roster' = roster
          /\ history' = history
      BY <2>1 DEF SkipEntry, Commit, InsertEntry, PurgeEntries, storeVars
    <3> QED
      BY <3>1, StandingRows
  <2> QED
    BY <1>2, <2>1, HoldKeepsRows DEF Land
<1>3. CASE \/ \E i \in Exchanges : \/ \E n, p \in Nodes : StartExchange(i, n, p)
                                   \/ Proceed(i) \/ BeginServe(i) \/ BeginMerge(i) \/ Abandon(i)
           \/ ServeLate \/ LoseLate \/ UNCHANGED vars
  <2>1. epoch' = epoch /\ catalog' = catalog /\ roster' = roster
    BY ZenonT(40), <1>3, RowsStand
  <2>2. log' = log /\ history' = history
    BY <1>3 DEF StartExchange, Proceed, SendRequest, ReadVector, ReadLog, Finish, NextRound,
         BeginServe, BeginMerge, Abandon, ServeLate, LoseLate, vars, storeVars
  <2> QED
    BY <2>1, <2>2, StandingRows
<1> QED
  BY <1>1, <1>2, <1>3 DEF Next

\* Every row a node shows is backed by an entry of its log, its own rows are
\* all logged, and what one peer alone wrote is shown by whoever holds it:
\* for any nodes, writes, batches and overlapping exchanges.
THEOREM RowsAreSound == Spec => [](IInv /\ RowInv)
<1>1. Init => IInv /\ RowInv
  BY InitInv, InitRows
<1>2. (IInv /\ RowInv) /\ [Next]_vars => (IInv /\ RowInv)'
  BY NextInv, NextRows
<1> QED
  BY <1>1, <1>2, PTL DEF Spec

\* Every row a node shows of a peer is the last word of a log it holds: none
\* outlives its entry through compaction, tombstones, withdrawals,
\* takeovers, superseded epochs, purges and rebuilds, in whatever order the
\* logs of the origins arrive.
THEOREM PeerRowsAreBacked == Spec => []RowsAreBacked
<1>1. RowInv => RowsAreBacked
  BY DEF RowInv
<1> QED
  BY <1>1, RowsAreSound, PTL

\* The local half of the catalog and the node's own log say the same: a
\* takeover of a peer's row is always logged, and no landing comes between.
THEOREM OwnRowsAreAlwaysLogged == Spec => []OwnRowsAreLogged
<1>1. RowInv => OwnRowsAreLogged
  BY DEF RowInv
<1> QED
  BY <1>1, RowsAreSound, PTL

\* What a node holds of a key only one node ever wrote is in its rows.
THEOREM SoleWritersAreShown == Spec => []SoleWriterIsMaterialized
<1>1. RowInv => SoleWriterIsMaterialized
  BY DEF RowInv
<1> QED
  BY <1>1, RowsAreSound, PTL

-----------------------------------------------------------------------------
(* What a vector that has caught up says *)

\* A node that caught up with an origin holds its log and nothing else: what
\* it lacks the origin compacted, and what the origin compacted it did too.
LEMMA CaughtUp == IInv /\ RowInv => CaughtUpIsEqual
<1> SUFFICES ASSUME IInv, RowInv, NEW n \in Nodes, NEW o \in Nodes,
                    o \notin EverExpelled(history),
                    HeldPosition(log[n], o) = [epoch |-> epoch[o], seq |-> mark[o]]
             PROVE  OfOrigin(log[n], o) = OfOrigin(log[o], o)
  BY DEF CaughtUpIsEqual
<1> DEFINE mine == OfOrigin(log[n], o)
           its  == OfOrigin(log[o], o)
<1>1. /\ history \in SUBSET Entry /\ epoch[o] \in Nat /\ mark[o] \in Nat
      /\ WellFormed(history, log[n]) /\ WellFormed(history, log[o])
      /\ Honest(history, log[n]) /\ Honest(history, log[o])
      /\ OneEntryPerKey(log[n]) /\ OneEntryPerKey(log[o])
  BY DEF IInv, TypeOK, LogInv, HeldLogs, LogsAreHonest, RowInv
<1>2. /\ mine \subseteq history /\ its \subseteq history
      /\ \A f \in mine \cup its : f \in Entry /\ f.origin = o
  BY <1>1 DEF OfOrigin, WellFormed
<1>3. \A f \in mine \cup its : f.epoch = epoch[o] /\ f.seq <= mark[o]
  <2>1. \A f \in mine : Covers(HeldPosition(log[n], o), f)
    BY <1>1, PositionCovers
  <2>2. HeldPosition(log[o], o) = [epoch |-> epoch[o], seq |-> mark[o]]
    BY OwnPosition
  <2>3. \A f \in its : Covers(HeldPosition(log[o], o), f)
    BY <1>1, PositionCovers
  <2> QED
    BY <2>1, <2>2, <2>3 DEF Covers
<1>4. ASSUME NEW f \in its PROVE f \in mine
  <2>1. f \in history /\ f.origin = o /\ Covers(HeldPosition(log[n], f.origin), f)
    BY <1>2, <1>3 DEF Covers
  <2>2. f \in log[n] \/ Superseded(history, f)
    BY <1>1, <2>1 DEF Honest
  <2>3. ~Superseded(history, f)
    <3> SUFFICES ASSUME NEW g \in history, g.origin = o, g.epoch = epoch[o],
                        Key(f.record) = Key(g.record), g.seq > f.seq
                 PROVE  FALSE
      BY <1>2, <1>3 DEF Superseded
    <3>1. PICK h \in log[o] : h.origin = o /\ Key(h.record) = Key(g.record) /\ h.seq >= g.seq
      BY DEF RowInv, OwnLogIsComplete
    <3>2. h = f
      BY <1>1, <1>2, <3>1 DEF OneEntryPerKey, OfOrigin
    <3> QED
      BY <1>1, <1>2, <3>1, <3>2 DEF Entry
  <2> QED
    BY <2>1, <2>2, <2>3 DEF OfOrigin
<1>5. ASSUME NEW e \in mine PROVE e \in its
  <2>1. e \in history /\ e.origin = o /\ e.epoch = epoch[o] /\ e \in log[n]
    BY <1>2, <1>3 DEF OfOrigin
  <2>2. PICK h \in log[o] : h.origin = o /\ Key(h.record) = Key(e.record) /\ h.seq >= e.seq
    BY <2>1 DEF RowInv, OwnLogIsComplete
  <2>3. h \in its /\ h \in mine
    BY <1>4, <2>2 DEF OfOrigin
  <2>4. h = e
    BY <1>1, <2>1, <2>2, <2>3 DEF OneEntryPerKey, OfOrigin
  <2> QED
    BY <2>3, <2>4
<1> QED
  BY <1>4, <1>5

\* Equal positions are equal logs: a node whose vector reached an origin's
\* high-water mark holds that origin's log exactly.
THEOREM CaughtUpLogsAreEqual == Spec => []CaughtUpIsEqual
  BY CaughtUp, RowsAreSound, PTL

-----------------------------------------------------------------------------
(* Positions move forward *)

Grown(was, now) == was = now \/ Lacks(was, now)

\* Appending an entry past everything held of its origin moves the position
\* of that origin forward and no other one, except those it purges.
LEMMA AppendedPosition ==
    ASSUME NEW hist \in SUBSET Entry, NEW held, WellFormed(hist, held),
           NEW e \in Entry, e.epoch > 0, NEW known, NEW local,
           \A f \in OfOrigin(held, e.origin) : Lacks(f, e),
           Supersedes(known, e) \/ \A f \in OfOrigin(held, e.origin) : f.epoch = e.epoch,
           NEW o \in Nodes, o \notin Purged(local, e)
    PROVE  Grown(HeldPosition(held, o), HeldPosition(HeldLog(held, known, local, e), o))
<1> DEFINE new == HeldLog(held, known, local, e)
<1>1. held \in SUBSET Entry /\ held \in SUBSET hist
  BY DEF WellFormed
<1>2. new = After(held, known, local, e)
  BY <1>1, HeldLogIs
<1> HIDE DEF new
<1>3. new \in SUBSET Entry
  BY <1>1, <1>2 DEF After
<1>4. CASE o # e.origin
  <2>1. OfOrigin(new, o) = OfOrigin(held, o)
    BY <1>2, <1>4 DEF OfOrigin, After, Outlives, Stays
  <2> QED
    BY <2>1, SameOriginSamePosition DEF Grown, new
<1>5. CASE o = e.origin
  <2>1. e \in OfOrigin(new, o)
    BY <1>2, <1>5 DEF OfOrigin, After
  <2>2. \A f \in OfOrigin(new, o) : ~Lacks(e, f)
    <3> SUFFICES ASSUME NEW f \in OfOrigin(new, o) PROVE ~Lacks(e, f)
      OBVIOUS
    <3>1. f = e \/ f \in OfOrigin(held, e.origin)
      BY <1>2, <1>5 DEF OfOrigin, After
    <3>2. f \in Entry
      BY <1>3 DEF OfOrigin
    <3> QED
      BY <3>1, <3>2 DEF Lacks, Entry
  <2>3. HeldPosition(new, o) = [epoch |-> e.epoch, seq |-> e.seq]
    BY <1>3, <2>1, <2>2, TopIsHeldPosition
  <2>4. CASE OfOrigin(held, o) = {}
    <3>1. HeldPosition(held, o) = NoPosition
      BY <2>4 DEF HeldPosition
    <3> QED
      BY <2>3, <3>1 DEF Grown, Lacks, NoPosition, Entry, new
  <2>5. CASE OfOrigin(held, o) # {}
    <3>1. PICK t \in OfOrigin(held, o) : HeldPosition(held, o) = [epoch |-> t.epoch, seq |-> t.seq]
      BY <1>1, <2>5, HeldPositionIsTop DEF WellFormed
    <3>2. Lacks(t, e)
      BY <1>5, <3>1
    <3> QED
      BY <2>3, <3>1, <3>2 DEF Grown, Lacks, new
  <2> QED
    BY <2>4, <2>5
<1> QED
  BY <1>4, <1>5

\* A logged record moves the node's own position on.
LEMMA LoggedPosition ==
    ASSUME IInv, NEW n \in Nodes, NEW r \in Records, Logged(n, r), NEW m \in Nodes, NEW o \in Nodes,
           m = n => o \notin Purged(n, NextEntry(n, r))
    PROVE  Grown(HeldPosition(log[m], o), HeldPosition(log'[m], o))
<1> DEFINE g == NextEntry(n, r)
<1>1. /\ g \in Entry /\ g.origin = n /\ g.epoch = epoch[n]
      /\ \A f \in OfOrigin(log[n], n) : Lacks(f, g) /\ f.epoch = g.epoch
      /\ log'[n] = HeldLog(log[n], NoPosition, n, g)
      /\ \A k \in Nodes \ {n} : log'[k] = log[k]
  BY LoggedEntry
<1> HIDE DEF g
<1>2. CASE m # n
  BY <1>1, <1>2 DEF Grown
<1>3. CASE m = n
  <2>1. history \in SUBSET Entry /\ WellFormed(history, log[n])
    BY DEF IInv, TypeOK, LogInv, HeldLogs
  <2>2. g.epoch > 0
    <3>1. \E f \in log[n] : f \in history /\ f.origin = n /\ f.epoch = epoch[n]
      BY DEF IInv, LogInv, HeldLogs, WellFormed
    <3> QED
      BY <1>1, <3>1 DEF IInv, LogInv, HistoryIsMarked
  <2>3. o \notin Purged(n, g)
    BY <1>3 DEF g
  <2> QED
    BY <1>1, <1>3, <2>1, <2>2, <2>3, AppendedPosition
<1> QED
  BY <1>2, <1>3

\* Whom an entry purges the roster knows expelled from then on.
LEMMA PurgedAreKnown ==
    ASSUME NEW ros \in Rosters, NEW known, NEW local, NEW e \in Entry
    PROVE  Purged(local, e) \subseteq RosterAfter(ros, known, local, e).expelled
<1>1. e.record.kind = "Expulsion" => Speaks(e.origin, e.record)
  BY DEF Speaks
<1> QED
  BY <1>1, RosterAfterIs DEF Purged

\* A position lacks what every entry held of the origin lacks.
LEMMA PositionLacks ==
    ASSUME NEW hist \in SUBSET Entry, NEW held, WellFormed(hist, held), NEW o \in Nodes,
           NEW e \in Entry, e.epoch > 0, \A f \in OfOrigin(held, o) : Lacks(f, e)
    PROVE  Lacks(HeldPosition(held, o), e)
<1>1. CASE OfOrigin(held, o) = {}
  BY <1>1 DEF HeldPosition, Lacks, NoPosition, Entry
<1>2. CASE OfOrigin(held, o) # {}
  <2>1. held \in SUBSET Entry
    BY DEF WellFormed
  <2>2. PICK t \in OfOrigin(held, o) : HeldPosition(held, o) = [epoch |-> t.epoch, seq |-> t.seq]
    BY <1>2, <2>1, HeldPositionIsTop DEF WellFormed
  <2> QED
    BY <2>2 DEF Lacks
<1> QED
  BY <1>1, <1>2

\* What a purge is about to take of a node's rows it knows expelled.
PurgesAreKnown ==
    \A n, o \in Nodes :
        OfOrigin(log[n], o) = {} /\ OfOrigin(table[n], o) # {} => o \in roster[n].expelled

\* What a held entry purges is all it takes of the other origins.
LEMMA OthersArePurged ==
    ASSUME NEW held, NEW known, NEW local, NEW e, NEW o, o # e.origin, o \notin Purged(local, e)
    PROVE  OfOrigin(HeldLog(held, known, local, e), o) = OfOrigin(held, o)
  BY DEF HeldLog, Appended, Compacted, PurgedLog, OfOrigin

\* What version_vector reports of one origin in the course of a step.
Reported(n, o) ==
    LET was == HeldPosition(table[n], o)
        now == HeldPosition(table'[n], o)
    IN  \/ was = now
        \/ Lacks(was, now)
        \/ /\ Written(n)
           /\ \E e \in log'[n] \ table'[n] : e.origin = o /\ Lacks(was, e)

\* A write to the local log.
LEMMA LoggedReports ==
    ASSUME IInv, IInv', NEW n \in Nodes, NEW r \in Records, WriteFree(n), Logged(n, r),
           NEW m \in Nodes, NEW o \in Nodes, m = n => o \notin Purged(n, NextEntry(n, r))
    PROVE  /\ Reported(m, o)
           /\ OfOrigin(log'[m], o) = {} /\ OfOrigin(table'[m], o) # {}
                => OfOrigin(log[m], o) = {} /\ OfOrigin(table[m], o) # {}
<1> DEFINE g == NextEntry(n, r)
<1>1. /\ \A f \in OfOrigin(table[n], n) : Lacks(f, g)
      /\ OfOrigin(table'[n], n) = OfOrigin(log'[n], n) \/ g \in log'[n] \ table'[n]
      /\ \A x \in Nodes \ {n} : OfOrigin(table'[n], x) = OfOrigin(table[n], x)
  BY LoggedTables DEF IInv
<1>2. /\ g \in Entry /\ g.origin = n /\ history' = history \cup {g}
      /\ log'[n] = HeldLog(log[n], NoPosition, n, g) /\ g \in history'
      /\ \A k \in Nodes \ {n} : log'[k] = log[k]
  BY LoggedEntry
<1>3. /\ table[n] = log[n] /\ \A k \in Nodes \ {n} : table'[k] = table[k]
      /\ history \in SUBSET Entry /\ WellFormed(history, table[n])
  BY DEF Logged, WriteFree, Written, IInv, TypeOK, LogInv, HeldLogs
<1>4. Written(n)
  BY DEF WriteFree
<1>5. g.epoch > 0
  BY <1>2 DEF IInv, LogInv, HistoryIsMarked
<1>6. m = n => o \notin Purged(n, g)
  OBVIOUS
<1>7. m = n => Grown(HeldPosition(log[m], o), HeldPosition(log'[m], o))
  BY LoggedPosition
<1> HIDE DEF g
<1>8. CASE m # n
  BY <1>2, <1>3, <1>8 DEF Reported
<1>9. CASE m = n /\ o # n
  <2>1. OfOrigin(table'[m], o) = OfOrigin(table[m], o)
    BY <1>1, <1>9
  <2>2. HeldPosition(table[m], o) = HeldPosition(table'[m], o)
    BY <2>1, SameOriginSamePosition
  <2>3. OfOrigin(log'[m], o) = OfOrigin(log[m], o)
    BY <1>2, <1>6, <1>9, OthersArePurged
  <2> QED
    BY <2>1, <2>2, <2>3 DEF Reported
<1>10. CASE m = n /\ o = n
  <2>1. OfOrigin(log'[n], n) # {}
    BY DEF IInv, LogInv, HeldLogs, OfOrigin
  <2>2. CASE OfOrigin(table'[n], n) = OfOrigin(log'[n], n)
    <3>1. HeldPosition(table'[n], n) = HeldPosition(log'[n], n)
      BY <2>2, SameOriginSamePosition
    <3> QED
      BY <1>3, <1>7, <1>10, <2>1, <3>1 DEF Reported, Grown
  <2>3. CASE g \in log'[n] \ table'[n]
    <3>1. Lacks(HeldPosition(table[n], n), g)
      BY <1>1, <1>2, <1>3, <1>5, PositionLacks
    <3> QED
      BY <1>2, <1>4, <1>10, <2>1, <2>3, <3>1 DEF Reported
  <2> QED
    BY <1>1, <2>2, <2>3
<1> QED
  BY <1>8, <1>9, <1>10

\* The entry of a landing batch.
LEMMA HoldReports ==
    ASSUME IInv, IInv', NEW n \in Nodes, HoldEntry(n), NEW m \in Nodes, NEW o \in Nodes,
           o \notin roster'[m].expelled
    PROVE  /\ Reported(m, o)
           /\ OfOrigin(log'[m], o) = {} /\ OfOrigin(table'[m], o) # {}
                => OfOrigin(log[m], o) = {} /\ OfOrigin(table[m], o) # {}
<1>1. PICK e \in tx[n].rest :
        LET known == tx[n].positions[e.origin] IN
        /\ Written(n) /\ IsFirst(e, tx[n].rest) /\ e.origin # n /\ Lacks(known, e)
        /\ log' = [log EXCEPT ![n] = HeldLog(@, known, n, e)]
        /\ table' = [table EXCEPT ![n] = Begun(@, known, e)]
        /\ roster' = [roster EXCEPT ![n] = RosterAfter(@, known, n, e)]
  BY DEF HoldEntry
<1> DEFINE known == tx[n].positions[e.origin]
<1>2. history' = history /\ table[n] = log[n] /\ Written(n)
  BY <1>1 DEF HoldEntry, Written
<1>3. /\ e \in Entry
      /\ \A f \in OfOrigin(table[n], e.origin) : Lacks(f, e)
      /\ OfOrigin(table'[n], e.origin) = OfOrigin(log'[n], e.origin) \/ e \in log'[n] \ table'[n]
      /\ \A x \in Nodes \ {e.origin} : OfOrigin(table'[n], x) = OfOrigin(table[n], x)
  BY <1>1, <1>2, HoldTables DEF IInv
<1>4. /\ e \in history /\ e.epoch > 0 /\ e.origin \in Nodes
      /\ Supersedes(known, e) \/ \A f \in OfOrigin(log[n], e.origin) : f.epoch = e.epoch
  <2>1. /\ e \in history
        /\ Supersedes(known, e) \/ \A f \in OfOrigin(log[n], e.origin) : f.epoch = e.epoch
    BY <1>1, LandsInOrder
  <2> QED
    BY <1>3, <2>1 DEF IInv, LogInv, HistoryIsMarked, Entry
<1>5. /\ log \in [Nodes -> Batches] /\ table \in [Nodes -> Batches] /\ roster \in [Nodes -> Rosters]
      /\ history \in SUBSET Entry /\ WellFormed(history, log[n])
  BY DEF IInv, TypeOK, LogInv, HeldLogs
<1>6. /\ log'[n] = HeldLog(log[n], known, n, e) /\ roster'[n] = RosterAfter(roster[n], known, n, e)
      /\ \A k \in Nodes \ {n} : log'[k] = log[k] /\ table'[k] = table[k]
  BY <1>1, <1>5
<1> HIDE DEF known
<1>7. CASE m # n
  BY <1>6, <1>7 DEF Reported
<1>8. CASE m = n
  <2>1. o \notin Purged(n, e)
    BY <1>3, <1>5, <1>6, <1>8, PurgedAreKnown
  <2>2. Grown(HeldPosition(log[n], o), HeldPosition(log'[n], o))
    BY <1>2, <1>3, <1>4, <1>5, <1>6, <2>1, AppendedPosition
  <2>3. CASE o # e.origin
    <3>1. OfOrigin(table'[n], o) = OfOrigin(table[n], o)
      BY <1>3, <2>3
    <3>2. HeldPosition(table[n], o) = HeldPosition(table'[n], o)
      BY <3>1, SameOriginSamePosition
    <3>3. OfOrigin(log'[n], o) = OfOrigin(log[n], o)
      BY <1>6, <2>1, <2>3, OthersArePurged
    <3> QED
      BY <1>8, <3>1, <3>2, <3>3 DEF Reported
  <2>4. CASE o = e.origin
    <3>1. e \in OfOrigin(log'[n], o)
      BY <1>6, <2>1, <2>4 DEF HeldLog, Appended, OfOrigin
    <3>2. CASE OfOrigin(table'[n], o) = OfOrigin(log'[n], o)
      <4>1. HeldPosition(table'[n], o) = HeldPosition(log'[n], o)
        BY <3>2, SameOriginSamePosition
      <4> QED
        BY <1>2, <1>8, <2>2, <3>1, <4>1 DEF Reported, Grown
    <3>3. CASE e \in log'[n] \ table'[n]
      <4>1. Lacks(HeldPosition(table[n], o), e)
        BY <1>2, <1>3, <1>4, <1>5, <2>4, PositionLacks
      <4> QED
        BY <1>2, <1>8, <2>4, <3>1, <3>3, <4>1 DEF Reported
    <3> QED
      BY <1>3, <2>4, <3>2, <3>3
  <2> QED
    BY <2>3, <2>4
<1> QED
  BY <1>7, <1>8

\* The INSERT of a write gives back what its DELETE took, and more.
LEMMA FinishReports ==
    ASSUME IInv, PurgesAreKnown, NEW n \in Nodes, InsertEntry(n) \/ PurgeEntries(n),
           NEW m \in Nodes, NEW o \in Nodes, o \notin roster[m].expelled
    PROVE  /\ Reported(m, o)
           /\ OfOrigin(log'[m], o) = {} /\ OfOrigin(table'[m], o) # {}
                => OfOrigin(log[m], o) = {} /\ OfOrigin(table[m], o) # {}
<1>1. /\ log' = log
      /\ \/ OfOrigin(table'[n], o) = OfOrigin(log[n], o)
         \/ OfOrigin(table'[n], o) = OfOrigin(table[n], o)
      /\ \A k \in Nodes \ {n} : table'[k] = table[k]
  BY FinishedTables
<1>2. /\ history \in SUBSET Entry /\ \A h \in history : h.epoch > 0
      /\ WellFormed(history, log[n]) /\ RowsFollow(history, log[n], table[n])
      /\ WellFormed(history, table[n])
  BY DEF IInv, TypeOK, LogInv, HeldLogs, HistoryIsMarked, TablesFollow, RowsFollow
<1>3. CASE m # n
  BY <1>1, <1>3 DEF Reported
<1>4. CASE m = n /\ OfOrigin(table'[n], o) = OfOrigin(table[n], o)
  <2>1. HeldPosition(table[n], o) = HeldPosition(table'[n], o)
    BY <1>4, SameOriginSamePosition
  <2> QED
    BY <1>1, <1>4, <2>1 DEF Reported
<1>5. CASE m = n /\ OfOrigin(table'[n], o) = OfOrigin(log[n], o)
  <2>1. HeldPosition(table'[n], o) = HeldPosition(log[n], o)
    BY <1>5, SameOriginSamePosition
  <2>2. CASE OfOrigin(table[n], o) = OfOrigin(log[n], o)
    <3>1. HeldPosition(table[n], o) = HeldPosition(log[n], o)
      BY <2>2, SameOriginSamePosition
    <3> QED
      BY <1>1, <1>5, <2>1, <3>1 DEF Reported
  <2>3. ASSUME NEW e \in OfOrigin(log[n], o), OfOrigin(table[n], o) = OfOrigin(log[n], o) \ {e},
               \A f \in OfOrigin(table[n], o) : Lacks(f, e)
        PROVE  Reported(n, o)
    <3>1. /\ e \in Entry /\ e.epoch > 0 /\ log[n] \in SUBSET Entry
          /\ \A f \in OfOrigin(table[n], o) : f \in Entry
      BY <1>2 DEF OfOrigin, WellFormed
    <3>2. Lacks(HeldPosition(table[n], o), e)
      BY <1>2, <2>3, <3>1, PositionLacks
    <3>3. \A f \in OfOrigin(log[n], o) : ~Lacks(e, f)
      BY <2>3, <3>1 DEF Lacks, Entry
    <3>4. HeldPosition(log[n], o) = [epoch |-> e.epoch, seq |-> e.seq]
      BY <3>1, <3>3, TopIsHeldPosition
    <3>5. Lacks(HeldPosition(table[n], o), HeldPosition(table'[n], o))
      BY <2>1, <3>2, <3>4 DEF Lacks
    <3> QED
      BY <3>5 DEF Reported
  <2>4. CASE OfOrigin(log[n], o) = {} /\ OfOrigin(table[n], o) # {}
    BY <1>5, <2>4 DEF PurgesAreKnown
  <2>5. Reported(n, o)
    BY <1>2, <1>5, <2>2, <2>3, <2>4 DEF RowsFollow
  <2> QED
    BY <1>1, <1>5, <2>5
<1> QED
  BY <1>1, <1>3, <1>4, <1>5

\* What a step of a store that lives on reports, and what it leaves to purge.
LEMMA StepReports ==
    ASSUME IInv, PurgesAreKnown, [Next]_vars, NEW n \in Nodes, NEW o \in Nodes,
           epoch'[n] = epoch[n], o \notin roster'[n].expelled
    PROVE  /\ Reported(n, o)
           /\ OfOrigin(log'[n], o) = {} /\ OfOrigin(table'[n], o) # {}
                => OfOrigin(log[n], o) = {} /\ OfOrigin(table[n], o) # {}
<1> DEFINE Goal == /\ Reported(n, o)
                   /\ OfOrigin(log'[n], o) = {} /\ OfOrigin(table'[n], o) # {}
                        => OfOrigin(log[n], o) = {} /\ OfOrigin(table[n], o) # {}
<1>1. /\ IInv'
      /\ log \in [Nodes -> Batches] /\ table \in [Nodes -> Batches]
      /\ roster \in [Nodes -> Rosters] /\ epoch \in [Nodes -> Nat]
  BY NextInv DEF IInv, TypeOK
<1>2. CASE log'[n] = log[n] /\ table'[n] = table[n]
  BY <1>2 DEF Reported
<1> HIDE DEF Goal
<1>3. ASSUME NEW m \in Nodes, Write(m)
      PROVE  Goal
  <2>1. ASSUME NEW r \in Records, WriteFree(m), Logged(m, r), r.kind # "Expulsion"
        PROVE  Goal
    <3>1. Purged(m, NextEntry(m, r)) = {}
      BY <2>1 DEF Purged, NextEntry
    <3> QED
      BY <1>1, <2>1, <3>1, LoggedReports DEF Goal
  <2>2. ASSUME NEW a \in Addresses, NEW v \in Envelopes, UpsertSource(m, a, v)
        PROVE  Goal
    <3>1. (log' = log /\ table' = table) \/ (WriteFree(m) /\ Logged(m, SourceRecord(a, v)))
      BY <2>2 DEF UpsertSource
    <3>2. SourceRecord(a, v) \in Records /\ SourceRecord(a, v).kind # "Expulsion"
      BY PublishedRecords DEF SourceRecord
    <3> QED
      BY <1>2, <2>1, <3>1, <3>2 DEF Goal
  <2>3. ASSUME NEW a \in Addresses, DeleteSource(m, a)
        PROVE  Goal
    <3>1. WriteFree(m) /\ Logged(m, SourceGoneRecord(a))
      BY <2>3 DEF DeleteSource
    <3>2. SourceGoneRecord(a) \in Records /\ SourceGoneRecord(a).kind # "Expulsion"
      BY PublishedRecords DEF SourceGoneRecord
    <3> QED
      BY <2>1, <3>1, <3>2
  <2>4. ASSUME NEW r \in Records, Publish(m, r)
        PROVE  Goal
    <3>1. /\ WriteFree(m) /\ Logged(m, r) /\ NextEntry(m, r) \in Entry
          /\ roster' = [roster EXCEPT ![m] = RosterAfter(@, NoPosition, m, NextEntry(m, r))]
      BY <2>4, LoggedTypes DEF Publish
    <3>2. n = m => o \notin Purged(m, NextEntry(m, r))
      <4>1. n = m => roster'[n] = RosterAfter(roster[n], NoPosition, m, NextEntry(m, r))
        BY <1>1, <3>1
      <4> QED
        BY <1>1, <3>1, <4>1, PurgedAreKnown
    <3> QED
      BY <1>1, <3>1, <3>2, LoggedReports DEF Goal
  <2>5. CASE Rebuild(m)
    <3>1. n # m
      BY <1>1, <2>5 DEF Rebuild, Rebuilt
    <3>2. log'[n] = log[n] /\ table'[n] = table[n]
      BY <1>1, <2>5, <3>1 DEF Rebuild, Rebuilt
    <3> QED
      BY <1>2, <3>2 DEF Goal
  <2> QED
    BY <1>3, <2>2, <2>3, <2>4, <2>5, WriteCases
<1>4. ASSUME NEW m \in Nodes, HoldEntry(m) PROVE Goal
  BY <1>1, <1>4, HoldReports DEF Goal
<1>5. ASSUME NEW m \in Nodes, InsertEntry(m) \/ PurgeEntries(m) PROVE Goal
  <2>1. roster' = roster
    BY <1>5 DEF InsertEntry, PurgeEntries
  <2> QED
    BY <1>5, <2>1, FinishReports DEF Goal
<1>6. CASE \/ \E m \in Nodes : SkipEntry(m) \/ Commit(m)
           \/ \E i \in Exchanges : \/ \E m, p \in Nodes : StartExchange(i, m, p)
                                   \/ Proceed(i) \/ BeginServe(i) \/ BeginMerge(i) \/ Abandon(i)
           \/ ServeLate \/ LoseLate \/ UNCHANGED vars
  <2>1. log' = log /\ table' = table
    BY <1>6 DEF SkipEntry, Commit, StartExchange, Proceed, SendRequest, ReadVector, ReadLog,
         Finish, NextRound, BeginServe, BeginMerge, Abandon, ServeLate, LoseLate, vars, storeVars
  <2> QED
    BY <1>2, <2>1 DEF Goal
<1>7. ASSUME NEW m \in Nodes, Land(m) PROVE Goal
  BY <1>4, <1>5, <1>6, <1>7 DEF Land, Goal
<1>8. Goal
  BY <1>3, <1>6, <1>7 DEF Next, Goal
<1> QED
  BY <1>8 DEF Goal

\* Only a rebuilt store takes a new epoch.
LEMMA EpochsAreRebuilt ==
    ASSUME IInv, [Next]_vars, NEW n \in Nodes, epoch'[n] # epoch[n]
    PROVE  Rebuild(n)
<1>1. epoch \in [Nodes -> Nat]
  BY DEF IInv, TypeOK
<1>2. ASSUME NEW m \in Nodes, Write(m) PROVE epoch' = epoch \/ Rebuild(m)
  BY <1>2, WriteCases DEF UpsertSource, DeleteSource, Publish, Logged
<1>3. ASSUME NEW m \in Nodes, Land(m) PROVE epoch' = epoch
  BY <1>3, LandingRows
<1>4. \E m \in Nodes : Rebuild(m)
  BY <1>2, <1>3, RowsStand DEF Next
<1>5. PICK m \in Nodes : Rebuild(m)
  BY <1>4
<1>6. n = m
  BY <1>1, <1>5 DEF Rebuild, Rebuilt
<1> QED
  BY <1>5, <1>6

\* A purge waits only for what the roster already knows expelled.
LEMMA NextPurges ==
    ASSUME IInv, PurgesAreKnown, [Next]_vars
    PROVE  PurgesAreKnown'
<1> SUFFICES ASSUME NEW n \in Nodes, NEW o \in Nodes, o \notin roster'[n].expelled,
                    OfOrigin(log'[n], o) = {}, OfOrigin(table'[n], o) # {}
             PROVE  FALSE
  BY DEF PurgesAreKnown
<1>1. CASE epoch'[n] = epoch[n]
  <2>1. OfOrigin(log[n], o) = {} /\ OfOrigin(table[n], o) # {}
    BY <1>1, StepReports
  <2>2. roster[n].expelled \subseteq roster'[n].expelled
    BY <1>1, StepKeepsExpulsions
  <2> QED
    BY <2>1, <2>2 DEF PurgesAreKnown
<1>2. CASE epoch'[n] # epoch[n]
  <2>1. Rebuild(n)
    BY <1>2, EpochsAreRebuilt
  <2>2. table'[n] = log'[n]
    BY <2>1 DEF Rebuild, Rebuilt, IInv, TypeOK
  <2> QED
    BY <2>2
<1> QED
  BY <1>1, <1>2

\* What a node reports of an origin falls only at the DELETE of a write that
\* is about to take it further, while its store lives and unless it knows
\* that origin expelled: through compaction, superseded epochs, batches half
\* landed and purges half done.
THEOREM VectorsFallOnlyInAWrite == Spec => VectorsFallOnlyMidWrite
<1>1. Init => PurgesAreKnown
  BY DEF Init, PurgesAreKnown
<1>2. IInv /\ PurgesAreKnown /\ [Next]_vars => PurgesAreKnown'
  BY NextPurges
<1> DEFINE Forward == \A n, o \in Nodes :
                        epoch'[n] = epoch[n] /\ o \notin roster'[n].expelled => Reported(n, o)
<1>3. IInv /\ PurgesAreKnown /\ [Next]_vars => Forward
  BY StepReports
<1>4. Forward => [\A n, o \in Nodes :
         table'[n] # table[n] /\ epoch'[n] = epoch[n] /\ o \notin roster'[n].expelled =>
           LET was == HeldPosition(table[n], o)
               now == HeldPosition(table'[n], o)
           IN  \/ was = now
               \/ Lacks(was, now)
               \/ /\ Written(n)
                  /\ \E e \in log'[n] \ table'[n] : e.origin = o /\ Lacks(was, e)]_vars
  BY DEF Reported
<1> QED
  BY <1>1, <1>2, <1>3, <1>4, LogsAreSound, PTL DEF Spec, VectorsFallOnlyMidWrite

(***************************************************************************)
(* The refinement: every step is one of SharedHistory.                     *)
(***************************************************************************)

-----------------------------------------------------------------------------
(* What SharedHistory calls void and expelled *)

LEMMA VoidIsSuperseded ==
    ASSUME NEW hist
    PROVE  /\ \A f : (\E e \in hist : Voids(e, f)) <=> Superseded(hist, f)
           /\ UNION {Expels(e) : e \in hist} = EverExpelled(hist)
<1>1. \A e : Expels(e) = IF e.record.kind = "Expulsion" THEN {e.record.about} ELSE {}
  BY DEF Expels, EverExpelled
<1>2. UNION {Expels(e) : e \in hist} = EverExpelled(hist)
  BY <1>1 DEF EverExpelled
<1> QED
  BY <1>2 DEF Voids, Superseded

\* An entry past all that is held of its origin leaves just what
\* SharedHistory leaves.
LEMMA HeldLogIsWith ==
    ASSUME NEW n \in Nodes, log[n] \in SUBSET Entry, NEW e \in Entry, NEW known,
           \A f \in OfOrigin(log[n], e.origin) : Lacks(f, e),
           Supersedes(known, e) \/ \A f \in OfOrigin(log[n], e.origin) : f.epoch = e.epoch,
           Supersedes(known, e) => \A f \in OfOrigin(log[n], e.origin) : f.epoch # e.epoch
    PROVE  HeldLog(log[n], known, n, e) = Shared!With(n, e)
<1>1. HeldLog(log[n], known, n, e) = After(log[n], known, n, e)
  BY HeldLogIs
<1>2. Purged(n, e) = Expels(e) \ {n, e.origin}
  BY DEF Purged, Expels, EverExpelled
<1>3. ASSUME NEW f \in log[n]
      PROVE  Outlives(f, known, n, e) <=>
               /\ ~Voids(e, f)
               /\ f.origin = e.origin => f.epoch = e.epoch
               /\ f.origin \notin Expels(e) \ {n, e.origin}
  <2>1. CASE f.origin # e.origin
    BY <1>2, <2>1 DEF Outlives, Stays, Voids, Superseded
  <2>2. CASE f.origin = e.origin
    <3>1. f \in OfOrigin(log[n], e.origin) /\ f \in Entry
      BY <2>2 DEF OfOrigin
    <3>2. f.epoch = e.epoch => f.seq < e.seq
      BY <3>1 DEF Lacks, Entry
    <3>3. f.epoch = e.epoch => (Voids(e, f) <=> Key(f.record) = Key(e.record))
      BY <2>2, <3>1, <3>2 DEF Voids, Superseded, Entry
    <3>4. Supersedes(known, e) <=> f.epoch # e.epoch
      BY <3>1
    <3>5. e.origin \notin Purged(n, e)
      BY <1>2
    <3> QED
      BY <1>2, <2>2, <3>3, <3>4, <3>5 DEF Outlives, Stays
  <2> QED
    BY <2>1, <2>2
<1> QED
  BY <1>1, <1>3 DEF After, Shared!With

-----------------------------------------------------------------------------
(* Steps *)

\* An entry a node logs is the next one of its log.
LEMMA LoggedMaps ==
    ASSUME IInv, NEW n \in Nodes, NEW r \in Records, Logged(n, r)
    PROVE  Shared!Write(n)
<1> DEFINE g == NextEntry(n, r)
<1>1. /\ g \in Entry /\ g.origin = n /\ g.epoch = epoch[n]
      /\ \A f \in OfOrigin(log[n], n) : Lacks(f, g) /\ f.epoch = g.epoch
      /\ history' = history \cup {g} /\ log[n] \subseteq history
  BY LoggedEntry
<1>2. /\ g.seq = mark[n] + 1 /\ log' = [log EXCEPT ![n] = HeldLog(@, NoPosition, n, g)]
      /\ history \in SUBSET Entry /\ mark[n] \in Nat /\ epoch[n] \in Nat
  BY DEF Logged, NextEntry, IInv, TypeOK
<1> HIDE DEF g
<1>3. \A f \in history : f.origin = n => Shared!Precedes(f, g)
  <2> SUFFICES ASSUME NEW f \in history, f.origin = n PROVE Shared!Precedes(f, g)
    OBVIOUS
  <2>1. f.epoch <= epoch[n] /\ (f.epoch = epoch[n] => f.seq <= mark[n])
    BY DEF IInv, LogInv, HistoryIsMarked
  <2>2. f.epoch \in Nat /\ f.seq \in Nat
    BY <1>2 DEF Entry
  <2> QED
    BY <1>1, <1>2, <2>1, <2>2 DEF Shared!Precedes
<1>4. \E f \in log[n] : Shared!SameLog(f, g) /\ g.seq = f.seq + 1
  <2>1. PICK f \in log[n] : f.origin = n /\ f.seq = mark[n]
    BY DEF IInv, LogInv, HeldLogs
  <2>2. f.epoch = g.epoch
    BY <1>1, <2>1 DEF OfOrigin
  <2> QED
    BY <1>1, <1>2, <2>1, <2>2 DEF Shared!SameLog
<1>5. HeldLog(log[n], NoPosition, n, g) = Shared!With(n, g)
  <2>1. ~Supersedes(NoPosition, g)
    BY DEF Supersedes
  <2>2. log[n] \in SUBSET Entry
    BY <1>1, <1>2
  <2> QED
    BY <1>1, <2>1, <2>2, HeldLogIsWith
<1>6. log' = [log EXCEPT ![n] = Shared!With(n, g)]
  BY <1>2, <1>5
<1>7. g \in log'[n] \ log[n]
  <2>1. g \notin history
    BY <1>1, <1>2, <1>3 DEF Shared!Precedes, Entry
  <2>2. g \in Shared!With(n, g) /\ DOMAIN log = Nodes
    BY DEF Shared!With, IInv, TypeOK
  <2> QED
    BY <1>1, <1>6, <2>1, <2>2
<1> QED
  BY <1>1, <1>3, <1>4, <1>6, <1>7 DEF Shared!Write

\* A rebuilt store starts over.
LEMMA RebuildMaps ==
    ASSUME IInv, NEW n \in Nodes, Rebuild(n)
    PROVE  Shared!StartOver(n)
<1> DEFINE g == FirstEntry(n, epoch[n] + 1)
<1>1. /\ g \in Entry /\ g.origin = n /\ g.seq = 1 /\ g.epoch = epoch[n] + 1
      /\ epoch[n] \in Nat /\ history \in SUBSET Entry
  BY FirstTypes DEF FirstEntry, IInv, TypeOK
<1>2. log' = [log EXCEPT ![n] = {g}] /\ history' = history \cup {g}
  BY DEF Rebuild, Rebuilt
<1> HIDE DEF g
<1>3. \A f \in history : f.origin = n => f.epoch < g.epoch
  <2> SUFFICES ASSUME NEW f \in history, f.origin = n PROVE f.epoch < g.epoch
    OBVIOUS
  <2>1. f.epoch <= epoch[n] /\ f.epoch \in Nat
    BY <1>1 DEF IInv, LogInv, HistoryIsMarked, Entry
  <2> QED
    BY <1>1, <2>1
<1>4. g \in log'[n] \ log[n]
  <2>1. g \notin log[n]
    BY <1>1, <1>3, VectorsTyped DEF WellFormed
  <2>2. DOMAIN log = Nodes
    BY DEF IInv, TypeOK
  <2> QED
    BY <1>2, <2>1, <2>2
<1> QED
  BY <1>1, <1>2, <1>3, <1>4 DEF Shared!StartOver

\* An entry a node holds is one it learns: nothing before it is missing.
LEMMA HoldMaps ==
    ASSUME IInv, NEW n \in Nodes, HoldEntry(n)
    PROVE  Shared!Learn(n)
<1>1. PICK e \in tx[n].rest :
        LET known == tx[n].positions[e.origin] IN
        /\ IsFirst(e, tx[n].rest)
        /\ e.origin # n
        /\ Lacks(known, e)
        /\ log' = [log EXCEPT ![n] = HeldLog(@, known, n, e)]
  BY DEF HoldEntry
<1> DEFINE known == tx[n].positions[e.origin]
<1>2. Lacks(known, e) /\ log' = [log EXCEPT ![n] = HeldLog(@, known, n, e)] /\ history' = history
  BY <1>1 DEF HoldEntry
<1> HIDE DEF known
<1>3. /\ e \in history /\ e \in Entry
      /\ \A f \in OfOrigin(log[n], e.origin) : Lacks(f, e)
      /\ Supersedes(known, e) \/ \A f \in OfOrigin(log[n], e.origin) : f.epoch = e.epoch
      /\ Supersedes(known, e) => \A f \in OfOrigin(log[n], e.origin) : f.epoch # e.epoch
      /\ \A h \in history :
            h.origin = e.origin /\ h.epoch = e.epoch /\ h.seq <= e.seq
              /\ h.origin \notin EverExpelled(history)
            => h = e \/ Superseded(history, h) \/ (~Supersedes(known, e) /\ h \in log[n])
  BY <1>1, <1>2, LandsInOrder DEF known
<1>4. history \in SUBSET Entry /\ log[n] \in SUBSET Entry
  BY DEF IInv, TypeOK, Batches
<1>5. HeldLog(log[n], known, n, e) = Shared!With(n, e)
  BY <1>3, <1>4, HeldLogIsWith
<1>6. log' = [log EXCEPT ![n] = Shared!With(n, e)]
  BY <1>2, <1>5
<1>7. \A f \in log[n] : f.origin = e.origin => Shared!Precedes(f, e)
  BY <1>3, <1>4 DEF OfOrigin, Lacks, Shared!Precedes, Entry
<1>8. Shared!NoGapBefore(n, e)
  <2> SUFFICES ASSUME e.origin \notin Shared!Outcasts, NEW f \in history,
                      Shared!SameLog(f, e), Shared!Precedes(f, e)
               PROVE  f \in log[n] \/ Shared!Void(f)
    BY DEF Shared!NoGapBefore
  <2>1. f.origin = e.origin /\ f.epoch = e.epoch /\ f.seq < e.seq
        /\ e.origin \notin EverExpelled(history)
    BY <1>3, <1>4, VoidIsSuperseded DEF Shared!SameLog, Shared!Precedes, Shared!Outcasts, Entry
  <2>2. f.seq \in Nat /\ e.seq \in Nat
    BY <1>3, <1>4 DEF Entry
  <2>3. f \in log[n] \/ Superseded(history, f)
    BY <1>3, <2>1, <2>2
  <2> QED
    BY <2>3, VoidIsSuperseded DEF Shared!Void
<1>9. e \in log'[n] \ log[n]
  <2>1. e \notin log[n]
    BY <1>3, <1>4, <1>7 DEF Shared!Precedes, Entry
  <2>2. e \in Shared!With(n, e) /\ DOMAIN log = Nodes
    BY DEF Shared!With, IInv, TypeOK
  <2> QED
    BY <1>6, <2>1, <2>2
<1> QED
  BY <1>1, <1>2, <1>3, <1>6, <1>7, <1>8, <1>9 DEF Shared!Learn

\* Whatever a node writes is an entry of its log, a new log, or no news.
LEMMA WriteMaps ==
    ASSUME IInv, NEW n \in Nodes, Write(n)
    PROVE  Shared!Write(n) \/ Shared!StartOver(n) \/ UNCHANGED Shared!vars
<1>1. ASSUME NEW a \in Addresses, NEW v \in Envelopes, UpsertSource(n, a, v)
      PROVE  Shared!Write(n) \/ UNCHANGED Shared!vars
  <2>1. Logged(n, SourceRecord(a, v)) \/ UNCHANGED <<log, history>>
    BY <1>1 DEF UpsertSource
  <2> QED
    BY <2>1, PublishedRecords, LoggedMaps DEF Shared!vars
<1>2. ASSUME NEW a \in Addresses, DeleteSource(n, a) PROVE Shared!Write(n)
  BY <1>2, PublishedRecords, LoggedMaps DEF DeleteSource
<1>3. ASSUME NEW r \in Records, Publish(n, r) PROVE Shared!Write(n)
  BY <1>3, LoggedMaps DEF Publish
<1>4. CASE Rebuild(n)
  BY <1>4, RebuildMaps
<1> QED
  BY <1>1, <1>2, <1>3, <1>4, WriteCases

\* Every step is a step of SharedHistory, or one that nobody sees.
LEMMA StepShares ==
    ASSUME IInv, [Next]_vars
    PROVE  [Shared!Next]_Shared!vars
<1>1. ASSUME NEW n \in Nodes, Write(n) PROVE [Shared!Next]_Shared!vars
  BY <1>1, WriteMaps DEF Shared!Next
<1>2. ASSUME NEW n \in Nodes, HoldEntry(n) PROVE [Shared!Next]_Shared!vars
  BY <1>2, HoldMaps DEF Shared!Next
<1>3. CASE \/ \E m \in Nodes : \/ SkipEntry(m) \/ Commit(m) \/ InsertEntry(m)
                             \/ PurgeEntries(m)
           \/ \E i \in Exchanges : \/ \E m, p \in Nodes : StartExchange(i, m, p)
                                   \/ Proceed(i) \/ BeginServe(i) \/ BeginMerge(i) \/ Abandon(i)
           \/ ServeLate \/ LoseLate \/ UNCHANGED vars
  <2>1. log' = log /\ history' = history
    BY <1>3 DEF SkipEntry, Commit, InsertEntry, PurgeEntries, StartExchange, Proceed, SendRequest, ReadVector, ReadLog,
         Finish, NextRound, BeginServe, BeginMerge, Abandon, ServeLate, LoseLate, vars, storeVars
  <2> QED
    BY <2>1 DEF Shared!vars
<1> QED
  BY <1>1, <1>2, <1>3 DEF Next, Land

\* The address log implements SharedHistory: however exchanges overlap, are
\* cut short, arrive late and are read in mid-batch, what every node goes
\* through is learning every log entry by entry, in order and without a gap,
\* with compaction, new epochs and purges in the same step.
THEOREM SyncImplementsSharedHistory == Spec => ImplementsSharedHistory
<1>1. Init => Shared!Init
  BY DEF Init, Shared!Init, Opening
<1>2. IInv /\ [Next]_vars => [Shared!Next]_Shared!vars
  BY StepShares
<1> QED
  BY <1>1, <1>2, LogsAreSound, PTL DEF Spec, ImplementsSharedHistory, Shared!Spec
=============================================================================
