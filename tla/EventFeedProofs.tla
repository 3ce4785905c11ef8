--------------------------- MODULE EventFeedProofs ---------------------------
(***************************************************************************)
(* Proofs about EventFeed: the feed is prefix-closed, a consumer that      *)
(* follows its cursors misses nothing, the stored projections are those of *)
(* the committed rows and the log tells their history, for any sets of     *)
(* transactions, resources, retention loops and consumers, any page and    *)
(* batch sizes, on both databases and up to any bound of the exploration.  *)
(***************************************************************************)
EXTENDS EventFeed, TLAPS

(* Committed positions are positive and were allocated. *)
LogOK == IsFiniteSet(log) /\ \A e \in log : 1 <= e.seq /\ e.seq <= head

(* The floor is the last position purged. *)
FloorOK == floor = 0 \/ \E e \in log : e.seq = floor

(* The feed holds exactly what was committed after the floor. *)
Retained == events = {e \in log : e.seq > floor}

(* A purge deletes a range of committed positions that starts at or before    *)
(* the floor.                                                                 *)
PurgesOK ==
    \A p \in Purgers : purge[p].active =>
        purge[p].floor <= floor /\ \E e \in log : e.seq = purge[p].last

(* Uncommitted events lie after everything committed. *)
AppendedOK ==
    \A w \in Writers :
        /\ IsFiniteSet(evs[w])
        /\ \A e \in evs[w] : /\ 1 <= e.seq /\ e.seq <= head
                             /\ \A x \in log : x.seq < e.seq

(* Only the holder of the feed lock publishes or has events to commit. *)
LockOK == \A w \in Writers : pc[w] = "locked" \/ evs[w] # {} => lock = w

(* On SQLite one transaction runs at a time. *)
SerialOK ==
    ~Postgres => \A v, w \in Writers : pc[v] # "idle" /\ pc[w] # "idle" => v = w

FeedOK ==
    /\ LogOK /\ FloorOK /\ Retained /\ PurgesOK /\ AppendedOK
    /\ CursorStaysValid /\ NoEventSkipped

(* The inductive invariant. *)
FeedInv == TypeOK /\ LockOK /\ SerialOK /\ FeedOK

-----------------------------------------------------------------------------
(* Projections: what the rows give, what is stored, and what the log tells. *)

(* The rows of a resource that w writes, and what there is once it commits. *)
Touched(w, r) == Main(r) \in wrote[w] \/ Side(r) \in wrote[w]
After(w) == [row \in Rows |-> IF row \in wrote[w] THEN vals[w][row] ELSE base[row]]
StoredAfter(w, r) == IF r \in published[w] THEN projs[w][r] ELSE proj[r]

(* A row is written by one transaction at a time, and a resource published by *)
(* the holder of the feed lock, which wrote one of its rows.                  *)
RowLocks == \A v, w \in Writers : v # w => wrote[v] \cap wrote[w] = {}
PublishedOK == \A w \in Writers : \A r \in published[w] : Touched(w, r) /\ lock = w

(* A resource is deleted with its side row, and a side row is written where   *)
(* there is a main row.                                                       *)
Whole(b) == \A r \in Resources : b[Main(r)] = 0 => b[Side(r)] = 0
WritesWhole(w) ==
    \A r \in Resources :
        /\ Main(r) \in wrote[w] /\ vals[w][Main(r)] = 0
              => Side(r) \in wrote[w] /\ vals[w][Side(r)] = 0
        /\ Side(r) \in wrote[w] /\ Main(r) \notin wrote[w]
              => vals[w][Side(r)] # 0 /\ base[Main(r)] # 0 /\ Sees(w).base[Main(r)] # 0

(* What a projection tells of a row. *)
Told(p, row) == IF row[2] = "main" THEN p.rep[1] ELSE p.rep[2]

(* Only w may have given the row the version n. *)
Avoids(w, row, n) ==
    /\ base[row] # n /\ Told(proj[row[1]], row) # n
    /\ \A v \in Writers :
           /\ snap[v].base[row] # n
           /\ v # w /\ row[1] \in published[v] => Told(projs[v][row[1]], row) # n

(* Nothing has the version n. *)
Unused(n) ==
    \A row \in Rows :
        /\ base[row] # n /\ Told(proj[row[1]], row) # n
        /\ \A v \in Writers :
               /\ snap[v].base[row] # n
               /\ row[1] \in published[v] => Told(projs[v][row[1]], row) # n
               /\ row \in wrote[v] => vals[v][row] # n

(* The version a transaction gave to a row is nowhere else, and later ones    *)
(* are nowhere yet.                                                           *)
VersionsOwned ==
    /\ \A w \in Writers : \A row \in wrote[w] :
           vals[w][row] # 0 => Avoids(w, row, vals[w][row])
    /\ \A n \in Nat : n > version => Unused(n)

(* A serializable transaction reads a state there was; the rows it wrote and  *)
(* the projections it published are still as in that state.                   *)
SnapshotOK(w) ==
    /\ Whole(snap[w].base)
    /\ \A r \in Resources : snap[w].proj[r].rep = Representation(snap[w].base, r)
    /\ w \in Serializable =>
           /\ \A row \in wrote[w] : base[row] = snap[w].base[row]
           /\ \A r \in published[w] : proj[r] = snap[w].proj[r]

(* A transaction that may commit has published what its rows will give. *)
FlushedOK(w) ==
    flushed[w] => \A r \in Resources :
        Touched(w, r) => StoredAfter(w, r).rep = Representation(After(w), r)

ProjectionInv ==
    /\ RowLocks /\ PublishedOK /\ Whole(base) /\ VersionsOwned
    /\ \A w \in Writers : WritesWhole(w) /\ SnapshotOK(w) /\ FlushedOK(w)
    /\ ProjectionCurrent

(* The rows of a resource.                                                    *)
LEMMA RowFacts ==
    /\ \A r \in Resources : /\ Main(r) \in Rows /\ Side(r) \in Rows
                            /\ Main(r)[1] = r /\ Side(r)[1] = r
                            /\ Main(r)[2] = "main" /\ Side(r)[2] # "main"
    /\ \A row \in Rows : row[1] \in Resources /\ (row = Main(row[1]) \/ row = Side(row[1]))
  BY DEF Rows, Parts, Main, Side

(* A representation is that of the rows, or of an absent main row.            *)
LEMMA RepresentationIs ==
    ASSUME NEW b, NEW r
    PROVE  /\ b[Main(r)] = 0 => Representation(b, r) = <<0, 0>>
           /\ b[Main(r)] # 0 => Representation(b, r) = <<b[Main(r)], b[Side(r)]>>
  BY Zenon DEF Representation

(* It depends on the two rows only, and gives them back.                      *)
LEMMA SameRows ==
    ASSUME NEW b, NEW c, NEW r, b[Main(r)] = c[Main(r)], b[Side(r)] = c[Side(r)]
    PROVE  Representation(b, r) = Representation(c, r)
  BY Zenon DEF Representation

(* Of whole resources, the representation tells both rows. *)
LEMMA SameRepresentation ==
    ASSUME NEW b, NEW c, NEW r, Representation(b, r) = Representation(c, r),
           b[Main(r)] = 0 => b[Side(r)] = 0, c[Main(r)] = 0 => c[Side(r)] = 0
    PROVE  b[Main(r)] = c[Main(r)] /\ b[Side(r)] = c[Side(r)]
  BY DEF Representation

(* What a projection of b tells of a row.                                     *)
LEMMA ToldIs ==
    ASSUME NEW b, NEW row \in Rows, NEW p, p.rep = Representation(b, row[1])
    PROVE  Told(p, row) = 0 \/ Told(p, row) = b[row]
  <1>1. PICK r \in Resources : r = row[1] /\ (row = Main(r) \/ row = Side(r))
    BY Zenon, RowFacts
  <1>2. p.rep[1] \in {0, b[Main(r)]} /\ p.rep[2] \in {0, b[Side(r)]}
    BY <1>1 DEF Representation
  <1>3. CASE row = Main(r)
    BY Zenon, <1>2, <1>3, RowFacts DEF Told
  <1>4. CASE row = Side(r)
    BY Zenon, <1>2, <1>4, RowFacts DEF Told
  <1> QED
    BY Zenon, <1>1, <1>3, <1>4

(* A transaction that may commit and wrote one of the two rows has published  *)
(* the resource: the version it wrote is not in the stored projection.        *)
LEMMA HalfPublished ==
    ASSUME ProjectionInv, NEW w \in Writers, flushed[w], NEW r \in Resources, Touched(w, r),
           Main(r) \notin wrote[w] \/ Side(r) \notin wrote[w]
    PROVE  lock = w /\ r \in published[w]
  <1> SUFFICES ASSUME r \notin published[w] PROVE FALSE
    BY Zenon DEF ProjectionInv, PublishedOK
  <1>1. proj[r].rep = Representation(After(w), r)
    BY Zenon DEF ProjectionInv, FlushedOK, StoredAfter
  <1>2. /\ Main(r) \in Rows /\ Side(r) \in Rows
        /\ Told(proj[r], Main(r)) = proj[r].rep[1] /\ Told(proj[r], Side(r)) = proj[r].rep[2]
    BY Zenon, RowFacts DEF Told
  <1>3. CASE Main(r) \in wrote[w]
    <2>1. vals[w][Main(r)] # 0
      BY Zenon, <1>3 DEF ProjectionInv, WritesWhole
    <2>2. Avoids(w, Main(r), vals[w][Main(r)])
      BY Zenon, <1>3, <2>1 DEF ProjectionInv, VersionsOwned
    <2>3. Told(proj[r], Main(r)) # vals[w][Main(r)]
      BY Zenon, <2>2, RowFacts DEF Avoids
    <2>4. After(w)[Main(r)] = vals[w][Main(r)]
      BY Zenon, <1>2, <1>3 DEF After
    <2>5. proj[r].rep = <<vals[w][Main(r)], After(w)[Side(r)]>>
      BY Zenon, <1>1, <2>1, <2>4, RepresentationIs
    <2>6. proj[r].rep[1] = vals[w][Main(r)]
      BY <2>5
    <2> QED
      BY Zenon, <1>2, <2>3, <2>6
  <1>4. CASE Main(r) \notin wrote[w]
    <2>1. Side(r) \in wrote[w] /\ vals[w][Side(r)] # 0 /\ base[Main(r)] # 0
      BY Zenon, <1>4 DEF ProjectionInv, WritesWhole, Touched
    <2>2. Avoids(w, Side(r), vals[w][Side(r)])
      BY Zenon, <2>1 DEF ProjectionInv, VersionsOwned
    <2>3. Told(proj[r], Side(r)) # vals[w][Side(r)]
      BY Zenon, <2>2, RowFacts DEF Avoids
    <2>4. After(w)[Side(r)] = vals[w][Side(r)] /\ After(w)[Main(r)] = base[Main(r)]
      BY Zenon, <1>2, <1>4, <2>1 DEF After
    <2>5. proj[r].rep = <<base[Main(r)], vals[w][Side(r)]>>
      BY Zenon, <1>1, <2>1, <2>4, RepresentationIs
    <2>6. proj[r].rep[2] = vals[w][Side(r)]
      BY <2>5
    <2> QED
      BY Zenon, <1>2, <2>3, <2>6
  <1> QED
    BY Zenon, <1>3, <1>4

(* So two transactions that may commit changed different resources.           *)
LEMMA NoConflict ==
    ASSUME ProjectionInv, NEW v \in Writers, NEW w \in Writers, v # w, flushed[v], flushed[w],
           NEW r \in Resources, Touched(v, r), Touched(w, r)
    PROVE  FALSE
  <1>1. wrote[v] \cap wrote[w] = {}
    BY Zenon DEF ProjectionInv, RowLocks
  <1>2. /\ Main(r) \notin wrote[v] \/ Side(r) \notin wrote[v]
        /\ Main(r) \notin wrote[w] \/ Side(r) \notin wrote[w]
    BY Zenon, <1>1 DEF Touched
  <1>3. lock = v /\ lock = w
    BY Zenon, <1>2, HalfPublished
  <1> QED
    BY Zenon, <1>3

(* What w reads of a resource is what there will be when it commits, as long  *)
(* as the stored projection is the one of its snapshot.                       *)
LEMMA ViewIsAfter ==
    ASSUME ProjectionInv, NEW w \in Writers, NEW r \in Resources,
           w \in Serializable => proj[r] = snap[w].proj[r]
    PROVE  Representation(View(w), r) = Representation(After(w), r)
  <1>1. Main(r) \in Rows /\ Side(r) \in Rows
    BY Zenon, RowFacts
  <1>2. Sees(w).base[Main(r)] = base[Main(r)] /\ Sees(w).base[Side(r)] = base[Side(r)]
    <2>1. CASE w \in Serializable
      <3>1. Representation(base, r) = Representation(snap[w].base, r)
        BY Zenon, <2>1 DEF ProjectionInv, ProjectionCurrent, SnapshotOK
      <3>2. /\ base[Main(r)] = 0 => base[Side(r)] = 0
            /\ snap[w].base[Main(r)] = 0 => snap[w].base[Side(r)] = 0
        BY Zenon DEF ProjectionInv, SnapshotOK, Whole
      <3>3. base[Main(r)] = snap[w].base[Main(r)] /\ base[Side(r)] = snap[w].base[Side(r)]
        BY <3>1, <3>2, SameRepresentation
      <3> QED
        BY Zenon, <2>1, <3>3 DEF Sees
    <2>2. CASE w \notin Serializable
      <3>1. Sees(w).base = base
        BY <2>2 DEF Sees
      <3> QED
        BY Zenon, <3>1
    <2> QED
      BY Zenon, <2>1, <2>2
  <1>3. View(w)[Main(r)] = After(w)[Main(r)] /\ View(w)[Side(r)] = After(w)[Side(r)]
    BY Zenon, <1>1, <1>2 DEF View, After
  <1> QED
    BY Zenon, <1>3, SameRows

(* A resource that is not pending is stored as it will be.                    *)
LEMMA NotPending ==
    ASSUME ProjectionInv, NEW w \in Writers, NEW r \in Resources, Touched(w, r),
           Representation(View(w), r) = Stored(w, r).rep
    PROVE  StoredAfter(w, r).rep = Representation(After(w), r)
  <1>1. CASE r \in published[w] \/ w \notin Serializable
    <2>1. w \in Serializable => proj[r] = snap[w].proj[r]
      BY Zenon, <1>1 DEF ProjectionInv, SnapshotOK
    <2>2. w \notin Serializable => Sees(w).proj = proj
      BY DEF Sees
    <2>3. Stored(w, r) = StoredAfter(w, r)
      BY Zenon, <1>1, <2>2 DEF Stored, StoredAfter
    <2> QED
      BY Zenon, <2>1, <2>3, ViewIsAfter
  <1>2. CASE r \notin published[w] /\ w \in Serializable
    <2> DEFINE b == snap[w].base
               m == Main(r)
               s == Side(r)
    <2>1. Sees(w) = snap[w]
      BY Zenon, <1>2 DEF Sees
    <2>2. Representation(View(w), r) = Representation(b, r)
      BY Zenon, <1>2, <2>1 DEF Stored, ProjectionInv, SnapshotOK
    <2>3. m \in Rows /\ s \in Rows
      BY Zenon, RowFacts
    <2>4. \A row \in wrote[w] : vals[w][row] # 0 => b[row] # vals[w][row]
      BY Zenon DEF ProjectionInv, VersionsOwned, Avoids
    <2>5. CASE m \in wrote[w]
      <3>1. View(w)[m] = vals[w][m] /\ After(w)[m] = vals[w][m]
        BY Zenon, <2>3, <2>5 DEF View, After
      <3>2. View(w)[m] = 0 /\ b[m] = 0
        <4> HIDE DEF b, m, s
        <4>1. Representation(View(w), r) =
                  (IF View(w)[m] = 0 THEN <<0, 0>> ELSE <<View(w)[m], View(w)[s]>>)
          BY Zenon DEF Representation, m, s
        <4>2. Representation(b, r) = (IF b[m] = 0 THEN <<0, 0>> ELSE <<b[m], b[s]>>)
          BY Zenon DEF Representation, m, s
        <4> QED
          BY <4>1, <4>2, <2>2, <2>4, <2>5, <3>1
      <3>3. base[m] = 0
        BY Zenon, <1>2, <2>5, <3>2 DEF ProjectionInv, SnapshotOK
      <3>4. /\ Representation(After(w), r) = <<0, 0>> /\ Representation(base, r) = <<0, 0>>
            /\ StoredAfter(w, r) = proj[r]
        BY Zenon, <1>2, <3>1, <3>2, <3>3, RepresentationIs DEF StoredAfter
      <3> QED
        BY Zenon, <3>4 DEF ProjectionInv, ProjectionCurrent
    <2>6. CASE m \notin wrote[w]
      <3>1. s \in wrote[w] /\ vals[w][s] # 0 /\ b[m] # 0
        BY Zenon, <2>1, <2>6 DEF ProjectionInv, WritesWhole, Touched
      <3>2. View(w)[m] = b[m] /\ View(w)[s] = vals[w][s]
        BY Zenon, <2>1, <2>3, <2>6, <3>1 DEF View
      <3>3. <<b[m], vals[w][s]>> = <<b[m], b[s]>>
        BY Zenon, <2>2, <3>1, <3>2, RepresentationIs
      <3>4. vals[w][s] = b[s]
        BY <3>3
      <3> QED
        BY Zenon, <3>1, <3>4, <2>4
    <2> QED
      BY Zenon, <2>5, <2>6
  <1> QED
    BY Zenon, <1>1, <1>2

(* Nothing is stored at first.                                                *)
LEMMA EmptyFacts ==
    /\ Whole(EmptyBase) /\ \A row \in Rows : EmptyBase[row] = 0
    /\ \A r \in Resources : /\ EmptyProj[r] = NoProjection
                            /\ EmptyProj[r].rep = Representation(EmptyBase, r)
    /\ NoProjection.rep = <<0, 0>>
    /\ \A row : Told(NoProjection, row) = 0
  <1>1. \A row \in Rows : EmptyBase[row] = 0
    BY Zenon DEF EmptyBase
  <1>2. NoProjection.rep = <<0, 0>> /\ NoProjection.rep[1] = 0 /\ NoProjection.rep[2] = 0
    BY DEF NoProjection
  <1>3. \A r \in Resources : EmptyProj[r] = NoProjection
    BY Zenon DEF EmptyProj
  <1>4. \A r \in Resources : EmptyBase[Main(r)] = 0 /\ EmptyBase[Side(r)] = 0
    BY Zenon, <1>1, RowFacts
  <1> QED
    BY Zenon, <1>1, <1>2, <1>3, <1>4, RepresentationIs DEF Whole, Told

(* The invariant of the projections holds at the start. *)
LEMMA InitProjection == Init => ProjectionInv
  <1> SUFFICES ASSUME Init PROVE ProjectionInv
    OBVIOUS
  <1>1. /\ base = EmptyBase /\ proj = EmptyProj /\ version = 0
        /\ \A w \in Writers : wrote[w] = {} /\ published[w] = {}
                              /\ snap[w].base = EmptyBase /\ snap[w].proj = EmptyProj
    BY DEF Init
  <1>2. RowLocks /\ PublishedOK /\ Whole(base) /\ ProjectionCurrent
    BY Zenon, <1>1, EmptyFacts DEF RowLocks, PublishedOK, ProjectionCurrent
  <1>3. VersionsOwned
    <2>1. ASSUME NEW n \in Nat, n > version PROVE Unused(n)
      <3>1. n # 0
        BY <1>1, <2>1
      <3> SUFFICES ASSUME NEW row \in Rows
                   PROVE  /\ base[row] # n /\ Told(proj[row[1]], row) # n
                          /\ \A v \in Writers : snap[v].base[row] # n
        BY Zenon, <1>1 DEF Unused
      <3>2. base[row] = 0 /\ \A v \in Writers : snap[v].base[row] = 0
        BY Zenon, <1>1, EmptyFacts
      <3>3. row[1] \in Resources
        BY Zenon, RowFacts
      <3>4. Told(proj[row[1]], row) = 0
        BY Zenon, <1>1, <3>3, EmptyFacts
      <3> QED
        BY Zenon, <3>1, <3>2, <3>4
    <2> QED
      BY Zenon, <1>1, <2>1 DEF VersionsOwned
  <1>4. ASSUME NEW w \in Writers PROVE WritesWhole(w) /\ SnapshotOK(w) /\ FlushedOK(w)
    BY Zenon, <1>1, EmptyFacts DEF WritesWhole, SnapshotOK, FlushedOK, Touched
  <1> QED
    BY Zenon, <1>2, <1>3, <1>4 DEF ProjectionInv

(* A snapshot stays as good as it was.                                        *)
LEMMA SnapshotKept ==
    ASSUME NEW w \in Writers, SnapshotOK(w), snap'[w] = snap[w],
           w \in Serializable => /\ \A row \in wrote'[w] : base'[row] = snap[w].base[row]
                                /\ \A r \in published'[w] : proj'[r] = snap[w].proj[r]
    PROVE  SnapshotOK(w)'
  <1>1. ASSUME NEW r \in Resources
        PROVE  snap'[w].proj[r].rep = Representation(snap'[w].base, r)
    BY Zenon DEF SnapshotOK
  <1>2. Whole(snap'[w].base)
    BY Zenon DEF SnapshotOK
  <1> QED
    BY Zenon, <1>1, <1>2 DEF SnapshotOK, Whole, Representation

(* A step that touches neither database nor transaction keeps the snapshot. *)
LEMMA SnapshotStays ==
    ASSUME NEW w \in Writers, SnapshotOK(w), snap'[w] = snap[w], wrote'[w] = wrote[w],
           published'[w] = published[w], base' = base, proj' = proj
    PROVE  SnapshotOK(w)'
  <1>1. w \in Serializable => /\ \A row \in wrote'[w] : base'[row] = snap[w].base[row]
                             /\ \A r \in published'[w] : proj'[r] = snap[w].proj[r]
    BY Zenon DEF SnapshotOK
  <1> QED
    BY Zenon, <1>1, SnapshotKept

(* The steps that leave rows, projections and transactions alone, but for     *)
(* the lock and for what counts as flushed.                                   *)
LEMMA StillProjection ==
    ASSUME ProjectionInv, PublishedOK', \A w \in Writers : FlushedOK(w)',
           UNCHANGED <<base, version, proj, wrote, vals, published, projs, snap>>
    PROVE  ProjectionInv'
  <1>1. RowLocks' /\ Whole(base)' /\ ProjectionCurrent'
    BY Zenon DEF ProjectionInv, RowLocks, Whole, ProjectionCurrent, Representation
  <1>2. VersionsOwned'
    <2>1. ASSUME NEW w, NEW row, NEW n, Avoids(w, row, n) PROVE Avoids(w, row, n)'
      BY Zenon, <2>1 DEF Avoids, Told
    <2>2. ASSUME NEW n, Unused(n) PROVE Unused(n)'
      BY Zenon, <2>2 DEF Unused, Told
    <2> QED
      BY Zenon, <2>1, <2>2 DEF ProjectionInv, VersionsOwned
  <1>3. ASSUME NEW w \in Writers PROVE WritesWhole(w)' /\ SnapshotOK(w)'
    <2>1. Sees(w)' = Sees(w)
      BY Zenon DEF Sees
    <2>2. WritesWhole(w)'
      BY Zenon, <2>1 DEF ProjectionInv, WritesWhole
    <2>3. SnapshotOK(w)'
      BY Zenon, SnapshotStays DEF ProjectionInv
    <2> QED
      BY Zenon, <2>2, <2>3
  <1> QED
    BY Zenon, <1>1, <1>2, <1>3 DEF ProjectionInv

(* A transaction whose writes and publications stay is as ready as before.    *)
LEMMA FlushedKept ==
    ASSUME NEW w \in Writers, FlushedOK(w), flushed'[w] => flushed[w],
           wrote'[w] = wrote[w], vals'[w] = vals[w], published'[w] = published[w],
           projs'[w] = projs[w], base' = base, proj' = proj
    PROVE  FlushedOK(w)'
  <1>1. After(w)' = After(w)
    BY Zenon DEF After
  <1>2. ASSUME NEW r \in Resources PROVE Representation(After(w), r)' = Representation(After(w), r)
    BY Zenon, <1>1 DEF Representation
  <1>3. ASSUME NEW r \in Resources
        PROVE  (Touched(w, r)' <=> Touched(w, r)) /\ StoredAfter(w, r)' = StoredAfter(w, r)
    BY Zenon DEF Touched, StoredAfter
  <1> QED
    BY Zenon, <1>2, <1>3 DEF FlushedOK

(* Purges, consumers and stuttering. *)
LEMMA QuietProjection ==
    ASSUME ProjectionInv,
           UNCHANGED <<base, version, proj, lock, wrote, vals, published, projs, flushed, snap>>
    PROVE  ProjectionInv'
  <1>1. PublishedOK'
    BY Zenon DEF ProjectionInv, PublishedOK, Touched
  <1>2. \A w \in Writers : FlushedOK(w)'
    BY Zenon, FlushedKept DEF ProjectionInv
  <1> QED
    BY Zenon, <1>1, <1>2, StillProjection

(* Taking the feed lock. *)
LEMMA LockFeedProjection ==
    ASSUME ProjectionInv, NEW w \in Writers, LockFeed(w) PROVE ProjectionInv'
  <1>1. /\ UNCHANGED <<base, version, proj, wrote, vals, published, projs, flushed, snap>>
        /\ lock \in {NoWriter, w} /\ lock' = w
    BY Zenon DEF LockFeed
  <1>2. PublishedOK'
    BY Zenon, <1>1, NoWriterAssumption DEF ProjectionInv, PublishedOK, Touched
  <1>3. \A v \in Writers : FlushedOK(v)'
    BY Zenon, <1>1, FlushedKept DEF ProjectionInv
  <1> QED
    BY Zenon, <1>1, <1>2, <1>3, StillProjection

(* A flush with nothing to publish: what the rows give is stored. *)
LEMMA PublishNothingProjection ==
    ASSUME TypeOK, ProjectionInv, NEW w \in Writers, PublishNothing(w) PROVE ProjectionInv'
  <1>1. /\ UNCHANGED <<base, version, proj, lock, wrote, vals, published, projs, snap>>
        /\ Pending(w) = {} /\ flushed' = [flushed EXCEPT ![w] = TRUE]
    BY Zenon DEF PublishNothing, database
  <1>2. PublishedOK'
    BY Zenon, <1>1 DEF ProjectionInv, PublishedOK, Touched
  <1>3. ASSUME NEW v \in Writers PROVE FlushedOK(v)'
    <2>1. CASE v # w
      <3>1. flushed'[v] = flushed[v]
        BY Zenon, <1>1, <2>1 DEF TypeOK
      <3> QED
        BY Zenon, <1>1, <3>1, FlushedKept DEF ProjectionInv
    <2>2. CASE v = w
      <3>1. ASSUME NEW r \in Resources, Touched(w, r)
            PROVE  StoredAfter(w, r).rep = Representation(After(w), r)
        <4>1. {Main(r), Side(r)} \cap wrote[w] # {}
          BY Zenon, <3>1 DEF Touched
        <4>2. Representation(View(w), r) = Stored(w, r).rep
          BY Zenon, <1>1, <4>1 DEF Pending
        <4> QED
          BY Zenon, <3>1, <4>2, NotPending
      <3>2. After(w)' = After(w)
        BY Zenon, <1>1 DEF After
      <3>3. ASSUME NEW r \in Resources
            PROVE  /\ Representation(After(w), r)' = Representation(After(w), r)
                   /\ (Touched(w, r)' <=> Touched(w, r)) /\ StoredAfter(w, r)' = StoredAfter(w, r)
        BY Zenon, <1>1, <3>2 DEF Touched, StoredAfter, Representation
      <3> QED
        BY Zenon, <2>2, <3>1, <3>3 DEF FlushedOK
    <2> QED
      BY Zenon, <2>1, <2>2
  <1> QED
    BY Zenon, <1>1, <1>2, <1>3, StillProjection

(* A transaction that has not begun has neither written nor published.        *)
LEMMA IdleFacts ==
    ASSUME TypeOK, ProjectionInv, NEW w \in Writers, pc[w] = "idle"
    PROVE  wrote[w] = {} /\ published[w] = {} /\ \A r \in Resources : ~Touched(w, r)
  <1>1. wrote[w] = {} /\ published[w] \subseteq Resources
    BY Zenon DEF TypeOK
  <1> QED
    BY Zenon, <1>1 DEF ProjectionInv, PublishedOK, Touched

(* Begin: the snapshot is the committed state. *)
LEMMA BeginProjection ==
    ASSUME TypeOK, ProjectionInv, NEW w \in Writers, Begin(w) PROVE ProjectionInv'
  <1>1. /\ UNCHANGED <<base, version, proj, lock, wrote, vals, published, projs>>
        /\ pc[w] = "idle" /\ flushed' = [flushed EXCEPT ![w] = TRUE]
        /\ snap' = [snap EXCEPT ![w] = IF w \in Serializable THEN [base |-> base, proj |-> proj]
                                       ELSE @]
    BY ZenonT(30) DEF Begin, database
  <1>2. wrote[w] = {} /\ published[w] = {} /\ \A r \in Resources : ~Touched(w, r)
    BY Zenon, <1>1, IdleFacts
  <1>3. /\ \A v \in Writers \ {w} : flushed'[v] = flushed[v] /\ snap'[v] = snap[v]
        /\ \A v \in Writers : /\ snap'[v].base = snap[v].base \/ snap'[v].base = base
                              /\ \/ snap'[v] = snap[v]
                                 \/ snap'[v].base = base /\ snap'[v].proj = proj
    BY <1>1 DEF TypeOK
  <1>4. RowLocks' /\ Whole(base)' /\ ProjectionCurrent' /\ PublishedOK'
    BY Zenon, <1>1
       DEF ProjectionInv, RowLocks, Whole, ProjectionCurrent, Representation, PublishedOK, Touched
  <1>5. VersionsOwned'
    <2>1. ASSUME NEW v, NEW row \in Rows, NEW n, Avoids(v, row, n) PROVE Avoids(v, row, n)'
      BY Zenon, <1>1, <1>3, <2>1 DEF Avoids, Told
    <2>2. ASSUME NEW n, Unused(n) PROVE Unused(n)'
      BY ZenonT(30), <1>1, <1>3, <2>2 DEF Unused, Told
    <2>3. \A v \in Writers : wrote[v] \subseteq Rows
      BY Zenon DEF TypeOK
    <2> QED
      BY Zenon, <1>1, <2>1, <2>2, <2>3 DEF ProjectionInv, VersionsOwned
  <1>6. ASSUME NEW v \in Writers PROVE WritesWhole(v)' /\ SnapshotOK(v)' /\ FlushedOK(v)'
    <2>1. CASE v = w
      <3>1. wrote'[v] = {} /\ published'[v] = {} /\ \A r \in Resources : ~Touched(v, r)'
        BY Zenon, <1>1, <1>2, <2>1 DEF Touched
      <3>2. WritesWhole(v)' /\ FlushedOK(v)'
        BY Zenon, <3>1 DEF WritesWhole, FlushedOK
      <3>3. Whole(snap'[v].base) /\ \A r \in Resources :
                snap'[v].proj[r].rep = Representation(snap'[v].base, r)
        <4>1. CASE snap'[v] = snap[v]
          BY Zenon, <4>1 DEF ProjectionInv, SnapshotOK
        <4>2. CASE snap'[v].base = base /\ snap'[v].proj = proj
          BY Zenon, <4>2 DEF ProjectionInv, ProjectionCurrent
        <4> QED
          BY Zenon, <1>3, <4>1, <4>2
      <3>4. SnapshotOK(v)'
        BY Zenon, <3>1, <3>3 DEF SnapshotOK, Whole, Representation
      <3> QED
        BY Zenon, <3>2, <3>4
    <2>2. CASE v # w
      <3>1. snap'[v] = snap[v] /\ flushed'[v] = flushed[v]
        BY Zenon, <1>3, <2>2
      <3>2. FlushedOK(v)'
        BY Zenon, <1>1, <3>1, FlushedKept DEF ProjectionInv
      <3>3. Sees(v)' = Sees(v)
        BY Zenon, <1>1, <3>1 DEF Sees
      <3>4. WritesWhole(v)'
        BY Zenon, <1>1, <3>3 DEF ProjectionInv, WritesWhole
      <3>5. SnapshotOK(v)'
        BY Zenon, <1>1, <3>1, SnapshotStays DEF ProjectionInv
      <3> QED
        BY Zenon, <3>2, <3>4, <3>5
    <2> QED
      BY Zenon, <2>1, <2>2
  <1> QED
    BY Zenon, <1>4, <1>5, <1>6 DEF ProjectionInv

(* A write: the rows become those of w, under a version of their own or none. *)
LEMMA SetRowsProjection ==
    ASSUME TypeOK, ProjectionInv, NEW w \in Writers, NEW rs, rs \subseteq Rows, NEW n \in Nat,
           Writable(w, rs), SetRows(w, rs, n), WritesWhole(w)',
           n # 0 => \A row \in Rows : Avoids(w, row, n),
           \A k \in Nat : k > version' => k # n /\ Unused(k)
    PROVE  ProjectionInv'
  <1>1. /\ UNCHANGED <<base, proj, lock, published, projs, snap>>
        /\ wrote' = [wrote EXCEPT ![w] = @ \cup rs]
        /\ vals' = [vals EXCEPT ![w] = [row \in Rows |-> IF row \in rs THEN n ELSE @[row]]]
        /\ flushed' = [flushed EXCEPT ![w] = FALSE]
    BY Zenon DEF SetRows
  <1>2. /\ \A v \in Writers \ {w} : wrote'[v] = wrote[v] /\ vals'[v] = vals[v]
                                    /\ flushed'[v] = flushed[v]
        /\ wrote'[w] = wrote[w] \cup rs /\ ~flushed'[w]
        /\ \A row \in Rows : vals'[w][row] = IF row \in rs THEN n ELSE vals[w][row]
    <2>1. /\ wrote \in [Writers -> SUBSET Rows] /\ flushed \in [Writers -> BOOLEAN]
          /\ vals \in [Writers -> [Rows -> 0..MaxVersion]]
      BY Zenon DEF TypeOK
    <2> QED
      BY ZenonT(30), <1>1, <2>1
  <1>3. \A v \in Writers : wrote[v] \subseteq Rows
    BY Zenon DEF TypeOK
  <1>4. RowLocks'
    <2>1. \A v \in Writers \ {w} : rs \cap wrote[v] = {}
      BY Zenon DEF Writable, LockedByOthers
    <2>2. \A u, v \in Writers : u # v => wrote[u] \cap wrote[v] = {}
      BY Zenon DEF ProjectionInv, RowLocks
    <2>3. ASSUME NEW v \in Writers \ {w} PROVE wrote'[v] \cap wrote'[w] = {}
      BY Zenon, <1>2, <2>1, <2>2
    <2>4. ASSUME NEW u \in Writers, NEW v \in Writers, u # v PROVE wrote'[u] \cap wrote'[v] = {}
      <3>1. CASE u # w /\ v # w
        BY Zenon, <1>2, <2>2, <2>4, <3>1
      <3>2. CASE u = w \/ v = w
        BY Zenon, <2>3, <2>4, <3>2
      <3> QED
        BY Zenon, <3>1, <3>2
    <2> QED
      BY Zenon, <2>4 DEF RowLocks
  <1>5. PublishedOK'
    <2>1. ASSUME NEW v \in Writers, NEW r \in Resources, Touched(v, r) PROVE Touched(v, r)'
      BY Zenon, <1>2, <2>1 DEF Touched
    <2>2. \A v \in Writers : published[v] \subseteq Resources
      BY Zenon DEF TypeOK
    <2> QED
      BY Zenon, <1>1, <2>1, <2>2 DEF ProjectionInv, PublishedOK
  <1>6. Whole(base)' /\ ProjectionCurrent'
    BY Zenon, <1>1 DEF ProjectionInv, Whole, ProjectionCurrent, Representation
  <1>7. VersionsOwned'
    <2>1. ASSUME NEW v, NEW row, NEW k, Avoids(v, row, k) PROVE Avoids(v, row, k)'
      BY Zenon, <1>1, <2>1 DEF Avoids, Told
    <2>2. ASSUME NEW v \in Writers, NEW row \in wrote'[v], vals'[v][row] # 0
          PROVE  Avoids(v, row, vals'[v][row])
      <3>1. CASE v = w /\ row \in rs
        BY Zenon, <1>2, <2>2, <3>1
      <3>2. CASE v = w /\ row \notin rs
        <4>1. row \in wrote[w] /\ row \in Rows /\ vals'[w][row] = vals[w][row]
          BY Zenon, <1>2, <1>3, <2>2, <3>2
        <4> QED
          BY Zenon, <2>2, <3>2, <4>1 DEF ProjectionInv, VersionsOwned
      <3>3. CASE v # w
        BY Zenon, <1>2, <2>2, <3>3 DEF ProjectionInv, VersionsOwned
      <3> QED
        BY Zenon, <3>1, <3>2, <3>3
    <2>3. ASSUME NEW k \in Nat, k > version' PROVE Unused(k)'
      <3>1. k # n /\ Unused(k)
        BY Zenon, <2>3
      <3>0. \A v \in Writers, row \in Rows : row \in wrote[v] => vals[v][row] # k
        BY Zenon, <3>1 DEF Unused
      <3>2. ASSUME NEW v \in Writers, NEW row \in Rows, row \in wrote'[v] PROVE vals'[v][row] # k
        <4>1. CASE v = w /\ row \in rs
          BY Zenon, <1>2, <3>1, <4>1
        <4>2. CASE v = w /\ row \notin rs
          <5>1. vals'[v][row] = vals[v][row] /\ row \in wrote[v]
            BY Zenon, <1>2, <3>2, <4>2
          <5> QED
            BY Zenon, <3>0, <5>1
        <4>3. CASE v # w
          <5>1. vals'[v] = vals[v] /\ row \in wrote[v]
            BY Zenon, <1>2, <3>2, <4>3
          <5> QED
            BY Zenon, <3>0, <5>1
        <4> QED
          BY Zenon, <4>1, <4>2, <4>3
      <3> QED
        BY Zenon, <1>1, <3>1, <3>2 DEF Unused, Told
    <2> QED
      BY Zenon, <2>1, <2>2, <2>3 DEF VersionsOwned
  <1>8. ASSUME NEW v \in Writers PROVE WritesWhole(v)' /\ SnapshotOK(v)' /\ FlushedOK(v)'
    <2>1. CASE v = w
      <3>1. w \in Serializable => \A row \in wrote'[w] : base[row] = snap[w].base[row]
        BY Zenon, <1>2 DEF Writable, ProjectionInv, SnapshotOK
      <3>2. w \in Serializable => \A r \in published[w] : proj[r] = snap[w].proj[r]
        BY Zenon DEF ProjectionInv, SnapshotOK
      <3>3. SnapshotOK(w)'
        BY Zenon, <1>1, <3>1, <3>2, SnapshotKept DEF ProjectionInv
      <3> QED
        BY Zenon, <1>2, <2>1, <3>3 DEF FlushedOK
    <2>2. CASE v # w
      <3>1. /\ wrote'[v] = wrote[v] /\ vals'[v] = vals[v] /\ flushed'[v] = flushed[v]
            /\ Sees(v)' = Sees(v)
        BY Zenon, <1>1, <1>2, <2>2 DEF Sees
      <3>2. WritesWhole(v)'
        BY Zenon, <1>1, <3>1 DEF ProjectionInv, WritesWhole
      <3>3. SnapshotOK(v)'
        BY Zenon, <1>1, <3>1, SnapshotStays DEF ProjectionInv
      <3>4. FlushedOK(v)'
        BY Zenon, <1>1, <3>1, FlushedKept DEF ProjectionInv
      <3> QED
        BY Zenon, <3>2, <3>3, <3>4
    <2> QED
      BY Zenon, <2>1, <2>2
  <1> QED
    BY Zenon, <1>4, <1>5, <1>6, <1>7, <1>8 DEF ProjectionInv

(* A version that nothing has is avoided.                                     *)
LEMMA UnusedIsAvoided ==
    ASSUME NEW n, Unused(n), NEW w, NEW row \in Rows PROVE Avoids(w, row, n)
  BY Zenon DEF Unused, Avoids

(* A write gives one row a new version. *)
LEMMA WriteProjection ==
    ASSUME TypeOK, ProjectionInv, NEW w \in Writers, NEW row \in Rows, Write(w, row)
    PROVE  ProjectionInv'
  <1> DEFINE n == version + 1
  <1>1. /\ n \in Nat /\ n # 0 /\ n > version /\ version' = n
        /\ \A k \in Nat : k > n => k # n /\ k > version
    <2>1. version \in Nat /\ version' = version + 1
      BY BoundsAssumption DEF TypeOK, Write
    <2> QED
      BY <2>1
  <1> HIDE DEF n
  <1>2. Writable(w, {row}) /\ SetRows(w, {row}, n) /\ UNCHANGED <<base, snap>>
    BY Zenon DEF Write, SetRows, n
  <1>3. \A r : row = Side(r) =>
            View(w)[Main(r)] # 0 /\ (Main(r) \in wrote[w] \/ base[Main(r)] # 0)
    <2> SUFFICES ASSUME NEW r, row = Side(r)
                 PROVE  View(w)[Main(r)] # 0 /\ (Main(r) \in wrote[w] \/ base[Main(r)] # 0)
      BY Zenon
    <2>1. row[2] = "side" /\ row[1] = r
      BY DEF Side
    <2> QED
      BY Zenon, <2>1 DEF Write
  <1>4. \A k \in Nat : k > version' => k # n /\ Unused(k)
    BY Zenon, <1>1 DEF ProjectionInv, VersionsOwned
  <1>5. n # 0 => \A r \in Rows : Avoids(w, r, n)
    BY Zenon, <1>1, UnusedIsAvoided DEF ProjectionInv, VersionsOwned
  <1>6. /\ wrote'[w] = wrote[w] \cup {row}
        /\ \A r \in Rows : vals'[w][r] = IF r = row THEN n ELSE vals[w][r]
    <2>1. /\ wrote \in [Writers -> SUBSET Rows] /\ vals \in [Writers -> [Rows -> 0..MaxVersion]]
      BY Zenon DEF TypeOK
    <2>2. /\ wrote' = [wrote EXCEPT ![w] = @ \cup {row}]
          /\ vals' = [vals EXCEPT ![w] = [r \in Rows |-> IF r \in {row} THEN n ELSE @[r]]]
      BY Zenon, <1>2 DEF SetRows
    <2> QED
      BY ZenonT(30), <2>1, <2>2
  <1>7. WritesWhole(w)'
    <2>1. Sees(w)'.base = Sees(w).base
      BY <1>2 DEF Sees
    <2>2. ASSUME NEW r \in Resources
          PROVE  /\ Main(r) \in wrote'[w] /\ vals'[w][Main(r)] = 0
                       => Side(r) \in wrote'[w] /\ vals'[w][Side(r)] = 0
                 /\ Side(r) \in wrote'[w] /\ Main(r) \notin wrote'[w]
                       => vals'[w][Side(r)] # 0 /\ base[Main(r)] # 0 /\ Sees(w).base[Main(r)] # 0
      <3>1. /\ Main(r) \in Rows /\ Side(r) \in Rows /\ Main(r) # Side(r)
            /\ View(w)[Main(r)] = IF Main(r) \in wrote[w] THEN vals[w][Main(r)]
                                  ELSE Sees(w).base[Main(r)]
        BY Zenon, RowFacts DEF View
      <3>2. /\ Main(r) \in wrote[w] /\ vals[w][Main(r)] = 0
                  => Side(r) \in wrote[w] /\ vals[w][Side(r)] = 0
            /\ Side(r) \in wrote[w] /\ Main(r) \notin wrote[w]
                  => vals[w][Side(r)] # 0 /\ base[Main(r)] # 0 /\ Sees(w).base[Main(r)] # 0
        BY Zenon DEF ProjectionInv, WritesWhole
      <3>3. CASE row = Side(r)
        BY Zenon, <1>1, <1>3, <1>6, <3>1, <3>2, <3>3
      <3>4. CASE row = Main(r)
        BY Zenon, <1>1, <1>6, <3>1, <3>2, <3>4
      <3>5. CASE row # Main(r) /\ row # Side(r)
        BY Zenon, <1>6, <3>1, <3>2, <3>5
      <3> QED
        BY Zenon, <3>3, <3>4, <3>5
    <2> QED
      BY Zenon, <1>2, <2>1, <2>2 DEF WritesWhole
  <1> QED
    BY Zenon, <1>1, <1>2, <1>4, <1>5, <1>7, SetRowsProjection

(* A deletion gives both rows of the resource none. *)
LEMMA RemoveProjection ==
    ASSUME TypeOK, ProjectionInv, NEW w \in Writers, NEW q \in Resources, Remove(w, q)
    PROVE  ProjectionInv'
  <1> DEFINE rs == {Main(q), Side(q)}
  <1>1. rs \subseteq Rows /\ Writable(w, rs) /\ SetRows(w, rs, 0) /\ UNCHANGED <<base, snap, version>>
    BY Zenon, RowFacts DEF Remove, SetRows
  <1>2. 0 \in Nat /\ \A k \in Nat : k > version => k # 0
    <2>1. version \in Nat
      BY BoundsAssumption DEF TypeOK
    <2> QED
      BY <2>1
  <1>3. \A k \in Nat : k > version' => k # 0 /\ Unused(k)
    BY Zenon, <1>1, <1>2 DEF ProjectionInv, VersionsOwned
  <1>4. /\ wrote'[w] = wrote[w] \cup rs
        /\ \A r \in Rows : vals'[w][r] = IF r \in rs THEN 0 ELSE vals[w][r]
    <2>1. /\ wrote \in [Writers -> SUBSET Rows] /\ vals \in [Writers -> [Rows -> 0..MaxVersion]]
      BY Zenon DEF TypeOK
    <2>2. /\ wrote' = [wrote EXCEPT ![w] = @ \cup rs]
          /\ vals' = [vals EXCEPT ![w] = [r \in Rows |-> IF r \in rs THEN 0 ELSE @[r]]]
      BY Zenon, <1>1 DEF SetRows
    <2> QED
      BY ZenonT(30), <2>1, <2>2
  <1>5. WritesWhole(w)'
    <2>1. Sees(w)'.base = Sees(w).base
      BY <1>1 DEF Sees
    <2>2. ASSUME NEW r \in Resources
          PROVE  /\ Main(r) \in wrote'[w] /\ vals'[w][Main(r)] = 0
                       => Side(r) \in wrote'[w] /\ vals'[w][Side(r)] = 0
                 /\ Side(r) \in wrote'[w] /\ Main(r) \notin wrote'[w]
                       => vals'[w][Side(r)] # 0 /\ base[Main(r)] # 0 /\ Sees(w).base[Main(r)] # 0
      <3>1. Main(r) \in Rows /\ Side(r) \in Rows
        BY Zenon, RowFacts
      <3>2. CASE r = q
        BY Zenon, <1>4, <3>1, <3>2
      <3>3. CASE r # q
        <4>1. Main(r) \notin rs /\ Side(r) \notin rs
          BY <3>3 DEF Main, Side
        <4>2. /\ Main(r) \in wrote[w] /\ vals[w][Main(r)] = 0
                    => Side(r) \in wrote[w] /\ vals[w][Side(r)] = 0
              /\ Side(r) \in wrote[w] /\ Main(r) \notin wrote[w]
                    => vals[w][Side(r)] # 0 /\ base[Main(r)] # 0 /\ Sees(w).base[Main(r)] # 0
          BY Zenon DEF ProjectionInv, WritesWhole
        <4> QED
          BY Zenon, <1>4, <3>1, <4>1, <4>2
      <3> QED
        BY Zenon, <3>2, <3>3
    <2> QED
      BY Zenon, <1>1, <2>1, <2>2 DEF WritesWhole
  <1> HIDE DEF rs
  <1> QED
    BY Zenon, <1>1, <1>2, <1>3, <1>5, SetRowsProjection

(* Publish: under the lock, what is pending is stored as the rows of w give.  *)
LEMMA PublishProjection ==
    ASSUME TypeOK, LockOK, ProjectionInv, NEW w \in Writers, Publish(w) PROVE ProjectionInv'
  <1>1. /\ UNCHANGED <<base, version, proj, lock, wrote, vals, snap>>
        /\ lock = w /\ NoSerializationFailure(w, Pending(w))
        /\ published' = [published EXCEPT ![w] = @ \cup Pending(w)]
        /\ flushed' = [flushed EXCEPT ![w] = TRUE]
    BY Zenon DEF Publish, LockOK
  <1>2. PICK f : projs' = [projs EXCEPT ![w] = [r \in Resources |->
                IF r \notin Pending(w) THEN @[r]
                ELSE IF View(w)[Main(r)] = 0 THEN NoProjection
                ELSE [rep |-> Representation(View(w), r), rev |-> f[r]]]]
    BY Zenon DEF Publish
  <1>3. /\ published \in [Writers -> SUBSET Resources] /\ flushed \in [Writers -> BOOLEAN]
        /\ projs \in [Writers -> [Resources -> Projection]]
        /\ \A v \in Writers : wrote[v] \subseteq Rows /\ published[v] \subseteq Resources
        /\ Pending(w) \subseteq Resources
    BY Zenon DEF TypeOK, Pending
  <1>4. /\ \A v \in Writers \ {w} : /\ published'[v] = published[v] /\ projs'[v] = projs[v]
                                    /\ flushed'[v] = flushed[v]
        /\ published'[w] = published[w] \cup Pending(w)
    BY Zenon, <1>1, <1>2, <1>3
  <1>5. ASSUME NEW r \in Resources \ Pending(w) PROVE projs'[w][r] = projs[w][r]
    BY Zenon, <1>2, <1>3
  <1>6. ASSUME NEW r \in Pending(w) PROVE projs'[w][r].rep = Representation(View(w), r)
    <2>1. r \in Resources
      BY Zenon, <1>3
    <2>2. CASE View(w)[Main(r)] = 0
      <3>1. projs'[w][r] = NoProjection
        BY Zenon, <1>2, <1>3, <1>6, <2>1, <2>2
      <3> QED
        BY Zenon, <2>2, <3>1, EmptyFacts, RepresentationIs
    <2>3. CASE View(w)[Main(r)] # 0
      <3>1. projs'[w][r] = [rep |-> Representation(View(w), r), rev |-> f[r]]
        BY Zenon, <1>2, <1>3, <1>6, <2>1, <2>3
      <3> QED
        BY <3>1
    <2> QED
      BY Zenon, <2>2, <2>3
  <1>7. ASSUME NEW r \in Resources, NEW v \in Writers PROVE Touched(v, r)' <=> Touched(v, r)
    BY Zenon, <1>1 DEF Touched
  <1>8. ASSUME NEW r \in Pending(w)
        PROVE  Touched(w, r) /\ (w \in Serializable => proj[r] = snap[w].proj[r])
    <2>1. Touched(w, r)
      BY Zenon, <1>8 DEF Pending, Touched
    <2>2. w \in Serializable => proj[r] = snap[w].proj[r]
      BY Zenon, <1>1, <1>8 DEF NoSerializationFailure, ProjectionInv, SnapshotOK
    <2> QED
      BY Zenon, <2>1, <2>2
  <1>9. RowLocks' /\ Whole(base)' /\ ProjectionCurrent'
    BY Zenon, <1>1 DEF ProjectionInv, RowLocks, Whole, ProjectionCurrent, Representation
  <1>10. PublishedOK'
    <2>1. ASSUME NEW v \in Writers, NEW r \in published'[v] PROVE Touched(v, r)' /\ lock' = v
      <3>1. CASE r \in published[v]
        <4>1. r \in Resources /\ Touched(v, r) /\ lock = v
          BY Zenon, <1>3, <3>1 DEF ProjectionInv, PublishedOK
        <4> QED
          BY Zenon, <1>1, <1>7, <4>1
      <3>2. CASE r \notin published[v]
        <4>1. v = w /\ r \in Pending(w)
          BY Zenon, <1>4, <2>1, <3>2
        <4> QED
          BY Zenon, <1>1, <1>3, <1>7, <1>8, <4>1
      <3> QED
        BY Zenon, <3>1, <3>2
    <2> QED
      BY Zenon, <2>1 DEF PublishedOK
  <1>11. VersionsOwned'
    <2>1. ASSUME NEW row \in Rows, row[1] \in published'[w], NEW n, n # 0, View(w)[row] # n,
                 row[1] \in published[w] => Told(projs[w][row[1]], row) # n
          PROVE  Told(projs'[w][row[1]], row) # n
      <3>1. row[1] \in Resources
        BY Zenon, RowFacts
      <3>2. CASE row[1] \in Pending(w)
        BY Zenon, <1>6, <2>1, <3>2, ToldIs
      <3>3. CASE row[1] \notin Pending(w)
        <4>1. projs'[w][row[1]] = projs[w][row[1]] /\ row[1] \in published[w]
          BY Zenon, <1>4, <1>5, <2>1, <3>1, <3>3
        <4> QED
          BY Zenon, <2>1, <4>1
      <3> QED
        BY Zenon, <3>2, <3>3
    <2>2. ASSUME NEW row \in Rows, row \notin wrote[w] PROVE View(w)[row] \in {base[row], snap[w].base[row]}
      <3>1. View(w)[row] = Sees(w).base[row]
        BY Zenon, <2>2 DEF View
      <3>2. Sees(w).base = snap[w].base \/ Sees(w).base = base
        BY DEF Sees
      <3> QED
        BY Zenon, <3>1, <3>2
    <2>3. ASSUME NEW v \in Writers, NEW row \in wrote[v], vals[v][row] # 0
          PROVE  Avoids(v, row, vals[v][row])'
      <3> DEFINE n == vals[v][row]
      <3>1. row \in Rows /\ Avoids(v, row, n)
        BY Zenon, <1>3, <2>3 DEF ProjectionInv, VersionsOwned
      <3> HIDE DEF n
      <3>2. /\ base[row] # n /\ Told(proj[row[1]], row) # n
            /\ \A u \in Writers :
                   /\ snap[u].base[row] # n
                   /\ u # v /\ row[1] \in published[u] => Told(projs[u][row[1]], row) # n
        BY Zenon, <3>1 DEF Avoids
      <3>3. ASSUME NEW u \in Writers, u # v, row[1] \in published'[u]
            PROVE  Told(projs'[u][row[1]], row) # n
        <4>1. CASE u # w
          BY Zenon, <1>4, <3>2, <3>3, <4>1
        <4>2. CASE u = w
          <5>1. row \notin wrote[w]
            BY Zenon, <2>3, <3>3, <4>2 DEF ProjectionInv, RowLocks
          <5>2. View(w)[row] # n
            BY Zenon, <2>2, <3>1, <3>2, <5>1
          <5> QED
            BY Zenon, <2>1, <2>3, <3>1, <3>2, <3>3, <4>2, <5>2 DEF n
        <4> QED
          BY Zenon, <4>1, <4>2
      <3>4. Avoids(v, row, n)'
        BY Zenon, <1>1, <3>2, <3>3 DEF Avoids, Told, n
      <3> QED
        BY Zenon, <1>1, <3>4 DEF n
    <2>4. ASSUME NEW n \in Nat, n > version PROVE Unused(n)'
      <3>1. Unused(n) /\ n # 0
        <4>1. version \in Nat
          BY BoundsAssumption DEF TypeOK
        <4>2. n # 0
          BY <2>4, <4>1
        <4> QED
          BY Zenon, <2>4, <4>2 DEF ProjectionInv, VersionsOwned
      <3>2. ASSUME NEW u \in Writers, NEW row \in Rows, row[1] \in published'[u]
            PROVE  Told(projs'[u][row[1]], row) # n
        <4>1. /\ base[row] # n /\ snap[w].base[row] # n
              /\ row \in wrote[w] => vals[w][row] # n
              /\ row[1] \in published[u] => Told(projs[u][row[1]], row) # n
          BY Zenon, <3>1 DEF Unused
        <4>2. CASE u # w
          BY Zenon, <1>4, <3>2, <4>1, <4>2
        <4>3. CASE u = w
          <5>1. row \in wrote[w] => View(w)[row] = vals[w][row]
            BY Zenon DEF View
          <5>2. View(w)[row] # n
            BY Zenon, <2>2, <4>1, <5>1
          <5> QED
            BY Zenon, <2>1, <3>1, <3>2, <4>1, <4>3, <5>2
        <4> QED
          BY Zenon, <4>2, <4>3
      <3>3. ASSUME NEW row \in Rows, NEW v \in Writers
            PROVE  /\ base[row] # n /\ Told(proj[row[1]], row) # n /\ snap[v].base[row] # n
                   /\ row \in wrote[v] => vals[v][row] # n
        BY Zenon, <3>1 DEF Unused
      <3> QED
        BY Zenon, <1>1, <3>2, <3>3 DEF Unused, Told
    <2> QED
      BY Zenon, <1>1, <2>3, <2>4 DEF VersionsOwned
  <1>12. ASSUME NEW v \in Writers PROVE WritesWhole(v)'
    <2>1. Sees(v)' = Sees(v)
      BY Zenon, <1>1 DEF Sees
    <2> QED
      BY Zenon, <1>1, <2>1 DEF ProjectionInv, WritesWhole
  <1>13. ASSUME NEW v \in Writers PROVE SnapshotOK(v)'
    <2>1. CASE v # w
      BY Zenon, <1>1, <1>4, <2>1, SnapshotStays DEF ProjectionInv
    <2>2. CASE v = w
      <3>1. w \in Serializable => /\ \A row \in wrote'[w] : base'[row] = snap[w].base[row]
                                  /\ \A r \in published'[w] : proj'[r] = snap[w].proj[r]
        BY Zenon, <1>1, <1>4, <1>8 DEF ProjectionInv, SnapshotOK
      <3> QED
        BY Zenon, <1>1, <2>2, <3>1, SnapshotKept DEF ProjectionInv
    <2> QED
      BY Zenon, <2>1, <2>2
  <1>14. ASSUME NEW v \in Writers PROVE FlushedOK(v)'
    <2>1. CASE v # w
      BY Zenon, <1>1, <1>4, <2>1, FlushedKept DEF ProjectionInv
    <2>2. CASE v = w
      <3>1. After(w)' = After(w)
        BY Zenon, <1>1 DEF After
      <3>2. ASSUME NEW r \in Resources, Touched(w, r)
            PROVE  StoredAfter(w, r)'.rep = Representation(After(w), r)
        <4>1. CASE r \in Pending(w)
          <5>1. StoredAfter(w, r)' = projs'[w][r]
            BY Zenon, <1>4, <4>1 DEF StoredAfter
          <5>2. Representation(View(w), r) = Representation(After(w), r)
            BY Zenon, <1>8, <4>1, ViewIsAfter
          <5> QED
            BY Zenon, <1>6, <4>1, <5>1, <5>2
        <4>2. CASE r \notin Pending(w)
          <5>1. Representation(View(w), r) = Stored(w, r).rep
            <6>1. {Main(r), Side(r)} \cap wrote[w] # {}
              BY Zenon, <3>2 DEF Touched
            <6> QED
              BY Zenon, <4>2, <6>1 DEF Pending
          <5>2. StoredAfter(w, r)' = StoredAfter(w, r)
            BY Zenon, <1>1, <1>4, <1>5, <4>2 DEF StoredAfter
          <5> QED
            BY Zenon, <3>2, <5>1, <5>2, NotPending
        <4> QED
          BY Zenon, <4>1, <4>2
      <3>3. ASSUME NEW r \in Resources
            PROVE  Representation(After(w), r)' = Representation(After(w), r)
        BY Zenon, <3>1 DEF Representation
      <3> QED
        BY Zenon, <1>7, <2>2, <3>2, <3>3 DEF FlushedOK
    <2> QED
      BY Zenon, <2>1, <2>2
  <1> QED
    BY Zenon, <1>9, <1>10, <1>11, <1>12, <1>13, <1>14 DEF ProjectionInv

(* What ends with a transaction, and what it leaves to the others.            *)
LEMMA EndFacts ==
    ASSUME TypeOK, NEW w \in Writers, End(w)
    PROVE  /\ \A v \in Writers \ {w} : /\ wrote'[v] = wrote[v] /\ vals'[v] = vals[v]
                                       /\ published'[v] = published[v] /\ projs'[v] = projs[v]
                                       /\ flushed'[v] = flushed[v] /\ snap'[v] = snap[v]
                                       /\ lock = v => lock' = v
           /\ wrote'[w] = {} /\ published'[w] = {}
           /\ snap'[w].base = EmptyBase /\ snap'[w].proj = EmptyProj
  <1>1. /\ wrote' = [wrote EXCEPT ![w] = {}] /\ vals' = [vals EXCEPT ![w] = EmptyBase]
        /\ published' = [published EXCEPT ![w] = {}] /\ projs' = [projs EXCEPT ![w] = EmptyProj]
        /\ flushed' = [flushed EXCEPT ![w] = TRUE]
        /\ snap' = [snap EXCEPT ![w] = [base |-> EmptyBase, proj |-> EmptyProj]]
        /\ lock' = IF lock = w THEN NoWriter ELSE lock
    BY Zenon DEF End
  <1>2. /\ \E S : wrote \in [Writers -> S]
        /\ \E S : vals \in [Writers -> S]
        /\ \E S : published \in [Writers -> S]
        /\ \E S : projs \in [Writers -> S]
        /\ \E S : flushed \in [Writers -> S]
        /\ \E S : snap \in [Writers -> S]
    BY Zenon DEF TypeOK
  <1>3. ASSUME NEW v \in Writers \ {w}
        PROVE  /\ wrote'[v] = wrote[v] /\ vals'[v] = vals[v]
               /\ published'[v] = published[v] /\ projs'[v] = projs[v]
               /\ flushed'[v] = flushed[v] /\ snap'[v] = snap[v]
               /\ lock = v => lock' = v
    BY <1>1, <1>2
  <1>4. /\ wrote'[w] = {} /\ published'[w] = {}
        /\ snap'[w].base = EmptyBase /\ snap'[w].proj = EmptyProj
    BY <1>1, <1>2
  <1> QED
    BY Zenon, <1>3, <1>4

(* The end of a transaction keeps the invariant when what it commits agrees   *)
(* with what the others hold.                                                 *)
LEMMA EndProjection ==
    ASSUME TypeOK, ProjectionInv, NEW w \in Writers, End(w), version' = version,
           Whole(base)', ProjectionCurrent',
           \A row \in Rows : \/ base'[row] = base[row]
                             \/ row \in wrote[w] /\ base'[row] = vals[w][row],
           \A r \in Resources : \/ proj'[r] = proj[r]
                                \/ r \in published[w] /\ proj'[r] = projs[w][r],
           \A v \in Writers \ {w}, r \in Resources :
               Touched(v, r) /\ flushed[v] =>
                   /\ base'[Main(r)] = base[Main(r)] /\ base'[Side(r)] = base[Side(r)]
                   /\ proj'[r] = proj[r],
           \A r \in Resources : base'[Main(r)] = 0 /\ base[Main(r)] # 0 => Side(r) \in wrote[w]
    PROVE  ProjectionInv'
  <1>1. /\ \A v \in Writers \ {w} : /\ wrote'[v] = wrote[v] /\ vals'[v] = vals[v]
                                    /\ published'[v] = published[v] /\ projs'[v] = projs[v]
                                    /\ flushed'[v] = flushed[v] /\ snap'[v] = snap[v]
                                    /\ lock = v => lock' = v
        /\ wrote'[w] = {} /\ published'[w] = {}
        /\ snap'[w].base = EmptyBase /\ snap'[w].proj = EmptyProj
    BY Zenon, EndFacts
  <1>2. \A v \in Writers : wrote[v] \subseteq Rows /\ published[v] \subseteq Resources
    BY Zenon DEF TypeOK
  <1>3. \A r \in Resources : ~Touched(w, r)'
    BY Zenon, <1>1 DEF Touched
  <1>4. ASSUME NEW v \in Writers \ {w}, NEW r PROVE Touched(v, r)' <=> Touched(v, r)
    BY Zenon, <1>1 DEF Touched
  <1>5. RowLocks'
    <2>1. ASSUME NEW u \in Writers, NEW v \in Writers, u # v PROVE wrote'[u] \cap wrote'[v] = {}
      <3>1. CASE u = w \/ v = w
        BY Zenon, <1>1, <3>1
      <3>2. CASE u # w /\ v # w
        <4>1. wrote[u] \cap wrote[v] = {}
          BY Zenon, <2>1 DEF ProjectionInv, RowLocks
        <4> QED
          BY Zenon, <1>1, <3>2, <4>1
      <3> QED
        BY Zenon, <3>1, <3>2
    <2> QED
      BY Zenon, <2>1 DEF RowLocks
  <1>6. PublishedOK'
    <2>1. ASSUME NEW v \in Writers, NEW r \in published'[v] PROVE Touched(v, r)' /\ lock' = v
      <3>1. v # w /\ r \in published[v]
        BY Zenon, <1>1, <2>1
      <3>2. Touched(v, r) /\ lock = v
        BY Zenon, <3>1 DEF ProjectionInv, PublishedOK
      <3> QED
        BY Zenon, <1>1, <1>4, <3>1, <3>2
    <2> QED
      BY Zenon, <2>1 DEF PublishedOK
  <1>7. ASSUME NEW row \in Rows, NEW n, n # 0 PROVE
          /\ base[row] # n /\ (row \in wrote[w] => vals[w][row] # n) => base'[row] # n
          /\ Told(proj[row[1]], row) # n
                /\ (row[1] \in published[w] => Told(projs[w][row[1]], row) # n)
             => Told(proj'[row[1]], row) # n
          /\ \A v \in Writers : snap[v].base[row] # n => snap'[v].base[row] # n
    <2>1. \/ base'[row] = base[row]
          \/ row \in wrote[w] /\ base'[row] = vals[w][row]
      BY Zenon
    <2>2. \/ proj'[row[1]] = proj[row[1]]
          \/ row[1] \in published[w] /\ proj'[row[1]] = projs[w][row[1]]
      BY Zenon, RowFacts
    <2>3. ASSUME NEW v \in Writers, snap[v].base[row] # n PROVE snap'[v].base[row] # n
      <3>1. CASE v = w
        BY Zenon, <1>1, <1>7, <3>1, EmptyFacts
      <3>2. CASE v # w
        BY Zenon, <1>1, <2>3, <3>2
      <3> QED
        BY Zenon, <3>1, <3>2
    <2>4. base[row] # n /\ (row \in wrote[w] => vals[w][row] # n) => base'[row] # n
      BY Zenon, <2>1
    <2>5. Told(proj[row[1]], row) # n
                /\ (row[1] \in published[w] => Told(projs[w][row[1]], row) # n)
             => Told(proj'[row[1]], row) # n
      BY Zenon, <2>2
    <2> QED
      BY Zenon, <2>3, <2>4, <2>5
  <1>8. VersionsOwned'
    <2>1. ASSUME NEW v \in Writers, NEW row \in wrote'[v], vals'[v][row] # 0
          PROVE  Avoids(v, row, vals[v][row])' /\ vals'[v] = vals[v]
      <3> DEFINE n == vals[v][row]
      <3>1. /\ v # w /\ row \in wrote[v] /\ row \in Rows /\ vals'[v] = vals[v]
            /\ row \notin wrote[w]
        BY Zenon, <1>1, <1>2, <2>1 DEF ProjectionInv, RowLocks
      <3>2. n # 0 /\ Avoids(v, row, n)
        BY Zenon, <2>1, <3>1 DEF ProjectionInv, VersionsOwned
      <3> HIDE DEF n
      <3>3. /\ base[row] # n /\ Told(proj[row[1]], row) # n
            /\ \A u \in Writers :
                   /\ snap[u].base[row] # n
                   /\ u # v /\ row[1] \in published[u] => Told(projs[u][row[1]], row) # n
        BY Zenon, <3>2 DEF Avoids
      <3>4. ASSUME NEW u \in Writers
            PROVE  base'[row] # n /\ Told(proj'[row[1]], row) # n /\ snap'[u].base[row] # n
        <4>1. row \in Rows /\ n # 0 /\ (row[1] \in published[w] => Told(projs[w][row[1]], row) # n)
          BY Zenon, <3>1, <3>2, <3>3
        <4>2. base'[row] # n
          BY Zenon, <1>7, <3>1, <3>3, <4>1
        <4>3. Told(proj'[row[1]], row) # n
          BY Zenon, <1>7, <3>3, <4>1
        <4>4. snap[u].base[row] # n => snap'[u].base[row] # n
          BY Zenon, <1>7, <4>1
        <4> QED
          BY Zenon, <3>3, <4>2, <4>3, <4>4
      <3>5. ASSUME NEW u \in Writers, u # v, row[1] \in published'[u]
            PROVE  Told(projs'[u][row[1]], row) # n
        <4>1. u # w /\ row[1] \in published[u] /\ projs'[u] = projs[u]
          BY Zenon, <1>1, <3>5
        <4> QED
          BY Zenon, <3>3, <3>5, <4>1
      <3>6. vals'[v][row] = n
        BY Zenon, <3>1 DEF n
      <3>7. Avoids(v, row, vals[v][row])'
        BY Zenon, <3>4, <3>5, <3>6 DEF Avoids, Told
      <3> QED
        BY Zenon, <3>1, <3>7
    <2>2. ASSUME NEW n \in Nat, n > version' PROVE Unused(n)'
      <3>1. Unused(n) /\ n # 0
        <4>1. version \in Nat
          BY BoundsAssumption DEF TypeOK
        <4>2. n # 0 /\ n > version
          BY <2>2, <4>1
        <4> QED
          BY Zenon, <4>2 DEF ProjectionInv, VersionsOwned
      <3>2. ASSUME NEW row \in Rows, NEW v \in Writers
            PROVE  /\ base[row] # n /\ Told(proj[row[1]], row) # n /\ snap[v].base[row] # n
                   /\ row \in wrote[v] => vals[v][row] # n
                   /\ row[1] \in published[v] => Told(projs[v][row[1]], row) # n
        BY Zenon, <3>1 DEF Unused
      <3>3. ASSUME NEW row \in Rows, NEW v \in Writers
            PROVE  snap'[v].base[row] # n
        <4>1. snap[v].base[row] # n => snap'[v].base[row] # n
          BY Zenon, <1>7, <3>1
        <4> QED
          BY Zenon, <3>2, <4>1
      <3>4. ASSUME NEW row \in Rows, NEW v \in Writers
            PROVE  /\ row \in wrote'[v] => vals'[v][row] # n
                   /\ row[1] \in published'[v] => Told(projs'[v][row[1]], row) # n
        <4>1. CASE v = w
          BY Zenon, <1>1, <4>1
        <4>2. CASE v # w
          <5>1. /\ wrote'[v] = wrote[v] /\ vals'[v] = vals[v] /\ published'[v] = published[v]
                /\ projs'[v] = projs[v]
            BY Zenon, <1>1, <4>2
          <5> QED
            BY Zenon, <3>2, <5>1
        <4> QED
          BY Zenon, <4>1, <4>2
      <3>5. ASSUME NEW row \in Rows PROVE base'[row] # n /\ Told(proj'[row[1]], row) # n
        <4>1. /\ base[row] # n /\ (row \in wrote[w] => vals[w][row] # n)
              /\ Told(proj[row[1]], row) # n
              /\ row[1] \in published[w] => Told(projs[w][row[1]], row) # n
          BY Zenon, <3>2
        <4>2. base'[row] # n
          BY Zenon, <1>7, <3>1, <4>1
        <4>3. Told(proj'[row[1]], row) # n
          BY Zenon, <1>7, <3>1, <4>1
        <4> QED
          BY Zenon, <4>2, <4>3
      <3> QED
        BY Zenon, <3>3, <3>4, <3>5 DEF Unused, Told
    <2> QED
      BY Zenon, <2>1, <2>2 DEF VersionsOwned
  <1>9. ASSUME NEW v \in Writers PROVE WritesWhole(v)'
    <2>1. CASE v = w
      BY Zenon, <1>1, <2>1 DEF WritesWhole
    <2>2. CASE v # w
      <3>1. ASSUME NEW r \in Resources, Side(r) \in wrote[v], Main(r) \notin wrote[v]
            PROVE  vals[v][Side(r)] # 0 /\ base'[Main(r)] # 0 /\ Sees(v)'.base[Main(r)] # 0
        <4>1. vals[v][Side(r)] # 0 /\ base[Main(r)] # 0 /\ Sees(v).base[Main(r)] # 0
          BY Zenon, <3>1 DEF ProjectionInv, WritesWhole
        <4>2. base'[Main(r)] # 0
          <5>1. Side(r) \notin wrote[w]
            BY Zenon, <2>2, <3>1 DEF ProjectionInv, RowLocks
          <5> QED
            BY Zenon, <4>1, <5>1
        <4>3. Sees(v)'.base[Main(r)] # 0
          <5>1. snap'[v] = snap[v]
            BY Zenon, <1>1, <2>2
          <5> QED
            BY <4>1, <4>2, <5>1 DEF Sees
        <4> QED
          BY Zenon, <4>1, <4>2, <4>3
      <3>2. ASSUME NEW r \in Resources, Main(r) \in wrote[v], vals[v][Main(r)] = 0
            PROVE  Side(r) \in wrote[v] /\ vals[v][Side(r)] = 0
        BY Zenon, <3>2 DEF ProjectionInv, WritesWhole
      <3>3. wrote'[v] = wrote[v] /\ vals'[v] = vals[v]
        BY Zenon, <1>1, <2>2
      <3> QED
        BY Zenon, <3>1, <3>2, <3>3 DEF WritesWhole
    <2> QED
      BY Zenon, <2>1, <2>2
  <1>10. ASSUME NEW v \in Writers PROVE SnapshotOK(v)'
    <2>1. CASE v = w
      <3>1. Whole(snap'[w].base)
        BY Zenon, <1>1, EmptyFacts
      <3>2. ASSUME NEW r \in Resources
            PROVE  snap'[w].proj[r].rep = Representation(snap'[w].base, r)
        BY Zenon, <1>1, EmptyFacts
      <3> QED
        BY Zenon, <1>1, <2>1, <3>1, <3>2 DEF SnapshotOK, Whole, Representation
    <2>2. CASE v # w
      <3>1. ASSUME v \in Serializable, NEW row \in wrote'[v] PROVE base'[row] = snap[v].base[row]
        <4>1. row \in wrote[v] /\ row \in Rows /\ row \notin wrote[w]
          BY Zenon, <1>1, <1>2, <2>2, <3>1 DEF ProjectionInv, RowLocks
        <4>2. base[row] = snap[v].base[row]
          BY Zenon, <3>1, <4>1 DEF ProjectionInv, SnapshotOK
        <4> QED
          BY Zenon, <4>1, <4>2
      <3>2. ASSUME v \in Serializable, NEW r \in published'[v] PROVE proj'[r] = snap[v].proj[r]
        <4>1. r \in published[v] /\ r \in Resources
          BY Zenon, <1>1, <1>2, <2>2, <3>2
        <4>2. r \notin published[w]
          BY Zenon, <2>2, <4>1 DEF ProjectionInv, PublishedOK
        <4>3. proj[r] = snap[v].proj[r]
          BY Zenon, <3>2, <4>1 DEF ProjectionInv, SnapshotOK
        <4> QED
          BY Zenon, <4>1, <4>2, <4>3
      <3>3. snap'[v] = snap[v] /\ SnapshotOK(v)
        BY Zenon, <1>1, <2>2 DEF ProjectionInv
      <3> QED
        BY Zenon, <3>1, <3>2, <3>3, SnapshotKept
    <2> QED
      BY Zenon, <2>1, <2>2
  <1>11. ASSUME NEW v \in Writers PROVE FlushedOK(v)'
    <2>1. CASE v = w
      BY Zenon, <1>3, <2>1 DEF FlushedOK
    <2>2. CASE v # w
      <3>1. ASSUME flushed'[v], NEW r \in Resources, Touched(v, r)'
            PROVE  StoredAfter(v, r)'.rep = Representation(After(v)', r)
        <4>1. flushed[v] /\ Touched(v, r)
          BY Zenon, <1>1, <1>4, <2>2, <3>1
        <4>2. StoredAfter(v, r).rep = Representation(After(v), r)
          BY Zenon, <4>1 DEF ProjectionInv, FlushedOK
        <4>3. /\ base'[Main(r)] = base[Main(r)] /\ base'[Side(r)] = base[Side(r)]
              /\ proj'[r] = proj[r]
          BY Zenon, <2>2, <4>1
        <4>4. /\ wrote'[v] = wrote[v] /\ vals'[v] = vals[v] /\ published'[v] = published[v]
              /\ projs'[v] = projs[v]
          BY Zenon, <1>1, <2>2
        <4>5. StoredAfter(v, r)' = StoredAfter(v, r)
          BY Zenon, <4>3, <4>4 DEF StoredAfter
        <4>6. Main(r) \in Rows /\ Side(r) \in Rows
          BY Zenon, RowFacts
        <4>7. /\ After(v)'[Main(r)] = After(v)[Main(r)]
              /\ After(v)'[Side(r)] = After(v)[Side(r)]
          BY <4>3, <4>4, <4>6 DEF After
        <4>8. Representation(After(v)', r) = Representation(After(v), r)
          BY Zenon, <4>7, SameRows
        <4> QED
          BY Zenon, <4>2, <4>5, <4>8
      <3> QED
        BY Zenon, <3>1 DEF FlushedOK, Representation
    <2> QED
      BY Zenon, <2>1, <2>2
  <1> QED
    BY Zenon, <1>5, <1>6, <1>8, <1>9, <1>10, <1>11 DEF ProjectionInv

(* A rollback leaves rows and projections alone. *)
LEMMA RollbackProjection ==
    ASSUME TypeOK, ProjectionInv, NEW w \in Writers, Rollback(w) PROVE ProjectionInv'
  <1>1. End(w) /\ UNCHANGED <<base, version, proj>>
    BY Zenon DEF Rollback
  <1>2. Whole(base)' /\ ProjectionCurrent'
    BY Zenon, <1>1 DEF ProjectionInv, Whole, ProjectionCurrent, Representation
  <1> QED
    BY Zenon, <1>1, <1>2, EndProjection

(* A commit puts in place the rows and the projections the transaction        *)
(* flushed.                                                                   *)
LEMMA CommitProjection ==
    ASSUME TypeOK, ProjectionInv, NEW w \in Writers, Commit(w) PROVE ProjectionInv'
  <1>1. /\ End(w) /\ version' = version /\ flushed[w] /\ base' = After(w)
        /\ proj' = [r \in Resources |-> StoredAfter(w, r)]
    BY Zenon DEF Commit, After, StoredAfter
  <1>2. ASSUME NEW row \in Rows
        PROVE  IF row \in wrote[w] THEN base'[row] = vals[w][row] ELSE base'[row] = base[row]
    BY Zenon, <1>1 DEF After
  <1>3. ASSUME NEW r \in Resources
        PROVE  IF r \in published[w] THEN proj'[r] = projs[w][r] ELSE proj'[r] = proj[r]
    BY Zenon, <1>1 DEF StoredAfter
  <1>4. ASSUME NEW r \in Resources, ~Touched(w, r)
        PROVE  /\ base'[Main(r)] = base[Main(r)] /\ base'[Side(r)] = base[Side(r)]
               /\ proj'[r] = proj[r]
    BY Zenon, <1>2, <1>3, <1>4, RowFacts DEF Touched, ProjectionInv, PublishedOK
  <1>5. ASSUME NEW r \in Resources
        PROVE  /\ base'[Main(r)] = 0 => base'[Side(r)] = 0
               /\ base'[Main(r)] = 0 /\ base[Main(r)] # 0 => Side(r) \in wrote[w]
    <2>1. Main(r) \in Rows /\ Side(r) \in Rows
      BY Zenon, RowFacts
    <2>2. /\ Main(r) \in wrote[w] /\ vals[w][Main(r)] = 0
                => Side(r) \in wrote[w] /\ vals[w][Side(r)] = 0
          /\ Side(r) \in wrote[w] /\ Main(r) \notin wrote[w] => base[Main(r)] # 0
          /\ base[Main(r)] = 0 => base[Side(r)] = 0
      BY Zenon DEF ProjectionInv, WritesWhole, Whole
    <2> QED
      BY Zenon, <1>2, <2>1, <2>2
  <1>6. Whole(base)'
    BY Zenon, <1>5 DEF Whole
  <1>7. ASSUME NEW r \in Resources PROVE proj'[r].rep = Representation(base', r)
    <2>1. CASE Touched(w, r)
      BY Zenon, <1>1, <2>1 DEF ProjectionInv, FlushedOK
    <2>2. CASE ~Touched(w, r)
      <3>1. proj[r].rep = Representation(base, r)
        BY Zenon DEF ProjectionInv, ProjectionCurrent
      <3>2. /\ base'[Main(r)] = base[Main(r)] /\ base'[Side(r)] = base[Side(r)]
            /\ proj'[r] = proj[r]
        BY Zenon, <1>4, <2>2
      <3>3. Representation(base', r) = Representation(base, r)
        BY Zenon, <3>2, SameRows
      <3> QED
        BY Zenon, <3>1, <3>2, <3>3
    <2> QED
      BY Zenon, <2>1, <2>2
  <1>8. ProjectionCurrent'
    BY Zenon, <1>7 DEF ProjectionCurrent, Representation
  <1>9. ASSUME NEW v \in Writers \ {w}, NEW r \in Resources, Touched(v, r), flushed[v]
        PROVE  ~Touched(w, r)
    BY Zenon, <1>1, <1>9, NoConflict
  <1>10. \A v \in Writers \ {w}, r \in Resources :
             Touched(v, r) /\ flushed[v] =>
                 /\ base'[Main(r)] = base[Main(r)] /\ base'[Side(r)] = base[Side(r)]
                 /\ proj'[r] = proj[r]
    BY Zenon, <1>4, <1>9
  <1>11. /\ \A row \in Rows : \/ base'[row] = base[row]
                              \/ row \in wrote[w] /\ base'[row] = vals[w][row]
         /\ \A r \in Resources : \/ proj'[r] = proj[r]
                                 \/ r \in published[w] /\ proj'[r] = projs[w][r]
         /\ \A r \in Resources :
                base'[Main(r)] = 0 /\ base[Main(r)] # 0 => Side(r) \in wrote[w]
    BY Zenon, <1>2, <1>3, <1>5
  <1> QED
    BY Zenon, <1>1, <1>6, <1>8, <1>10, <1>11, EndProjection

(* Every step keeps the invariant of the projections. *)
LEMMA NextProjection == TypeOK /\ LockOK /\ ProjectionInv /\ [Next]_vars => ProjectionInv'
  <1> SUFFICES ASSUME TypeOK, LockOK, ProjectionInv, [Next]_vars PROVE ProjectionInv'
    OBVIOUS
  <1>1. ASSUME NEW w \in Writers, Transaction(w) PROVE ProjectionInv'
    BY Zenon, <1>1, BeginProjection, PublishNothingProjection, LockFeedProjection,
       PublishProjection, CommitProjection, RollbackProjection, WriteProjection,
       RemoveProjection DEF Transaction
  <1>2. ASSUME NEW p \in Purgers, PurgeRead(p) \/ PurgeCommit(p) PROVE ProjectionInv'
    <2>1. UNCHANGED <<base, version, proj, lock, wrote, vals, published, projs, flushed, snap>>
      BY <1>2 DEF PurgeRead, PurgeCommit, database, txs
    <2> QED
      BY Zenon, <2>1, QuietProjection
  <1>3. ASSUME NEW c \in Consumers, CaptureEventCursor(c) \/ CursorExpired(c) \/ ReadEvents(c)
        PROVE  ProjectionInv'
    <2>1. UNCHANGED <<base, version, proj, lock, wrote, vals, published, projs, flushed, snap>>
      BY <1>3 DEF CaptureEventCursor, CursorExpired, ReadEvents, database, txs
    <2> QED
      BY Zenon, <2>1, QuietProjection
  <1>4. CASE UNCHANGED vars
    <2>1. UNCHANGED <<base, version, proj, lock, wrote, vals, published, projs, flushed, snap>>
      BY <1>4 DEF vars
    <2> QED
      BY Zenon, <2>1, QuietProjection
  <1> QED
    BY Zenon, <1>1, <1>2, <1>3, <1>4 DEF Next

-----------------------------------------------------------------------------
INSTANCE FiniteSetTheorems

(* The maximum of a set of positions. *)

(* A nonempty bounded set of naturals has a maximum. *)
LEMMA MaximumExists ==
    ASSUME NEW S, S \subseteq Nat, S # {}, NEW b \in Nat, \A x \in S : x <= b
    PROVE  \E x \in S : \A y \in S : y <= x
<1> DEFINE T == {n \in Nat : n <= b /\ b - n \in S}
           R == OpToRel(<, Nat)
<1>1. IsWellFoundedOn(R, Nat)
  BY ZenonT(30), NatLessThanWellFounded
<1>2. \A x \in S : b - x \in T /\ b - (b - x) = x
  OBVIOUS
<1>3. T \subseteq Nat /\ T # {}
  BY ZenonT(30), <1>2
<1> HIDE DEF R
<1>4. PICK m \in T : \A y \in T : ~(<<y, m>> \in R)
  BY ZenonT(30), <1>1, <1>3, WFMin
<1>5. \A y \in T : ~(y < m)
  BY ZenonT(30), <1>3, <1>4 DEF R, OpToRel
<1>6. b - m \in S /\ m \in Nat /\ m <= b
  OBVIOUS
<1>7. ASSUME NEW y \in S PROVE y <= b - m
  <2>1. ~(b - y < m) /\ y \in Nat /\ y <= b
    BY <1>2, <1>5
  <2> QED
    BY <1>6, <2>1
<1> QED
  BY <1>6, <1>7

(* MaxOf is the maximum of its set, or the default of an empty one. *)
LEMMA MaxOfIsMaximum ==
    ASSUME NEW S, S \subseteq Nat, NEW b \in Nat, \A x \in S : x <= b
    PROVE  /\ MaxOf(S, 0) \in Nat /\ MaxOf(S, 0) <= b
           /\ \A x \in S : x <= MaxOf(S, 0)
           /\ S # {} => MaxOf(S, 0) \in S
           /\ S = {} => MaxOf(S, 0) = 0
<1>1. CASE S = {}
  BY <1>1 DEF MaxOf
<1>2. CASE S # {}
  <2>1. \E x \in S : \A y \in S : y <= x
    BY ZenonT(30), <1>2, MaximumExists
  <2> DEFINE m == CHOOSE x \in S : \A y \in S : y <= x
  <2>2. m \in S /\ \A y \in S : y <= m
    BY ZenonT(30), <2>1
  <2>3. MaxOf(S, 0) = m
    BY ZenonT(30), <1>2 DEF MaxOf
  <2> HIDE DEF m
  <2> QED
    BY <1>2, <2>2, <2>3
<1> QED
  BY <1>1, <1>2

(* The positions and the bounds are numbers. *)
LEMMA Numbers ==
    ASSUME TypeOK
    PROVE  /\ head \in Nat /\ head <= MaxSequence /\ floor \in Nat /\ floor <= head
           /\ MaxSequence \in Nat
           /\ \A e \in log : e.seq \in Nat
           /\ \A w \in Writers : \A e \in evs[w] : e.seq \in Nat
           /\ \A c \in Consumers : cursor[c].position \in Nat
           /\ \A p \in Purgers : purge[p].floor \in Nat /\ purge[p].last \in Nat
<1>1. head \in Nat /\ head <= MaxSequence /\ MaxSequence \in Nat
  BY BoundsAssumption DEF TypeOK, Position
<1>2. floor \in Nat /\ floor <= head
  BY <1>1 DEF TypeOK
<1>3. \A e \in Event : e.seq \in Nat
  BY DEF Event
<1>4. /\ \A e \in log : e \in Event
      /\ \A w \in Writers : \A e \in evs[w] : e \in Event
  BY DEF TypeOK
<1>5. Position \subseteq Nat
  BY <1>1 DEF Position
<1>6. /\ \A c \in Consumers : cursor[c].position \in Position
      /\ \A p \in Purgers : purge[p].floor \in Position /\ purge[p].last \in Position
  BY DEF TypeOK
<1> QED
  BY ZenonT(30), <1>1, <1>2, <1>3, <1>4, <1>5, <1>6

(* The last position of some committed events. *)
LEMMA LastCommitted ==
    ASSUME TypeOK, LogOK, NEW es, es \subseteq log
    PROVE  /\ MaxOf(Sequences(es), 0) \in Nat /\ MaxOf(Sequences(es), 0) <= head
           /\ \A e \in es : e.seq <= MaxOf(Sequences(es), 0)
           /\ es # {} => \E e \in es : MaxOf(Sequences(es), 0) = e.seq
           /\ es = {} => MaxOf(Sequences(es), 0) = 0
<1>1. head \in Nat /\ \A e \in es : e.seq \in Nat /\ e.seq <= head
  BY Numbers DEF LogOK
<1>2. Sequences(es) \subseteq Nat /\ \A x \in Sequences(es) : x <= head
  BY <1>1 DEF Sequences
<1>3. /\ \A e \in es : e.seq \in Sequences(es)
      /\ \A x \in Sequences(es) : \E e \in es : x = e.seq
      /\ es = {} <=> Sequences(es) = {}
  BY DEF Sequences
<1>4. /\ MaxOf(Sequences(es), 0) \in Nat /\ MaxOf(Sequences(es), 0) <= head
      /\ \A x \in Sequences(es) : x <= MaxOf(Sequences(es), 0)
      /\ Sequences(es) # {} => MaxOf(Sequences(es), 0) \in Sequences(es)
      /\ Sequences(es) = {} => MaxOf(Sequences(es), 0) = 0
  BY <1>1, <1>2, MaxOfIsMaximum
<1> QED
  BY <1>3, <1>4

(* feedHorizon is the last position a reader can see: of an event, or of the  *)
(* floor once retention emptied the feed.                                     *)
HorizonOK ==
    /\ Horizon \in Nat /\ Horizon <= head
    /\ floor <= Horizon /\ \A e \in events : e.seq <= Horizon
    /\ Horizon = floor \/ \E e \in events : Horizon = e.seq

(* The horizon of a well-formed feed. *)
LEMMA HorizonIsLast == TypeOK /\ LogOK => HorizonOK
<1> SUFFICES ASSUME TypeOK, LogOK PROVE HorizonOK
  OBVIOUS
<1> DEFINE last == MaxOf(Sequences(events), 0)
<1>1. /\ last \in Nat /\ last <= head
      /\ \A e \in events : e.seq <= last
      /\ events # {} => \E e \in events : last = e.seq
      /\ events = {} => last = 0
  BY ZenonT(30), LastCommitted DEF TypeOK
<1>2. floor \in Nat /\ floor <= head /\ head \in Nat /\ \A e \in events : e.seq \in Nat
  BY Zenon, Numbers DEF TypeOK
<1>3. Horizon = IF last < floor THEN floor ELSE last
  BY DEF Horizon
<1> HIDE DEF last
<1> QED
  BY <1>1, <1>2, <1>3 DEF HorizonOK

-----------------------------------------------------------------------------
(* Types *)

(* What a transaction sees of the rows and of the projections. *)
LEMMA ViewType ==
    ASSUME TypeOK, NEW w \in Writers
    PROVE  /\ View(w) \in [Rows -> 0..MaxVersion]
           /\ \A r \in Resources : Representation(View(w), r) \in Nat \X Nat
<1>1. Sees(w).base \in [Rows -> 0..MaxVersion]
  BY DEF TypeOK, Sees
<1>2. View(w) \in [Rows -> 0..MaxVersion]
  BY <1>1 DEF TypeOK, View
<1>3. \A r \in Resources : Main(r) \in Rows /\ Side(r) \in Rows
  BY DEF Main, Side, Rows, Parts
<1>4. \A r \in Resources : View(w)[Main(r)] \in Nat /\ View(w)[Side(r)] \in Nat
  BY <1>2, <1>3, BoundsAssumption
<1> QED
  BY <1>2, <1>4 DEF Representation

(* The resources to publish are finitely many. *)
LEMMA PendingFinite ==
    ASSUME NEW w \in Writers
    PROVE  /\ Pending(w) \subseteq Resources /\ IsFiniteSet(Pending(w))
           /\ Cardinality(Pending(w)) \in Nat
<1>1. Pending(w) \subseteq Resources
  BY DEF Pending
<1> QED
  BY <1>1, ResourcesAssumption, FS_Subset, FS_CardinalityType

(* A page or a batch is made of the events it is taken from. *)
LEMMA FirstEventsSubset ==
    ASSUME NEW es, NEW n
    PROVE  FirstEvents(es, n) \subseteq es
BY DEF FirstEvents

-----------------------------------------------------------------------------
(* The invariant holds before the first transaction. *)
LEMMA InitFeedInv == Init => FeedInv
<1> SUFFICES ASSUME Init PROVE FeedInv
  OBVIOUS
<1>1. TypeOK
  <2>1. EmptyBase \in [Rows -> 0..MaxVersion] /\ EmptyProj \in [Resources -> Projection]
    BY BoundsAssumption DEF EmptyBase, EmptyProj, NoProjection, Projection
  <2>2. /\ base \in [Rows -> 0..MaxVersion] /\ version \in 0..MaxVersion
        /\ proj \in [Resources -> Projection]
        /\ events \subseteq log /\ log \subseteq Event
        /\ head \in Position /\ floor \in 0..head
    BY <2>1, BoundsAssumption DEF Init, Position
  <2>3. /\ lock \in Writers \cup {NoWriter}
        /\ pc \in [Writers -> {"idle", "open", "locked"}]
        /\ wrote \in [Writers -> SUBSET Rows]
        /\ published \in [Writers -> SUBSET Resources]
        /\ evs \in [Writers -> SUBSET Event]
        /\ \A w \in Writers : pc[w] = "idle" => lock # w /\ wrote[w] = {} /\ evs[w] = {}
    BY NoWriterAssumption DEF Init
  <2>4. /\ vals \in [Writers -> [Rows -> 0..MaxVersion]]
        /\ projs \in [Writers -> [Resources -> Projection]]
        /\ snap \in [Writers -> [base : [Rows -> 0..MaxVersion], proj : [Resources -> Projection]]]
    BY <2>1 DEF Init
  <2>5. flushed \in [Writers -> BOOLEAN]
    BY Zenon DEF Init
  <2>6. NoPurge \in [active : BOOLEAN, floor : Position, last : Position]
    BY BoundsAssumption DEF NoPurge, Position
  <2>7. NoCursor \in [valid : BOOLEAN, position : Position] /\ 0 \in Position
    BY BoundsAssumption DEF NoCursor, Position
  <2>8. /\ purge \in [Purgers -> [active : BOOLEAN, floor : Position, last : Position]]
        /\ cursor \in [Consumers -> [valid : BOOLEAN, position : Position]]
        /\ start \in [Consumers -> Position]
        /\ seen \in [Consumers -> SUBSET Position]
    BY <2>6, <2>7 DEF Init
  <2> QED
    BY <2>2, <2>3, <2>4, <2>5, <2>8 DEF TypeOK
<1>2. LockOK /\ SerialOK
  BY DEF Init, LockOK, SerialOK
<1>3. LogOK /\ FloorOK /\ Retained
  BY FS_EmptySet DEF Init, LogOK, FloorOK, Retained
<1>4. PurgesOK /\ CursorStaysValid /\ NoEventSkipped
  BY DEF Init, PurgesOK, CursorStaysValid, NoEventSkipped, NoPurge, NoCursor
<1>5. AppendedOK
  BY FS_EmptySet DEF Init, AppendedOK
<1> QED
  BY <1>1, <1>2, <1>3, <1>4, <1>5 DEF FeedInv, FeedOK

(* The horizon depends on the events and on the floor only. *)
LEMMA HorizonUnchanged ==
    ASSUME UNCHANGED <<events, floor>>
    PROVE  Horizon' = Horizon
<1>1. MaxOf(Sequences(events), 0)' = MaxOf(Sequences(events), 0)
  BY DEF Sequences, MaxOf
<1> QED
  BY <1>1 DEF Horizon

(* A step inside a transaction that publishes nothing leaves the feed alone. *)
LEMMA QuietStep ==
    ASSUME FeedOK, UNCHANGED <<events, floor, head, evs, purge, readers, log>>
    PROVE  FeedOK'
<1>1. LogOK' /\ FloorOK' /\ Retained' /\ PurgesOK' /\ AppendedOK'
  BY DEF FeedOK, LogOK, FloorOK, Retained, PurgesOK, AppendedOK
<1>2. Horizon' = Horizon
  BY HorizonUnchanged
<1>3. CursorStaysValid' /\ NoEventSkipped'
  BY <1>2 DEF FeedOK, CursorStaysValid, NoEventSkipped, readers
<1> QED
  BY <1>1, <1>3 DEF FeedOK

(* Beginning, writing, and asking for the lock. *)
LEMMA BeginFeedInv ==
    ASSUME FeedInv, NEW w \in Writers, Begin(w)
    PROVE  FeedInv'
<1>1. TypeOK'
  BY Zenon DEF FeedInv, TypeOK, Begin, database, readers
<1>2. LockOK'
  BY DEF FeedInv, TypeOK, LockOK, Begin, database
<1>3. SerialOK'
  BY PostgresAssumption DEF FeedInv, TypeOK, SerialOK, Begin, ConnectionFree
<1>4. FeedOK'
  BY QuietStep DEF FeedInv, Begin, database
<1> QED
  BY <1>1, <1>2, <1>3, <1>4 DEF FeedInv

(* Writing rows leaves the feed alone. *)
LEMMA SetRowsFeedInv ==
    ASSUME FeedInv, NEW w \in Writers, NEW rs \in SUBSET Rows, NEW v \in 0..MaxVersion,
           pc[w] = "open", version' \in 0..MaxVersion, SetRows(w, rs, v)
    PROVE  FeedInv'
<1>1. TypeOK'
  <2>1. vals' \in [Writers -> [Rows -> 0..MaxVersion]]
    BY DEF FeedInv, TypeOK, SetRows
  <2>2. wrote' \in [Writers -> SUBSET Rows]
    BY DEF FeedInv, TypeOK, SetRows
  <2>3. \A u \in Writers : pc[u] = "idle" => wrote'[u] = wrote[u]
    BY DEF FeedInv, TypeOK, SetRows
  <2>4. flushed' \in [Writers -> BOOLEAN]
    BY DEF FeedInv, TypeOK, SetRows
  <2> QED
    BY Zenon, <2>1, <2>2, <2>3, <2>4 DEF FeedInv, TypeOK, SetRows, readers
<1>2. LockOK' /\ SerialOK'
  BY DEF FeedInv, LockOK, SerialOK, SetRows
<1>3. FeedOK'
  BY QuietStep DEF FeedInv, SetRows
<1> QED
  BY <1>1, <1>2, <1>3 DEF FeedInv

(* A write. *)
LEMMA WriteFeedInv ==
    ASSUME FeedInv, NEW w \in Writers, NEW row \in Rows, Write(w, row)
    PROVE  FeedInv'
<1>1. version + 1 \in 0..MaxVersion /\ version' = version + 1
  <2>1. version \in 0..MaxVersion
    BY DEF FeedInv, TypeOK
  <2>2. version < MaxVersion /\ version' = version + 1
    BY DEF Write
  <2> QED
    BY <2>1, <2>2, BoundsAssumption
<1>2. pc[w] = "open" /\ SetRows(w, {row}, version + 1) /\ {row} \in SUBSET Rows
  BY DEF Write, Writable
<1> QED
  BY <1>1, <1>2, SetRowsFeedInv

(* A deletion. *)
LEMMA RemoveFeedInv ==
    ASSUME FeedInv, NEW w \in Writers, NEW r \in Resources, Remove(w, r)
    PROVE  FeedInv'
<1>1. version' \in 0..MaxVersion /\ 0 \in 0..MaxVersion
  BY BoundsAssumption DEF FeedInv, TypeOK, Remove
<1>2. /\ pc[w] = "open" /\ SetRows(w, {Main(r), Side(r)}, 0)
      /\ {Main(r), Side(r)} \in SUBSET Rows
  <2>1. pc[w] = "open" /\ SetRows(w, {Main(r), Side(r)}, 0)
    BY Zenon DEF Remove, Writable
  <2>2. Main(r) \in Rows /\ Side(r) \in Rows
    BY DEF Main, Side, Rows, Parts
  <2> QED
    BY <2>1, <2>2
<1> QED
  BY <1>1, <1>2, SetRowsFeedInv

(* A flush with nothing to publish. *)
LEMMA PublishNothingFeedInv ==
    ASSUME FeedInv, NEW w \in Writers, PublishNothing(w)
    PROVE  FeedInv'
<1>1. TypeOK'
  BY Zenon DEF FeedInv, TypeOK, PublishNothing, database, readers
<1>2. LockOK' /\ SerialOK'
  BY DEF FeedInv, LockOK, SerialOK, PublishNothing, database
<1>3. FeedOK'
  BY QuietStep DEF FeedInv, PublishNothing, database
<1> QED
  BY <1>1, <1>2, <1>3 DEF FeedInv

(* Taking the feed lock. *)
LEMMA LockFeedFeedInv ==
    ASSUME FeedInv, NEW w \in Writers, LockFeed(w)
    PROVE  FeedInv'
<1>1. TypeOK'
  BY Zenon, NoWriterAssumption DEF FeedInv, TypeOK, LockFeed, readers
<1>2. LockOK' /\ SerialOK'
  BY Zenon, NoWriterAssumption DEF FeedInv, TypeOK, LockOK, SerialOK, LockFeed
<1>3. FeedOK'
  BY QuietStep DEF FeedInv, LockFeed
<1> QED
  BY <1>1, <1>2, <1>3 DEF FeedInv

-----------------------------------------------------------------------------
(* Publication: the holder of the lock appends after every allocated position. *)
LEMMA PublishFeedInv ==
    ASSUME FeedInv, NEW w \in Writers, Publish(w)
    PROVE  FeedInv'
<1> DEFINE event(f, r) == [seq |-> f[r], res |-> r,
                           kind |-> IF View(w)[Main(r)] = 0 THEN "deleted"
                                    ELSE IF Stored(w, r) = NoProjection THEN "created" ELSE "updated"]
           new(f) == {event(f, r) : r \in Pending(w)}
<1>1. PICK f \in Positions(w, Pending(w)) :
         /\ projs' = [projs EXCEPT ![w] = [r \in Resources |->
               IF r \notin Pending(w) THEN @[r]
               ELSE IF View(w)[Main(r)] = 0 THEN NoProjection
               ELSE [rep |-> Representation(View(w), r), rev |-> f[r]]]]
         /\ evs' = [evs EXCEPT ![w] = @ \cup new(f)]
  BY ZenonT(30) DEF Publish
<1>2. /\ pc[w] = "locked" /\ head' = head + Cardinality(Pending(w)) /\ head' <= MaxSequence
      /\ published' = [published EXCEPT ![w] = @ \cup Pending(w)]
      /\ flushed' = [flushed EXCEPT ![w] = TRUE]
      /\ pc' = [pc EXCEPT ![w] = "open"]
      /\ UNCHANGED <<base, version, proj, events, floor, lock, wrote, vals, snap, purge,
                     readers, log>>
  BY DEF Publish
<1>3. /\ head \in Nat /\ head' \in Position /\ head <= head' /\ floor \in 0..head'
      /\ \A r \in Pending(w) : f[r] \in Nat /\ head < f[r] /\ f[r] <= head'
  <2>1. head \in Nat /\ Cardinality(Pending(w)) \in Nat
    BY PendingFinite, Numbers DEF FeedInv
  <2>2. \A r \in Pending(w) : f[r] \in (head + 1)..(head + Cardinality(Pending(w)))
    BY DEF Positions
  <2>3. floor \in Nat /\ floor <= head /\ MaxSequence \in Nat
    BY Numbers DEF FeedInv
  <2>4. head' = head + Cardinality(Pending(w)) /\ head' <= MaxSequence
    BY <1>2
  <2>5. \A r \in Pending(w) : f[r] \in Nat /\ head < f[r] /\ f[r] <= head'
    BY <2>1, <2>2, <2>4
  <2> QED
    BY <2>1, <2>3, <2>4, <2>5 DEF Position
<1>4. /\ new(f) \subseteq Event /\ IsFiniteSet(new(f))
      /\ \A e \in new(f) : e.seq \in Nat /\ head < e.seq /\ e.seq <= head'
  <2>1. new(f) \subseteq Event
    <3>1. ASSUME NEW r \in Pending(w) PROVE event(f, r) \in Event
      <4>1. r \in Resources /\ f[r] \in Nat
        BY <1>3, PendingFinite
      <4> QED
        BY <4>1 DEF Event
    <3> HIDE DEF event
    <3> QED
      BY <3>1
  <2>2. IsFiniteSet(new(f))
    <3> DEFINE g == [r \in Pending(w) |-> event(f, r)]
    <3>1. g \in Surjection(Pending(w), new(f))
      <4> HIDE DEF event
      <4> QED
        BY DEF Surjection
    <3> HIDE DEF g, new
    <3> QED
      BY <3>1, PendingFinite, FS_Surjection
  <2>3. \A e \in new(f) : \E r \in Pending(w) : e.seq = f[r]
    OBVIOUS
  <2> QED
    BY Zenon, <1>3, <2>1, <2>2, <2>3
<1> HIDE DEF new
<1>5. TypeOK'
  <2>1. projs' \in [Writers -> [Resources -> Projection]]
    <3> DEFINE made == [r \in Resources |->
               IF r \notin Pending(w) THEN projs[w][r]
               ELSE IF View(w)[Main(r)] = 0 THEN NoProjection
               ELSE [rep |-> Representation(View(w), r), rev |-> f[r]]]
    <3>1. ASSUME NEW r \in Resources PROVE made[r] \in Projection
      <4>1. projs[w][r] \in Projection /\ NoProjection \in Projection
        BY DEF FeedInv, TypeOK, NoProjection, Projection
      <4>2. r \in Pending(w) => [rep |-> Representation(View(w), r), rev |-> f[r]] \in Projection
        BY <1>3, ViewType DEF FeedInv, Projection
      <4> QED
        BY Zenon, <4>1, <4>2
    <3>2. made \in [Resources -> Projection]
      BY <3>1
    <3>3. projs' = [projs EXCEPT ![w] = made]
      BY <1>1
    <3> HIDE DEF made
    <3> QED
      BY <3>2, <3>3 DEF FeedInv, TypeOK
  <2>2. evs' \in [Writers -> SUBSET Event]
    BY ZenonT(30), <1>1, <1>4 DEF FeedInv, TypeOK
  <2>3. published' \in [Writers -> SUBSET Resources]
    BY <1>2, PendingFinite DEF FeedInv, TypeOK
  <2>4. pc' \in [Writers -> {"idle", "open", "locked"}] /\ flushed' \in [Writers -> BOOLEAN]
    BY <1>2 DEF FeedInv, TypeOK
  <2>5. \A u \in Writers : pc'[u] = "idle" => lock' # u /\ wrote'[u] = {} /\ evs'[u] = {}
    BY Zenon, <1>1, <1>2 DEF FeedInv, TypeOK
  <2> QED
    BY Zenon, <1>2, <1>3, <2>1, <2>2, <2>3, <2>4, <2>5 DEF FeedInv, TypeOK, readers
<1>6. lock = w /\ \A u \in Writers \ {w} : evs[u] = {} /\ pc[u] # "locked"
  BY ZenonT(30), <1>2 DEF FeedInv, LockOK
<1>7. LockOK' /\ SerialOK'
  BY ZenonT(30), <1>1, <1>2, <1>6 DEF FeedInv, TypeOK, LockOK, SerialOK
<1>8. LogOK' /\ FloorOK' /\ Retained' /\ PurgesOK'
  <2>1. LogOK'
    <3>1. LogOK /\ log' = log /\ \A e \in log : e.seq \in Nat
      BY ZenonT(30), <1>2, Numbers DEF FeedInv, FeedOK
    <3>2. head \in Nat /\ head' \in Nat /\ head <= head'
      BY <1>3, BoundsAssumption DEF Position
    <3> QED
      BY <3>1, <3>2 DEF LogOK
  <2> QED
    BY ZenonT(30), <1>2, <2>1 DEF FeedInv, FeedOK, FloorOK, Retained, PurgesOK
<1>9. AppendedOK'
  <2>1. evs'[w] = evs[w] \cup new(f) /\ \A u \in Writers \ {w} : evs'[u] = evs[u]
    BY ZenonT(30), <1>1 DEF FeedInv, TypeOK
  <2>2. IsFiniteSet(evs'[w])
    BY ZenonT(30), <1>4, <2>1, FS_Union DEF FeedInv, FeedOK, AppendedOK
  <2>3. ASSUME NEW e \in evs'[w]
        PROVE  1 <= e.seq /\ e.seq <= head' /\ \A x \in log' : x.seq < e.seq
    <3>1. CASE e \in evs[w]
      <4>1. /\ e.seq \in Nat /\ 1 <= e.seq /\ e.seq <= head /\ \A x \in log : x.seq < e.seq
        BY <3>1, Numbers DEF FeedInv, FeedOK, AppendedOK
      <4>2. head \in Nat /\ head' \in Nat /\ head <= head'
        BY ONLY <1>3, BoundsAssumption DEF Position
      <4>3. log' = log
        BY ONLY <1>2
      <4> QED
        BY ONLY <4>1, <4>2, <4>3
    <3>2. CASE e \in new(f)
      <4>1. \A x \in log : x.seq \in Nat /\ x.seq <= head
        BY Numbers DEF FeedInv, FeedOK, LogOK
      <4>2. e.seq \in Nat /\ head < e.seq /\ e.seq <= head' /\ log' = log /\ head \in Nat
        BY Zenon, <1>2, <1>3, <1>4, <3>2
      <4> QED
        BY ONLY <4>1, <4>2
    <3> QED
      BY Zenon, <2>1, <3>1, <3>2
  <2>4. ASSUME NEW u \in Writers \ {w} PROVE IsFiniteSet(evs'[u]) /\ evs'[u] = {}
    BY Zenon, <1>6, <2>1, FS_EmptySet
  <2> QED
    BY ZenonT(30), <2>2, <2>3, <2>4 DEF AppendedOK
<1>10. CursorStaysValid' /\ NoEventSkipped'
  <2>1. Horizon' = Horizon
    BY <1>2, HorizonUnchanged
  <2> QED
    BY Zenon, <1>2, <2>1 DEF FeedInv, FeedOK, CursorStaysValid, NoEventSkipped, readers
<1> QED
  BY <1>5, <1>7, <1>8, <1>9, <1>10 DEF FeedInv, FeedOK

-----------------------------------------------------------------------------
(* The end of a transaction *)

(* What the end of a transaction leaves. *)
LEMMA EndTypes ==
    ASSUME FeedInv, NEW w \in Writers, End(w)
    PROVE  /\ lock' \in Writers \cup {NoWriter}
           /\ pc' \in [Writers -> {"idle", "open", "locked"}]
           /\ wrote' \in [Writers -> SUBSET Rows]
           /\ vals' \in [Writers -> [Rows -> 0..MaxVersion]]
           /\ published' \in [Writers -> SUBSET Resources]
           /\ projs' \in [Writers -> [Resources -> Projection]]
           /\ evs' \in [Writers -> SUBSET Event]
           /\ flushed' \in [Writers -> BOOLEAN]
           /\ snap' \in [Writers -> [base : [Rows -> 0..MaxVersion], proj : [Resources -> Projection]]]
           /\ \A u \in Writers : pc'[u] = "idle" => lock' # u /\ wrote'[u] = {} /\ evs'[u] = {}
           /\ LockOK' /\ SerialOK'
<1>1. EmptyBase \in [Rows -> 0..MaxVersion] /\ EmptyProj \in [Resources -> Projection]
  BY BoundsAssumption DEF EmptyBase, EmptyProj, NoProjection, Projection
<1>2. /\ lock' \in Writers \cup {NoWriter}
      /\ pc' \in [Writers -> {"idle", "open", "locked"}]
      /\ wrote' \in [Writers -> SUBSET Rows]
      /\ published' \in [Writers -> SUBSET Resources]
      /\ evs' \in [Writers -> SUBSET Event]
      /\ flushed' \in [Writers -> BOOLEAN]
  BY Zenon DEF FeedInv, TypeOK, End
<1>3. /\ vals' \in [Writers -> [Rows -> 0..MaxVersion]]
      /\ projs' \in [Writers -> [Resources -> Projection]]
      /\ snap' \in [Writers -> [base : [Rows -> 0..MaxVersion], proj : [Resources -> Projection]]]
  BY Zenon, <1>1 DEF FeedInv, TypeOK, End
<1>4. \A u \in Writers : pc'[u] = "idle" => lock' # u /\ wrote'[u] = {} /\ evs'[u] = {}
  BY Zenon, NoWriterAssumption DEF FeedInv, TypeOK, End
<1>5. LockOK' /\ SerialOK'
  BY Zenon, NoWriterAssumption DEF FeedInv, TypeOK, LockOK, SerialOK, End
<1> QED
  BY <1>2, <1>3, <1>4, <1>5

(* Every event a commit makes visible lies after the horizon. *)
LEMMA CommitAfterHorizon ==
    ASSUME FeedInv, NEW w \in Writers, NEW e \in evs[w]
    PROVE  Horizon < e.seq /\ floor < e.seq
<1>1. e.seq \in Nat /\ 1 <= e.seq /\ \A x \in log : x.seq < e.seq
  BY Numbers DEF FeedInv, FeedOK, AppendedOK
<1>2. floor < e.seq
  BY <1>1 DEF FeedInv, FeedOK, FloorOK
<1>3. HorizonOK /\ events \subseteq log
  BY Zenon, HorizonIsLast DEF FeedInv, FeedOK, TypeOK
<1> QED
  BY <1>1, <1>2, <1>3 DEF HorizonOK

(* A commit appends its events at the end. *)
LEMMA CommitFeedInv ==
    ASSUME FeedInv, NEW w \in Writers, Commit(w)
    PROVE  FeedInv'
<1>1. /\ pc[w] = "open" /\ End(w) /\ UNCHANGED <<version, floor, head, purge, readers>>
      /\ events' = events \cup evs[w] /\ log' = log \cup evs[w]
      /\ base' = [row \in Rows |-> IF row \in wrote[w] THEN vals[w][row] ELSE base[row]]
      /\ proj' = [r \in Resources |-> IF r \in published[w] THEN projs[w][r] ELSE proj[r]]
  BY DEF Commit
<1>2. TypeOK'
  <2>1. base' \in [Rows -> 0..MaxVersion] /\ proj' \in [Resources -> Projection]
    <3>1. /\ base \in [Rows -> 0..MaxVersion] /\ vals[w] \in [Rows -> 0..MaxVersion]
          /\ proj \in [Resources -> Projection] /\ projs[w] \in [Resources -> Projection]
      BY DEF FeedInv, TypeOK
    <3> QED
      BY ZenonT(30), <1>1, <3>1
  <2>2. events' \subseteq log' /\ log' \subseteq Event
    BY Zenon, <1>1 DEF FeedInv, TypeOK
  <2> QED
    BY ZenonT(30), <1>1, <2>1, <2>2, EndTypes DEF FeedInv, TypeOK, readers
<1>3. LockOK' /\ SerialOK'
  BY Zenon, <1>1, EndTypes
<1>4. \A e \in evs[w] : /\ e.seq \in Nat /\ 1 <= e.seq /\ e.seq <= head
                        /\ Horizon < e.seq /\ floor < e.seq
  BY CommitAfterHorizon, Numbers DEF FeedInv, FeedOK, AppendedOK
<1>5. LogOK'
  <2>1. IsFiniteSet(log')
    BY ZenonT(30), <1>1, FS_Union DEF FeedInv, FeedOK, LogOK, AppendedOK
  <2> QED
    BY <1>1, <1>4, <2>1 DEF FeedInv, FeedOK, LogOK
<1>6. FloorOK' /\ Retained' /\ PurgesOK'
  BY ZenonT(30), <1>1, <1>4 DEF FeedInv, FeedOK, FloorOK, Retained, PurgesOK
<1>7. AppendedOK'
  <2>1. evs'[w] = {} /\ \A u \in Writers \ {w} : evs'[u] = evs[u]
    BY Zenon, <1>1 DEF End, FeedInv, TypeOK
  <2>2. ASSUME NEW u \in Writers \ {w}, NEW e \in evs[u] PROVE evs[w] = {}
    BY <2>2 DEF FeedInv, LockOK
  <2>3. ASSUME NEW u \in Writers \ {w}
        PROVE  /\ IsFiniteSet(evs'[u])
               /\ \A e \in evs'[u] : /\ 1 <= e.seq /\ e.seq <= head'
                                     /\ \A x \in log' : x.seq < e.seq
    BY ZenonT(30), <1>1, <2>1, <2>2 DEF FeedInv, FeedOK, AppendedOK
  <2> QED
    BY Zenon, <2>1, <2>3, FS_EmptySet DEF AppendedOK
<1>8. Horizon <= Horizon' /\ Horizon \in Nat /\ Horizon' \in Nat
  <2>1. /\ Horizon \in Nat /\ (Horizon = floor \/ \E e \in events : Horizon = e.seq)
    BY HorizonIsLast DEF FeedInv, FeedOK, HorizonOK
  <2>2. /\ Horizon' \in Nat /\ floor' <= Horizon' /\ \A e \in events' : e.seq <= Horizon'
    <3>1. HorizonOK'
      BY <1>2, <1>5, HorizonIsLast, PTL
    <3> QED
      BY <3>1 DEF HorizonOK
  <2> QED
    BY ZenonT(30), <1>1, <2>1, <2>2
<1>9. \A c \in Consumers : /\ cursor'[c] = cursor[c] /\ start'[c] = start[c] /\ seen'[c] = seen[c]
                           /\ cursor[c].position \in Nat
  <2>1. cursor' = cursor /\ start' = start /\ seen' = seen
    BY ZenonT(30), <1>1 DEF readers
  <2> QED
    BY ZenonT(30), <2>1, Numbers DEF FeedInv
<1>10. CursorStaysValid'
  <2>1. CursorStaysValid
    BY DEF FeedInv, FeedOK
  <2> QED
    BY <1>8, <1>9, <2>1 DEF CursorStaysValid
<1>11. NoEventSkipped'
  <2> SUFFICES ASSUME NEW c \in Consumers, cursor[c].valid, NEW e \in log',
                      start[c] < e.seq, e.seq <= cursor[c].position
               PROVE  e.seq \in seen[c]
    BY <1>9 DEF NoEventSkipped
  <2>1. cursor[c].position <= Horizon /\ cursor[c].position \in Nat
    BY <1>9 DEF FeedInv, FeedOK, CursorStaysValid
  <2>2. e \notin evs[w]
    BY <1>4, <1>8, <2>1
  <2>3. e \in log
    BY Zenon, <1>1, <2>2
  <2> QED
    BY <2>3 DEF FeedInv, FeedOK, NoEventSkipped
<1> QED
  BY <1>2, <1>3, <1>5, <1>6, <1>7, <1>10, <1>11 DEF FeedInv, FeedOK

(* A rollback keeps the counter at or after the last committed position. *)
LEMMA RollbackFeedInv ==
    ASSUME FeedInv, NEW w \in Writers, Rollback(w)
    PROVE  FeedInv'
<1>1. /\ pc[w] # "idle" /\ End(w)
      /\ head' = IF Postgres THEN head ELSE MaxOf(Sequences(log), 0)
      /\ UNCHANGED <<base, version, proj, events, floor, purge, readers, log>>
  BY DEF Rollback
<1>2. /\ head' \in Nat /\ head' <= head /\ head \in Nat /\ \A e \in log : e.seq <= head'
  <2>1. head \in Nat /\ LogOK
    BY Numbers DEF FeedInv, FeedOK
  <2>2. /\ MaxOf(Sequences(log), 0) \in Nat /\ MaxOf(Sequences(log), 0) <= head
        /\ \A e \in log : e.seq <= MaxOf(Sequences(log), 0)
    BY LastCommitted DEF FeedInv, FeedOK
  <2> QED
    BY <1>1, <2>1, <2>2 DEF LogOK
<1>3. floor \in Nat /\ floor <= head'
  BY <1>2, Numbers DEF FeedInv, FeedOK, FloorOK
<1>4. TypeOK'
  <2>1. head' \in Position /\ floor' \in 0..head'
    <3>1. head <= MaxSequence /\ MaxSequence \in Nat /\ floor' = floor
      BY <1>1, Numbers DEF FeedInv
    <3> QED
      BY <1>2, <1>3, <3>1 DEF Position
  <2> QED
    BY Zenon, <1>1, <2>1, EndTypes DEF FeedInv, TypeOK, readers
<1>5. LockOK' /\ SerialOK'
  BY <1>1, EndTypes
<1>6. LogOK' /\ FloorOK' /\ Retained' /\ PurgesOK'
  BY <1>1, <1>2 DEF FeedInv, FeedOK, LogOK, FloorOK, Retained, PurgesOK
<1>7. AppendedOK'
  <2>1. evs'[w] = {} /\ \A u \in Writers \ {w} : evs'[u] = evs[u]
    BY Zenon, <1>1 DEF End, FeedInv, TypeOK
  <2>2. ~Postgres => \A u \in Writers \ {w} : evs[u] = {}
    BY Zenon, <1>1 DEF FeedInv, SerialOK, TypeOK
  <2>3. ASSUME NEW u \in Writers \ {w}
        PROVE  /\ IsFiniteSet(evs'[u])
               /\ \A e \in evs'[u] : /\ 1 <= e.seq /\ e.seq <= head'
                                     /\ \A x \in log' : x.seq < e.seq
    BY ZenonT(30), <1>1, <2>1, <2>2, PostgresAssumption DEF FeedInv, FeedOK, AppendedOK
  <2> QED
    BY <2>1, <2>3, FS_EmptySet DEF AppendedOK
<1>8. CursorStaysValid' /\ NoEventSkipped'
  <2>1. Horizon' = Horizon
    BY <1>1, HorizonUnchanged
  <2> QED
    BY ZenonT(30), <1>1, <2>1 DEF FeedInv, FeedOK, CursorStaysValid, NoEventSkipped, readers
<1> QED
  BY <1>4, <1>5, <1>6, <1>7, <1>8 DEF FeedInv, FeedOK

-----------------------------------------------------------------------------
(* PurgeEvents *)

(* A purge reads a range of committed positions. *)
LEMMA PurgeReadFeedInv ==
    ASSUME FeedInv, NEW p \in Purgers, PurgeRead(p)
    PROVE  FeedInv'
<1>1. UNCHANGED <<database, txs, readers, log>>
  BY DEF PurgeRead
<1>2. PICK x \in events :
         purge' = [purge EXCEPT ![p] = [active |-> TRUE, floor |-> floor, last |-> x.seq]]
  BY ZenonT(30), FirstEventsSubset DEF PurgeRead, Sequences
<1>3. x \in log /\ x.seq \in Position /\ floor \in Position
  <2>1. x \in log
    BY DEF FeedInv, TypeOK
  <2>2. /\ x.seq \in Nat /\ head \in Nat /\ head <= MaxSequence /\ MaxSequence \in Nat
        /\ floor \in Nat /\ floor <= head
    BY <2>1, Numbers DEF FeedInv
  <2>3. x.seq <= head
    BY <2>1 DEF FeedInv, FeedOK, LogOK
  <2> QED
    BY <2>1, <2>2, <2>3 DEF Position
<1>4. TypeOK'
  <2>1. purge' \in [Purgers -> [active : BOOLEAN, floor : Position, last : Position]]
    BY ZenonT(30), <1>2, <1>3 DEF FeedInv, TypeOK
  <2> QED
    BY Zenon, <1>1, <2>1 DEF FeedInv, TypeOK, database, txs, readers
<1>5. LockOK' /\ SerialOK'
  BY ZenonT(30), <1>1 DEF FeedInv, LockOK, SerialOK, database, txs
<1>6. LogOK' /\ FloorOK' /\ Retained' /\ AppendedOK'
  BY ZenonT(30), <1>1 DEF FeedInv, FeedOK, LogOK, FloorOK, Retained, AppendedOK, database, txs
<1>7. PurgesOK'
  <2>1. floor <= floor
    BY <1>3, BoundsAssumption DEF Position
  <2> QED
    BY ZenonT(30), <1>1, <1>2, <1>3, <2>1 DEF FeedInv, FeedOK, TypeOK, PurgesOK, database
<1>8. CursorStaysValid' /\ NoEventSkipped'
  <2>1. Horizon' = Horizon
    BY <1>1, HorizonUnchanged DEF database
  <2> QED
    BY Zenon, <1>1, <2>1 DEF FeedInv, FeedOK, CursorStaysValid, NoEventSkipped, readers
<1> QED
  BY <1>4, <1>5, <1>6, <1>7, <1>8 DEF FeedInv, FeedOK

(* The floor rises over everything the purge deletes, and no further than a   *)
(* committed position: the horizon does not fall.                             *)
LEMMA PurgeCommitFeedInv ==
    ASSUME FeedInv, NEW p \in Purgers, PurgeCommit(p)
    PROVE  FeedInv'
<1> DEFINE last == purge[p].last
<1>1. /\ purge[p].active /\ floor' = RaisedFloor(last)
      /\ events' = {e \in events : ~(purge[p].floor < e.seq /\ e.seq <= last)}
      /\ purge' = [purge EXCEPT ![p] = NoPurge]
      /\ UNCHANGED <<base, version, proj, head, lock, txs, readers, log>>
  BY DEF PurgeCommit
<1>2. PICK x \in log : x.seq = last
  BY <1>1 DEF FeedInv, FeedOK, PurgesOK
<1>3. /\ purge[p].floor \in Nat /\ purge[p].floor <= floor /\ floor \in Nat /\ last \in Nat
      /\ last <= head /\ head \in Nat /\ floor <= head /\ \A e \in log : e.seq \in Nat
  BY ZenonT(30), <1>1, <1>2, Numbers DEF FeedInv, FeedOK, PurgesOK, LogOK
<1> HIDE DEF last
<1>4. floor <= floor' /\ last <= floor' /\ floor' \in {floor, last} /\ floor' \in 0..head
  BY <1>1, <1>3 DEF RaisedFloor
<1>5. TypeOK'
  <2>1. NoPurge \in [active : BOOLEAN, floor : Position, last : Position]
    BY BoundsAssumption DEF NoPurge, Position
  <2>2. purge' \in [Purgers -> [active : BOOLEAN, floor : Position, last : Position]]
    BY Zenon, <1>1, <2>1 DEF FeedInv, TypeOK
  <2> QED
    BY Zenon, <1>1, <1>4, <2>2 DEF FeedInv, TypeOK, txs, readers
<1>6. LockOK' /\ SerialOK'
  BY ZenonT(30), <1>1 DEF FeedInv, LockOK, SerialOK, txs
<1>7. LogOK' /\ AppendedOK'
  BY ZenonT(30), <1>1 DEF FeedInv, FeedOK, LogOK, AppendedOK, txs
<1>8. FloorOK'
  BY <1>1, <1>2, <1>4 DEF FeedInv, FeedOK, FloorOK
<1>9. Retained'
  <2>1. events = {e \in log : e.seq > floor}
    BY DEF FeedInv, FeedOK, Retained
  <2>2. ASSUME NEW e \in log PROVE e \in events' <=> e.seq > floor'
    BY <1>1, <1>3, <1>4, <2>1
  <2> QED
    BY <1>1, <2>1, <2>2 DEF Retained
<1>10. PurgesOK'
  <2>1. \A q \in Purgers : purge'[q].active => q # p /\ purge'[q] = purge[q]
    BY Zenon, <1>1 DEF FeedInv, TypeOK, NoPurge
  <2>2. \A q \in Purgers : purge[q].floor \in Nat
    BY Zenon, Numbers DEF FeedInv
  <2>3. floor \in Nat /\ floor' \in Nat /\ floor <= floor'
    BY <1>3, <1>4
  <2> SUFFICES ASSUME NEW q \in Purgers, purge'[q].active
               PROVE  purge'[q].floor <= floor' /\ \E e \in log' : e.seq = purge'[q].last
    BY DEF PurgesOK
  <2>4. purge[q].active /\ purge'[q] = purge[q]
    BY <2>1
  <2>5. purge[q].floor <= floor /\ \E e \in log : e.seq = purge[q].last
    BY <2>4 DEF FeedInv, FeedOK, PurgesOK
  <2>6. log' = log
    BY <1>1
  <2>7. purge[q].floor <= floor'
    BY <2>2, <2>3, <2>5
  <2> QED
    BY <2>4, <2>5, <2>6, <2>7
<1>11. Horizon <= Horizon' /\ Horizon \in Nat /\ Horizon' \in Nat
  <2>1. HorizonOK /\ HorizonOK'
    BY <1>5, <1>7, HorizonIsLast, PTL DEF FeedInv, FeedOK
  <2>2. CASE Horizon = floor
    BY <1>3, <1>4, <2>1, <2>2 DEF HorizonOK
  <2>3. ASSUME NEW e \in events, Horizon = e.seq PROVE Horizon <= Horizon'
    <3>1. e \in events' \/ e.seq <= last
      BY <1>1
    <3> QED
      BY <1>3, <1>4, <2>1, <2>3, <3>1 DEF HorizonOK
  <2> QED
    BY <2>1, <2>2, <2>3 DEF HorizonOK
<1>12. \A c \in Consumers : cursor'[c] = cursor[c] /\ cursor[c].position \in Nat
  BY Zenon, <1>1, Numbers DEF readers, FeedInv
<1>13. CursorStaysValid'
  BY <1>11, <1>12 DEF FeedInv, FeedOK, CursorStaysValid
<1>14. NoEventSkipped'
  BY Zenon, <1>1 DEF FeedInv, FeedOK, NoEventSkipped, readers
<1> QED
  BY <1>5, <1>6, <1>7, <1>8, <1>9, <1>10, <1>13, <1>14 DEF FeedInv, FeedOK

-----------------------------------------------------------------------------
(* Consumers *)

(* A page is a prefix of the events after the cursor. *)
LEMMA PageIsPrefix ==
    ASSUME NEW es, IsFiniteSet(es), \A e \in es : e.seq \in Nat, NEW n \in Nat,
           NEW m \in FirstEvents(es, n), NEW e \in es, e.seq <= m.seq
    PROVE  e \in FirstEvents(es, n)
<1> DEFINE before(y) == {x \in es : x.seq < y.seq}
<1>1. m \in es /\ Cardinality(before(m)) < n
  BY DEF FirstEvents
<1>2. before(e) \subseteq before(m) /\ IsFiniteSet(before(m))
  BY <1>1, FS_Subset
<1>3. /\ Cardinality(before(e)) \in Nat /\ Cardinality(before(m)) \in Nat
      /\ Cardinality(before(e)) <= Cardinality(before(m))
  BY <1>2, FS_Subset, FS_CardinalityType
<1>4. Cardinality(before(e)) < n
  BY <1>1, <1>3
<1> QED
  BY <1>4 DEF FirstEvents

(* The steps of a consumer change its cursor and its history only. *)
LEMMA ReaderStep ==
    ASSUME FeedInv, NEW c \in Consumers, NEW position \in Position, NEW valid \in BOOLEAN,
           NEW from \in Position, NEW given \in SUBSET Position,
           cursor' = [cursor EXCEPT ![c] = [valid |-> valid, position |-> position]],
           start' = [start EXCEPT ![c] = from],
           seen' = [seen EXCEPT ![c] = given],
           UNCHANGED <<database, txs, purge, log>>,
           valid => position <= Horizon,
           valid => \A e \in log : from < e.seq /\ e.seq <= position => e.seq \in given
    PROVE  FeedInv'
<1>1. TypeOK'
  <2>1. /\ cursor' \in [Consumers -> [valid : BOOLEAN, position : Position]]
        /\ start' \in [Consumers -> Position]
        /\ seen' \in [Consumers -> SUBSET Position]
    BY Zenon DEF FeedInv, TypeOK
  <2> QED
    BY Zenon, <2>1 DEF FeedInv, TypeOK, database, txs
<1>2. LockOK' /\ SerialOK'
  BY ZenonT(30) DEF FeedInv, LockOK, SerialOK, database, txs
<1>3. LogOK' /\ FloorOK' /\ Retained' /\ PurgesOK' /\ AppendedOK'
  <2>1. UNCHANGED <<log, head, floor, events, purge, evs>>
    BY Zenon DEF database, txs
  <2>2. LogOK' /\ FloorOK' /\ Retained'
    BY Zenon, <2>1 DEF FeedInv, FeedOK, LogOK, FloorOK, Retained
  <2>3. PurgesOK' /\ AppendedOK'
    BY Zenon, <2>1 DEF FeedInv, FeedOK, PurgesOK, AppendedOK
  <2> QED
    BY <2>2, <2>3
<1>4. Horizon' = Horizon
  BY HorizonUnchanged DEF database
<1>5. CursorStaysValid' /\ NoEventSkipped'
  BY Zenon, <1>4 DEF FeedInv, FeedOK, TypeOK, CursorStaysValid, NoEventSkipped
<1> QED
  BY <1>1, <1>2, <1>3, <1>5 DEF FeedInv, FeedOK

(* A new cursor is the horizon, and nothing is owed before it. *)
LEMMA CaptureFeedInv ==
    ASSUME FeedInv, NEW c \in Consumers, CaptureEventCursor(c)
    PROVE  FeedInv'
<1>1. Horizon \in Nat /\ Horizon \in Position
  <2>1. HorizonOK
    BY HorizonIsLast DEF FeedInv, FeedOK
  <2>2. head \in Nat /\ head <= MaxSequence /\ MaxSequence \in Nat
    BY Numbers DEF FeedInv
  <2> QED
    BY <2>1, <2>2 DEF HorizonOK, Position
<1>2. \A e \in log : e.seq \in Nat
  BY Numbers DEF FeedInv
<1> QED
  <2>1. /\ cursor' = [cursor EXCEPT ![c] = [valid |-> TRUE, position |-> Horizon]]
        /\ start' = [start EXCEPT ![c] = Horizon]
        /\ seen' = [seen EXCEPT ![c] = {}]
        /\ UNCHANGED <<database, txs, purge, log>>
    BY Zenon DEF CaptureEventCursor
  <2>2. /\ Horizon <= Horizon
        /\ \A e \in log : Horizon < e.seq /\ e.seq <= Horizon => e.seq \in {}
        /\ {} \in SUBSET Position /\ TRUE \in BOOLEAN
    BY <1>1, <1>2
  <2> QED
    BY ZenonT(30), <1>1, <2>1, <2>2, ReaderStep

(* An expired cursor is given up. *)
LEMMA CursorExpiredFeedInv ==
    ASSUME FeedInv, NEW c \in Consumers, CursorExpired(c)
    PROVE  FeedInv'
<1>1. start' = [start EXCEPT ![c] = start[c]] /\ seen' = [seen EXCEPT ![c] = seen[c]]
  BY Zenon DEF CursorExpired, FeedInv, TypeOK
<1>2. 0 \in Position /\ start[c] \in Position /\ seen[c] \in SUBSET Position
  <2>1. 0 \in Position
    BY BoundsAssumption DEF Position
  <2> QED
    BY Zenon, <2>1 DEF FeedInv, TypeOK
<1> QED
  BY ZenonT(30), <1>1, <1>2, ReaderStep DEF CursorExpired, NoCursor

(* A read gives every event between the old and the new position: the cursor  *)
(* is at or after the floor, so none of them has been purged.                 *)
LEMMA ReadEventsFeedInv ==
    ASSUME FeedInv, NEW c \in Consumers, ReadEvents(c)
    PROVE  FeedInv'
<1> DEFINE after == {e \in events : e.seq > cursor[c].position}
           position == NextPosition(c)
<1>1. /\ cursor[c].valid /\ floor <= cursor[c].position
      /\ cursor[c].position \in Nat /\ floor \in Nat /\ head \in Nat /\ head <= MaxSequence
      /\ \A e \in log : e.seq \in Nat
  <2>1. cursor[c].valid /\ cursor[c].position >= floor
    BY Zenon DEF ReadEvents
  <2> QED
    BY ZenonT(30), <2>1, Numbers DEF FeedInv
<1>2. HorizonOK
  BY HorizonIsLast DEF FeedInv, FeedOK
<1>3. Page(c) = FirstEvents(after, PageLimit) /\ Page(c) \subseteq after /\ after \subseteq log
  BY Zenon, FirstEventsSubset DEF Page, FeedInv, TypeOK
<1>4. /\ MaxOf(Sequences(Page(c)), 0) \in Nat
      /\ Page(c) # {} => \E m \in Page(c) : MaxOf(Sequences(Page(c)), 0) = m.seq
      /\ Page(c) = {} => MaxOf(Sequences(Page(c)), 0) = 0
  BY ZenonT(30), <1>3, LastCommitted DEF FeedInv, FeedOK
<1>5. position \in Nat /\ position <= Horizon /\ position \in Position
  <2> DEFINE last == Horizon
  <2>0. /\ last \in Nat /\ last <= head
        /\ head \in Nat /\ head <= MaxSequence /\ MaxSequence \in Nat
    <3>1. last \in Nat /\ last <= head
      BY <1>2 DEF HorizonOK
    <3>2. head \in Nat /\ head <= MaxSequence
      BY <1>1
    <3> QED
      BY <3>1, <3>2, BoundsAssumption
  <2>a. ASSUME NEW p \in Nat, p <= last
        PROVE  p \in Position
    <3> HIDE DEF last
    <3> QED
      BY ONLY <2>0, <2>a DEF Position
  <2>1. CASE ~HasMore(c)
    <3>1. position = last
      BY <2>1 DEF NextPosition
    <3>2. last \in Position
      <4> HIDE DEF last
      <4> QED
        BY ONLY <2>0 DEF Position
    <3> HIDE DEF position
    <3>3. position <= last
      <4> HIDE DEF last
      <4> QED
        BY ONLY <2>0, <3>1
    <3> QED
      BY <2>0, <3>1, <3>2, <3>3
  <2>2. CASE HasMore(c)
    <3>1. position = MaxOf(Sequences(Page(c)), 0)
      BY <2>2 DEF NextPosition
    <3>2. \A m \in Page(c) : m.seq <= Horizon
      BY ZenonT(30), <1>2, <1>3 DEF HorizonOK
    <3>3. position \in Nat /\ position <= Horizon
      BY <1>2, <1>4, <3>1, <3>2 DEF HorizonOK
    <3> HIDE DEF position
    <3> QED
      BY <2>a, <3>3
  <2> QED
    BY <2>1, <2>2
<1>6. ASSUME NEW e \in after, e.seq <= position
      PROVE  e \in Page(c)
  <2>1. CASE ~HasMore(c)
    BY <2>1 DEF HasMore
  <2>2. CASE HasMore(c)
    <3>1. position = MaxOf(Sequences(Page(c)), 0)
      BY <2>2 DEF NextPosition
    <3>2. e.seq \in Nat /\ 1 <= e.seq
      BY Zenon, <1>1, <1>3 DEF FeedInv, FeedOK, LogOK
    <3> HIDE DEF after, position
    <3>3. Page(c) # {}
      <4>1. position # 0
        BY <1>6, <3>2
      <4> QED
        BY <1>4, <3>1, <4>1
    <3>4. PICK m \in Page(c) : position = m.seq
      BY <1>4, <3>1, <3>3
    <3>5. IsFiniteSet(after) /\ \A x \in after : x.seq \in Nat
      <4>1. IsFiniteSet(log)
        BY DEF FeedInv, FeedOK, LogOK
      <4> QED
        BY Zenon, <1>1, <1>3, <4>1, FS_Subset
    <3>6. m \in FirstEvents(after, PageLimit) /\ e \in after /\ e.seq <= m.seq
      BY <1>3, <1>6, <3>4
    <3>7. e \in FirstEvents(after, PageLimit)
      BY <3>5, <3>6, PageIsPrefix, LimitsAssumption
    <3> QED
      BY <1>3, <3>7
  <2> QED
    BY <2>1, <2>2
<1>7. ASSUME NEW e \in log, start[c] < e.seq, e.seq <= position
      PROVE  e.seq \in seen[c] \cup Sequences(Page(c))
  <2>1. CASE e.seq <= cursor[c].position
    BY Zenon, <1>1, <1>7, <2>1 DEF FeedInv, FeedOK, NoEventSkipped
  <2>2. CASE e.seq > cursor[c].position
    <3>1. e \in after
      <4>1. e.seq > floor
        BY ONLY <1>1, <2>2, e \in log
      <4>2. events = {x \in log : x.seq > floor}
        BY DEF FeedInv, FeedOK, Retained
      <4> QED
        BY ONLY <2>2, <4>1, <4>2, e \in log
    <3> QED
      BY Zenon, <1>6, <1>7, <3>1 DEF Sequences
  <2>3. e.seq <= cursor[c].position \/ e.seq > cursor[c].position
    BY <1>1
  <2> QED
    BY Zenon, <2>1, <2>2, <2>3
<1>8. /\ start[c] \in Position /\ start' = [start EXCEPT ![c] = start[c]]
      /\ seen' = [seen EXCEPT ![c] = seen[c] \cup Sequences(Page(c))]
      /\ cursor' = [cursor EXCEPT ![c] = [valid |-> TRUE, position |-> position]]
      /\ UNCHANGED <<database, txs, purge, log>>
  <2>1. start[c] \in Position /\ start' = [start EXCEPT ![c] = start[c]]
    BY ZenonT(30) DEF ReadEvents, FeedInv, TypeOK
  <2>2. /\ cursor' = [cursor EXCEPT ![c] = [valid |-> TRUE, position |-> position]]
        /\ seen' = [seen EXCEPT ![c] = seen[c] \cup Sequences(Page(c))]
        /\ UNCHANGED <<database, txs, purge, log>>
    BY Zenon DEF ReadEvents
  <2> QED
    BY Zenon, <2>1, <2>2
<1>9. seen[c] \cup Sequences(Page(c)) \in SUBSET Position
  <2>1. \A e \in log : e.seq \in Position
    <3>1. \A e \in log : e.seq <= head
      BY DEF FeedInv, FeedOK, LogOK
    <3> QED
      BY <1>1, <3>1, BoundsAssumption DEF Position
  <2>2. Sequences(Page(c)) \subseteq Position
    BY Zenon, <1>3, <2>1 DEF Sequences
  <2>3. seen[c] \subseteq Position
    BY Zenon DEF FeedInv, TypeOK
  <2> QED
    BY <2>2, <2>3
<1> HIDE DEF position
<1> QED
  BY ZenonT(30), <1>5, <1>7, <1>8, <1>9, ReaderStep

-----------------------------------------------------------------------------
(* Every step keeps the invariant. *)
LEMMA NextFeedInv == FeedInv /\ [Next]_vars => FeedInv'
<1> SUFFICES ASSUME FeedInv, [Next]_vars PROVE FeedInv'
  OBVIOUS
<1>1. CASE UNCHANGED vars
  <2>1. TypeOK' /\ LockOK' /\ SerialOK'
    BY ZenonT(30), <1>1 DEF vars, FeedInv, TypeOK, LockOK, SerialOK
  <2>2. FeedOK'
    BY Zenon, <1>1, QuietStep DEF vars, FeedInv, readers
  <2> QED
    BY <2>1, <2>2 DEF FeedInv
<1>2. ASSUME NEW w \in Writers, Transaction(w) PROVE FeedInv'
  BY <1>2, BeginFeedInv, PublishNothingFeedInv, LockFeedFeedInv, PublishFeedInv, CommitFeedInv,
     RollbackFeedInv, WriteFeedInv, RemoveFeedInv DEF Transaction
<1>3. ASSUME NEW p \in Purgers, PurgeRead(p) \/ PurgeCommit(p) PROVE FeedInv'
  BY <1>3, PurgeReadFeedInv, PurgeCommitFeedInv
<1>4. ASSUME NEW c \in Consumers, CaptureEventCursor(c) \/ CursorExpired(c) \/ ReadEvents(c)
      PROVE  FeedInv'
  BY <1>4, CaptureFeedInv, CursorExpiredFeedInv, ReadEventsFeedInv
<1> QED
  BY <1>1, <1>2, <1>3, <1>4 DEF Next

(* The inductive invariant holds in every reachable state of the feed. *)
THEOREM FeedInvariance == Spec => []FeedInv
BY InitFeedInv, NextFeedInv, PTL DEF Spec

(* Types, and: a transaction that is over holds neither the feed lock nor     *)
(* rows nor uncommitted events.                                               *)
THEOREM FeedTypeCorrect == Spec => []TypeOK
<1>1. FeedInv => TypeOK
  BY DEF FeedInv
<1> QED
  BY <1>1, FeedInvariance, PTL

(* publishProjections under lockProvisioningFeed: an event never becomes      *)
(* visible behind the horizon a reader may have resumed from.                 *)
THEOREM FeedIsPrefixClosed == Spec => PrefixClosed
<1>1. ASSUME FeedInv, [Next]_vars, NEW e \in events' \ events
      PROVE  e.seq > Horizon
  <2>1. PICK w \in Writers : Commit(w)
    <3>1. ASSUME NEW w \in Writers, Transaction(w), events' # events PROVE Commit(w)
      BY ZenonT(30), <3>1 DEF Transaction, Begin, PublishNothing, LockFeed, Publish, Rollback,
                              Write, Remove, SetRows, database
    <3>2. ASSUME NEW p \in Purgers, PurgeRead(p) \/ PurgeCommit(p) PROVE events' \subseteq events
      BY Zenon, <3>2 DEF PurgeRead, PurgeCommit, database
    <3>3. ASSUME NEW c \in Consumers, CaptureEventCursor(c) \/ CursorExpired(c) \/ ReadEvents(c)
          PROVE  events' = events
      BY ZenonT(30), <3>3 DEF CaptureEventCursor, CursorExpired, ReadEvents, database
    <3>4. UNCHANGED vars => events' = events
      BY DEF vars
    <3> QED
      BY <1>1, <3>1, <3>2, <3>3, <3>4 DEF Next
  <2>2. e \in evs[w]
    BY ZenonT(30), <1>1, <2>1 DEF Commit
  <2>3. Horizon < e.seq
    BY <1>1, <2>2, CommitAfterHorizon
  <2> QED
    BY <2>3
<1>2. FeedInv /\ [Next]_vars => [\A e \in events' \ events : e.seq > Horizon]_vars
  BY <1>1
<1> QED
  BY <1>2, FeedInvariance, PTL DEF Spec, PrefixClosed

(* ReadEvents: a consumer that follows its cursors is given every event       *)
(* committed after the position it started from, whatever is purged.          *)
THEOREM ConsumersMissNothing == Spec => []NoEventSkipped
<1>1. FeedInv => NoEventSkipped
  BY DEF FeedInv, FeedOK
<1> QED
  BY <1>1, FeedInvariance, PTL

(* feedHorizon: a cursor once issued never lies beyond the horizon, so it is  *)
(* never refused as invalid.                                                  *)
THEOREM CursorsStayValid == Spec => []CursorStaysValid
<1>1. FeedInv => CursorStaysValid
  BY DEF FeedInv, FeedOK
<1> QED
  BY <1>1, FeedInvariance, PTL

(* projectionOf in every transaction and publishProjections before the        *)
(* commit: the projection stored is the one the committed rows give.          *)
THEOREM ProjectionsStayCurrent == Spec => []ProjectionCurrent
  <1>1. FeedInv => TypeOK /\ LockOK
    BY DEF FeedInv
  <1>2. ProjectionInv => ProjectionCurrent
    BY Zenon DEF ProjectionInv
  <1> QED
    BY <1>1, <1>2, FeedInvariance, InitProjection, NextProjection, PTL DEF Spec

(* PutCommon: the condition compared at the first read of a serializable      *)
(* transaction still holds of what it publishes when it commits.              *)
THEOREM ConditionsHoldAtCommit == Spec => ConditionHoldsAtCommit
  <1>1. FeedInv => TypeOK /\ LockOK
    BY DEF FeedInv
  <1>2. ProjectionInv /\ [Next]_vars =>
            [\A w \in Serializable :
                evs[w] # {} /\ evs[w] \subseteq log' /\ ~(evs[w] \subseteq log)
                    => \A r \in published[w] : proj[r] = snap[w].proj[r]]_vars
    BY Zenon, SerializableAssumption DEF ProjectionInv, SnapshotOK
  <1> QED
    BY <1>1, <1>2, FeedInvariance, InitProjection, NextProjection, PTL
       DEF Spec, ConditionHoldsAtCommit

-----------------------------------------------------------------------------
(* What the log tells. *)

(* What events about a resource tell of its projection. *)
Live(es) == es # {} /\ Latest(es).kind # "deleted"
Tells(es, p) ==
    /\ \A x, y \in es : x.seq = y.seq => x = y
    /\ IF Live(es) THEN p.rev = Latest(es).seq ELSE p = NoProjection
    /\ \A e \in es : e.kind = "created" <=> ~Live({x \in es : x.seq < e.seq})

Of(es, r) == {e \in es : e.res = r}

(* The log tells the projections, and will do so once a transaction commits. *)
HistoryInv ==
    /\ \A r \in Resources : Tells(Of(log, r), proj[r])
    /\ \A w \in Writers, r \in Resources : Tells(Of(log \cup evs[w], r), StoredAfter(w, r))
    /\ \A w \in Writers : \A e \in evs[w] : e.res \in published[w]

(* An event appended after the others is the latest, and tells what follows.  *)
LEMMA AppendTells ==
    ASSUME NEW es, NEW p, NEW q, NEW e, Tells(es, p), e.seq \in Nat,
           \A x \in es : x.seq \in Nat /\ x.seq < e.seq,
           e.kind = "created" <=> ~Live(es),
           IF e.kind = "deleted" THEN q = NoProjection ELSE q.rev = e.seq
    PROVE  Tells(es \cup {e}, q)
  <1> DEFINE fs == es \cup {e}
  <1>1. \A y \in fs : (\A x \in fs : x.seq <= y.seq) <=> y = e
    OBVIOUS
  <1>2. Latest(fs) = e
    BY Zenon, <1>1 DEF Latest
  <1>3. Live(fs) <=> e.kind # "deleted"
    BY Zenon, <1>2 DEF Live
  <1>4. IF Live(fs) THEN q.rev = Latest(fs).seq ELSE q = NoProjection
    BY Zenon, <1>2, <1>3
  <1>5. \A x, y \in fs : x.seq = y.seq => x = y
    <2>1. \A x, y \in es : x.seq = y.seq => x = y
      BY Zenon DEF Tells
    <2> QED
      BY <2>1
  <1>6. ASSUME NEW x \in fs PROVE x.kind = "created" <=> ~Live({y \in fs : y.seq < x.seq})
    <2>1. CASE x \in es
      <3>1. {y \in fs : y.seq < x.seq} = {y \in es : y.seq < x.seq}
        BY <2>1
      <3> QED
        BY Zenon, <2>1, <3>1 DEF Tells
    <2>2. CASE x = e
      <3>1. {y \in fs : y.seq < x.seq} = es
        BY <2>2
      <3> QED
        BY Zenon, <2>2, <3>1
    <2> QED
      BY Zenon, <2>1, <2>2
  <1> QED
    BY Zenon, <1>4, <1>5, <1>6 DEF Tells

(* A projection that exists has the position of an event as revision.         *)
LEMMA LiveHasRevision ==
    ASSUME NEW es, NEW p, Tells(es, p), Live(es), NEW b \in Nat,
           \A x \in es : x.seq \in Nat /\ 1 <= x.seq /\ x.seq <= b
    PROVE  p # NoProjection
  <1> DEFINE S == {x.seq : x \in es}
  <1>1. S \subseteq Nat /\ S # {} /\ \A n \in S : n <= b
    BY DEF Live
  <1>2. PICK n \in S : \A m \in S : m <= n
    BY Zenon, <1>1, MaximumExists
  <1>3. \E e \in es : \A x \in es : x.seq <= e.seq
    BY Zenon, <1>2
  <1>4. Latest(es) \in es
    BY Zenon, <1>3 DEF Latest
  <1>5. p.rev = Latest(es).seq
    BY Zenon DEF Tells
  <1>6. p.rev # 0
    BY <1>4, <1>5
  <1> QED
    BY <1>6 DEF NoProjection

(* The empty log tells that nothing exists. *)
LEMMA InitHistory == Init => HistoryInv
  <1> SUFFICES ASSUME Init PROVE HistoryInv
    OBVIOUS
  <1>1. /\ log = {} /\ proj = EmptyProj
        /\ \A w \in Writers : evs[w] = {} /\ published[w] = {}
    BY DEF Init
  <1>2. \A r \in Resources : proj[r] = NoProjection
    BY Zenon, <1>1, EmptyFacts
  <1>3. Tells({}, NoProjection)
    BY Zenon DEF Tells, Live
  <1>4. \A r \in Resources : Of(log, r) = {} /\ \A w \in Writers : Of(log \cup evs[w], r) = {}
    BY Zenon, <1>1 DEF Of
  <1>5. \A w \in Writers, r \in Resources : StoredAfter(w, r) = NoProjection
    BY Zenon, <1>1, <1>2 DEF StoredAfter
  <1> QED
    BY Zenon, <1>1, <1>2, <1>3, <1>4, <1>5 DEF HistoryInv

(* The steps that neither publish nor end a transaction.                      *)
LEMMA QuietHistory ==
    ASSUME HistoryInv, UNCHANGED <<proj, published, projs, evs, log>> PROVE HistoryInv'
  <1>1. \A r \in Resources : Tells(Of(log', r), proj'[r])
    BY Zenon DEF HistoryInv
  <1>2. ASSUME NEW v \in Writers, NEW r \in Resources
        PROVE  Tells(Of(log' \cup evs'[v], r), StoredAfter(v, r)')
    <2>1. StoredAfter(v, r)' = StoredAfter(v, r)
      BY Zenon DEF StoredAfter
    <2> QED
      BY Zenon, <2>1 DEF HistoryInv
  <1>3. \A v \in Writers : \A e \in evs'[v] : e.res \in published'[v]
    BY Zenon DEF HistoryInv
  <1> QED
    BY Zenon, <1>1, <1>2, <1>3 DEF HistoryInv, Tells, Live, Latest, Of

(* The end of a transaction: the others have published nothing if it did.     *)
LEMMA EndHistory ==
    ASSUME FeedInv, ProjectionInv, HistoryInv, NEW w \in Writers, End(w),
           \/ log' = log /\ proj' = proj
           \/ /\ log' = log \cup evs[w]
              /\ proj' = [r \in Resources |-> StoredAfter(w, r)]
    PROVE  HistoryInv'
  <1>1. /\ \A v \in Writers \ {w} : /\ published'[v] = published[v] /\ projs'[v] = projs[v]
                                    /\ evs'[v] = evs[v]
        /\ published'[w] = {} /\ evs'[w] = {}
    <2>1. evs' = [evs EXCEPT ![w] = {}] /\ \E S : evs \in [Writers -> S]
      BY Zenon DEF End, FeedInv, TypeOK
    <2>2. TypeOK
      BY Zenon DEF FeedInv
    <2> QED
      BY Zenon, <2>1, <2>2, EndFacts
  <1>2. ASSUME NEW r \in Resources PROVE Tells(Of(log', r), proj'[r])
    BY Zenon DEF HistoryInv
  <1>3. ASSUME NEW v \in Writers, evs'[v] = {}, published'[v] = {}, NEW r \in Resources
        PROVE  Tells(Of(log' \cup evs'[v], r), StoredAfter(v, r)')
    <2>1. Of(log' \cup evs'[v], r) = Of(log', r)
      BY Zenon, <1>3 DEF Of
    <2>2. StoredAfter(v, r)' = proj'[r]
      BY Zenon, <1>3 DEF StoredAfter
    <2> QED
      BY Zenon, <1>2, <2>1, <2>2
  <1>4. ASSUME NEW v \in Writers \ {w}, NEW r \in Resources
        PROVE  Tells(Of(log' \cup evs'[v], r), StoredAfter(v, r)')
    <2>1. CASE log' = log /\ proj' = proj
      <3>1. StoredAfter(v, r)' = StoredAfter(v, r)
        BY Zenon, <1>1, <2>1 DEF StoredAfter
      <3> QED
        BY Zenon, <1>1, <2>1, <3>1 DEF HistoryInv
    <2>2. CASE evs[v] = {} /\ published[v] = {}
      BY Zenon, <1>1, <1>3, <2>2
    <2>3. CASE evs[v] # {} \/ published[v] # {}
      <3>1. lock = v
        BY Zenon, <2>3 DEF FeedInv, LockOK, ProjectionInv, PublishedOK
      <3>2. evs[w] = {} /\ published[w] = {}
        BY Zenon, <1>4, <3>1 DEF FeedInv, LockOK, ProjectionInv, PublishedOK
      <3>3. log' = log /\ proj'[r] = proj[r]
        BY Zenon, <3>2 DEF StoredAfter
      <3>4. StoredAfter(v, r)' = StoredAfter(v, r)
        BY Zenon, <1>1, <3>3 DEF StoredAfter
      <3> QED
        BY Zenon, <1>1, <3>3, <3>4 DEF HistoryInv
    <2> QED
      BY Zenon, <2>1, <2>2, <2>3
  <1>5. ASSUME NEW v \in Writers, NEW e \in evs'[v] PROVE e.res \in published'[v]
    BY Zenon, <1>1, <1>5 DEF HistoryInv
  <1>6. ASSUME NEW v \in Writers, NEW r \in Resources
        PROVE  Tells(Of(log' \cup evs'[v], r), StoredAfter(v, r)')
    BY Zenon, <1>1, <1>3, <1>4
  <1> QED
    BY Zenon, <1>2, <1>5, <1>6 DEF HistoryInv, Tells, Live, Latest, Of

(* Publish appends one event per pending resource, after all the others, and  *)
(* its kind is what the projection stored before it calls for.                *)
LEMMA PublishHistory ==
    ASSUME FeedInv, HistoryInv, NEW w \in Writers, Publish(w) PROVE HistoryInv'
  <1> DEFINE kind(r) == IF View(w)[Main(r)] = 0 THEN "deleted"
                        ELSE IF Stored(w, r) = NoProjection THEN "created" ELSE "updated"
             event(f, r) == [seq |-> f[r], res |-> r, kind |-> kind(r)]
             next(f, r) == IF View(w)[Main(r)] = 0 THEN NoProjection
                           ELSE [rep |-> Representation(View(w), r), rev |-> f[r]]
  <1>1. /\ UNCHANGED <<proj, log>> /\ NoSerializationFailure(w, Pending(w))
        /\ published' = [published EXCEPT ![w] = @ \cup Pending(w)]
    BY Zenon DEF Publish
  <1>2. PICK f \in Positions(w, Pending(w)) :
            /\ projs' = [projs EXCEPT ![w] = [r \in Resources |->
                             IF r \notin Pending(w) THEN @[r] ELSE next(f, r)]]
            /\ evs' = [evs EXCEPT ![w] = @ \cup {event(f, r) : r \in Pending(w)}]
    BY Zenon DEF Publish
  <1>3. /\ \E S : published \in [Writers -> S]
        /\ \E S : projs \in [Writers -> S]
        /\ \E S : evs \in [Writers -> S]
        /\ Pending(w) \subseteq Resources
    BY Zenon DEF FeedInv, TypeOK, Pending
  <1>4. /\ \A v \in Writers \ {w} : /\ published'[v] = published[v] /\ projs'[v] = projs[v]
                                    /\ evs'[v] = evs[v]
        /\ published'[w] = published[w] \cup Pending(w)
        /\ evs'[w] = evs[w] \cup {event(f, r) : r \in Pending(w)}
        /\ \A r \in Resources :
               projs'[w][r] = IF r \notin Pending(w) THEN projs[w][r] ELSE next(f, r)
    BY Zenon, <1>1, <1>2, <1>3
  <1>5. ASSUME NEW r \in Pending(w) PROVE f[r] \in Nat /\ f[r] > head
    <2>1. f \in [Pending(w) -> (head + 1)..(head + Cardinality(Pending(w)))]
      BY Zenon DEF Positions
    <2>2. head \in Nat /\ Cardinality(Pending(w)) \in Nat
      BY Numbers, PendingFinite DEF FeedInv
    <2>3. f[r] \in (head + 1)..(head + Cardinality(Pending(w)))
      BY Zenon, <1>5, <2>1
    <2> QED
      BY <2>2, <2>3
  <1>6. ASSUME NEW x \in log \cup evs[w]
        PROVE  x.seq \in Nat /\ 1 <= x.seq /\ x.seq <= head
    BY Numbers DEF FeedInv, FeedOK, LogOK, AppendedOK
  <1>7. ASSUME NEW x \in evs'[w], x \notin evs[w] PROVE x.res \in Pending(w) /\ x = event(f, x.res)
    <2>1. PICK r \in Pending(w) : x = event(f, r)
      <3> HIDE DEF event
      <3> QED
        BY Zenon, <1>4, <1>7
    <2>2. event(f, r).res = r
      BY DEF event
    <2> HIDE DEF event
    <2> QED
      BY Zenon, <2>1, <2>2
  <1>8. ASSUME NEW r \in Pending(w) PROVE Tells(Of(log \cup evs'[w], r), projs'[w][r])
    <2> DEFINE es == Of(log \cup evs[w], r)
               e == event(f, r)
    <2>1. Of(log \cup evs'[w], r) = es \cup {e}
      <3>1. e.res = r
        OBVIOUS
      <3> HIDE DEF event
      <3>2. ASSUME NEW x \in evs'[w], x.res = r PROVE x \in evs[w] \/ x = e
        BY Zenon, <1>7, <3>2
      <3>3. e \in evs'[w] /\ \A x \in evs[w] : x \in evs'[w]
        BY Zenon, <1>4, <1>8
      <3> QED
        BY Zenon, <3>1, <3>2, <3>3 DEF Of
    <2>2. Tells(es, StoredAfter(w, r)) /\ r \in Resources
      BY Zenon, <1>3, <1>8 DEF HistoryInv
    <2>3. StoredAfter(w, r) = Stored(w, r)
      <3>1. r \notin published[w] => Sees(w).proj[r] = proj[r]
        BY <1>1, <1>8 DEF NoSerializationFailure, Sees
      <3> QED
        BY Zenon, <3>1 DEF StoredAfter, Stored
    <2>4. /\ e.seq \in Nat /\ e.kind = kind(r) /\ e.seq = f[r]
          /\ \A x \in es : x.seq \in Nat /\ 1 <= x.seq /\ x.seq <= head /\ x.seq < e.seq
      <3>1. \A x \in es : x.seq \in Nat /\ 1 <= x.seq /\ x.seq <= head
        BY Zenon, <1>6 DEF Of
      <3>2. e.seq = f[r] /\ e.kind = kind(r)
        OBVIOUS
      <3>3. head \in Nat
        BY Zenon, Numbers DEF FeedInv
      <3> HIDE DEF e, es, kind
      <3> QED
        BY <1>5, <1>8, <3>1, <3>2, <3>3
    <2>5. Live(es) <=> Stored(w, r) # NoProjection
      <3>1. head \in Nat
        BY Zenon, Numbers DEF FeedInv
      <3>2. ASSUME Live(es) PROVE Stored(w, r) # NoProjection
        BY Zenon, <2>2, <2>3, <2>4, <3>1, <3>2, LiveHasRevision
      <3>3. ASSUME ~Live(es) PROVE Stored(w, r) = NoProjection
        BY Zenon, <2>2, <2>3, <3>3 DEF Tells
      <3> QED
        BY Zenon, <3>2, <3>3
    <2>6. View(w)[Main(r)] = 0 => Stored(w, r) # NoProjection
      <3>1. Representation(View(w), r) # Stored(w, r).rep
        BY Zenon, <1>8 DEF Pending
      <3> QED
        BY Zenon, <3>1, EmptyFacts, RepresentationIs
    <2>7. kind(r) = "created" <=> ~Live(es)
      BY <2>5, <2>6
    <2>8. IF kind(r) = "deleted" THEN projs'[w][r] = NoProjection ELSE projs'[w][r].rev = f[r]
      <3>1. projs'[w][r] = next(f, r)
        BY Zenon, <1>4, <1>8, <2>2
      <3>2. CASE View(w)[Main(r)] = 0
        BY Zenon, <3>1, <3>2
      <3>3. CASE View(w)[Main(r)] # 0
        <4>1. kind(r) \in {"created", "updated"}
          BY Zenon, <3>3
        <4>2. projs'[w][r] = [rep |-> Representation(View(w), r), rev |-> f[r]]
          BY Zenon, <3>1, <3>3
        <4>3. projs'[w][r].rev = f[r]
          BY <4>2
        <4> HIDE DEF kind
        <4> QED
          BY <4>1, <4>3
      <3> QED
        BY Zenon, <3>2, <3>3
    <2> HIDE DEF e, es, kind
    <2>9. Tells(es \cup {e}, projs'[w][r])
      BY Zenon, <2>2, <2>4, <2>7, <2>8, AppendTells
    <2> QED
      BY Zenon, <2>1, <2>9
  <1>9. ASSUME NEW v \in Writers, NEW r \in Resources
        PROVE  Tells(Of(log' \cup evs'[v], r), StoredAfter(v, r)')
    <2>1. CASE v # w
      <3>1. StoredAfter(v, r)' = StoredAfter(v, r)
        BY Zenon, <1>1, <1>4, <2>1 DEF StoredAfter
      <3> QED
        <4> HIDE DEF event, next
        <4>1. log' = log /\ evs'[v] = evs[v]
          BY Zenon, <1>1, <1>4, <2>1
        <4> QED
          BY Zenon, <3>1, <4>1 DEF HistoryInv
    <2>2. CASE v = w /\ r \in Pending(w)
      <3>1. StoredAfter(w, r)' = projs'[w][r]
        BY Zenon, <1>4, <2>2 DEF StoredAfter
      <3> QED
        BY Zenon, <1>1, <1>8, <2>2, <3>1
    <2>3. CASE v = w /\ r \notin Pending(w)
      <3>1. StoredAfter(w, r)' = StoredAfter(w, r)
        BY Zenon, <1>1, <1>4, <2>3 DEF StoredAfter
      <3>2. Of(log' \cup evs'[w], r) = Of(log \cup evs[w], r)
        <4> HIDE DEF event
        <4>1. ASSUME NEW x \in evs'[w], x.res = r PROVE x \in evs[w]
          BY Zenon, <1>7, <2>3, <4>1
        <4>2. \A x \in evs[w] : x \in evs'[w]
          BY Zenon, <1>4
        <4> QED
          BY Zenon, <1>1, <4>1, <4>2 DEF Of
      <3> QED
        BY Zenon, <2>3, <3>1, <3>2 DEF HistoryInv
    <2> QED
      BY Zenon, <2>1, <2>2, <2>3
  <1>10. ASSUME NEW v \in Writers, NEW x \in evs'[v] PROVE x.res \in published'[v]
    <2>1. CASE x \in evs[v]
      BY Zenon, <1>4, <2>1 DEF HistoryInv
    <2>2. CASE x \notin evs[v]
      <3> HIDE DEF event
      <3>1. v = w
        BY Zenon, <1>4, <1>10, <2>2
      <3>2. x.res \in Pending(w)
        BY Zenon, <1>7, <1>10, <2>2, <3>1
      <3> QED
        BY Zenon, <1>4, <3>1, <3>2
    <2> QED
      BY Zenon, <2>1, <2>2
  <1>11. ASSUME NEW r \in Resources PROVE Tells(Of(log', r), proj'[r])
    BY Zenon, <1>1 DEF HistoryInv
  <1> QED
    BY Zenon, <1>9, <1>10, <1>11 DEF HistoryInv, Tells, Live, Latest, Of

(* Every step keeps what the log tells. *)
LEMMA NextHistory ==
    FeedInv /\ ProjectionInv /\ HistoryInv /\ [Next]_vars => HistoryInv'
  <1> SUFFICES ASSUME FeedInv, ProjectionInv, HistoryInv, [Next]_vars PROVE HistoryInv'
    OBVIOUS
  <1>1. ASSUME NEW w \in Writers, Commit(w) \/ Rollback(w) PROVE HistoryInv'
    <2>1. /\ End(w)
          /\ \/ log' = log /\ proj' = proj
             \/ /\ log' = log \cup evs[w]
                /\ proj' = [r \in Resources |-> StoredAfter(w, r)]
      BY Zenon, <1>1 DEF Commit, Rollback, StoredAfter
    <2> QED
      BY Zenon, <2>1, EndHistory
  <1>2. ASSUME NEW w \in Writers, Begin(w) \/ PublishNothing(w) \/ LockFeed(w)
        PROVE  UNCHANGED <<proj, published, projs, evs, log>>
    BY <1>2 DEF Begin, PublishNothing, LockFeed, database
  <1>3. ASSUME NEW w \in Writers,
               (\E row \in Rows : Write(w, row)) \/ (\E r \in Resources : Remove(w, r))
        PROVE  UNCHANGED <<proj, published, projs, evs, log>>
    BY Zenon, <1>3 DEF Write, Remove, SetRows
  <1>4. ASSUME NEW w \in Writers, Transaction(w) PROVE HistoryInv'
    BY Zenon, <1>1, <1>2, <1>3, <1>4, PublishHistory, QuietHistory DEF Transaction
  <1>5. ASSUME NEW p \in Purgers, PurgeRead(p) \/ PurgeCommit(p)
        PROVE  UNCHANGED <<proj, published, projs, evs, log>>
    BY <1>5 DEF PurgeRead, PurgeCommit, database, txs
  <1>6. ASSUME NEW c \in Consumers, CaptureEventCursor(c) \/ CursorExpired(c) \/ ReadEvents(c)
        PROVE  UNCHANGED <<proj, published, projs, evs, log>>
    BY <1>6 DEF CaptureEventCursor, CursorExpired, ReadEvents, database, txs
  <1>7. UNCHANGED vars => UNCHANGED <<proj, published, projs, evs, log>>
    BY DEF vars
  <1> QED
    BY Zenon, <1>4, <1>5, <1>6, <1>7, QuietHistory DEF Next

(* publishProjections gives a projection the position of its event as         *)
(* revision: the log alone tells what exists and at which revision, and a     *)
(* resource is created, updated and deleted in a coherent order.              *)
THEOREM LogIsTheHistory == Spec => []LogTellsHistory
  <1>1. FeedInv => TypeOK /\ LockOK
    BY DEF FeedInv
  <1>2. HistoryInv => LogTellsHistory
    <2> SUFFICES ASSUME HistoryInv, NEW r \in Resources
                 PROVE  /\ About(r) = {} => proj[r] = NoProjection
                        /\ About(r) # {} =>
                              IF Latest(About(r)).kind = "deleted" THEN proj[r] = NoProjection
                              ELSE proj[r].rev = Latest(About(r)).seq
                        /\ \A e \in About(r) :
                              e.kind = "created" <=> ~Live({x \in About(r) : x.seq < e.seq})
      BY Zenon DEF LogTellsHistory, Live
    <2>1. About(r) = Of(log, r) /\ Tells(Of(log, r), proj[r])
      BY Zenon DEF HistoryInv, About, Of
    <2> QED
      BY Zenon, <2>1 DEF Tells, Live
  <1> QED
    BY <1>1, <1>2, FeedInvariance, InitProjection, NextProjection, InitHistory, NextHistory,
       PTL DEF Spec
=============================================================================
