-------------------------- MODULE EventFeed_proofs --------------------------
(***************************************************************************)
(* What TLAPS proves of EventFeed, for any retention, batch, retry and     *)
(* queue sizes and any number of rows: the invariants of the run, with     *)
(* readers that see rows which are not committed and may be undone.        *)
(***************************************************************************)
EXTENDS EventFeed, FiniteSetTheorems, SequenceTheorems, TLAPS

---------------------------------------------------------------------------
(* The inductive invariant.                                                *)

TableOK ==
  /\ kind \in Seq(Types) /\ kept \subseteq 1..Len(kind)
  /\ open \in BOOLEAN /\ (open => writing # "none" /\ Len(kind) # 0)
  /\ peeked \in BOOLEAN /\ (peeked => open) /\ dirty \subseteq Nat
  /\ \A i \in dirty : i <= Top + 1

\* A number that was read is committed, or that of the open transaction, or was undone.
Known(id) == id <= Top \/ (peeked /\ id = Len(kind)) \/ id \in dirty

\* A row that is written and not published yet has opened its window in the history.
WindowOK ==
  recent \subseteq shown /\ (writing \notin NeverCoalesced \cup {"none"} => writing \in shown)

\* The watermark was KeepLast rows behind when it was read, and stays at least as far as what is
\* still to be decided of the last row lets it.
SweepOK ==
  /\ sweep = None \/ (sweep \in Nat /\ (sweep <= Top - Owed
                                         \/ (peeked /\ sweep <= Len(kind) - KeepLast)))
  /\ NewestAreKept

\* Every row up to an id that is wanted is settled, or in a batch under way.
Settled(id, batch) ==
  /\ id \in Nat /\ Known(id)
  /\ \A i \in kept \ dirty : i <= id /\ Wants(i) => i \in settled \cup batch

\* What the drain holds between a read of the feed and the statement that moves the cursor.
CursorOK ==
  /\ cursor # None => Settled(cursor, {})
  /\ drain.pc \in {"read", "set"} => Settled(drain.local, {})
  /\ drain.pc \in {"deliver", "audit"} => Settled(drain.local, drain.batch)

FeedInv == TableOK /\ WindowOK /\ SweepOK /\ DrainOK /\ CursorOK

---------------------------------------------------------------------------
(* The retention sweep.                                                    *)

LEMMA TableFacts ==
  ASSUME TableOK
  PROVE  /\ Len(kind) \in Nat /\ Top \in Nat /\ Top <= Len(kind)
         /\ kept \subseteq Nat /\ \A i \in kept : 1 <= i /\ i <= Len(kind)
         /\ Top = IF open THEN Len(kind) - 1 ELSE Len(kind)
         /\ KeepLast \in Nat \ {0} /\ Owed \in Nat /\ Owed <= KeepLast /\ Owed >= KeepLast - 1
         /\ (KeepLast > 1 => Owed > 0)
BY LenProperties, BoundAssumption DEF TableOK, Top, Owed

\* What is undone is the last row, and only if it is not committed.
LEMMA UndoCuts ==
  ASSUME TableOK, Undo
  PROVE  /\ TableOK' /\ Top' = Top /\ Len(kind') = Top /\ dirty \subseteq dirty'
         /\ peeked => Len(kind) \in dirty'
         /\ \A i \in 1..Top : kind'[i] = kind[i]
<1>1. Len(kind) \in Nat /\ Top \in Nat /\ Top <= Len(kind)
  BY TableFacts
<1>2. kind' = SubSeq(kind, 1, Top) /\ kept' = kept \cap 1..Top /\ open' = FALSE
  BY DEF Undo
<1>3. kind' \in Seq(Types) /\ Len(kind') = Top /\ \A i \in 1..Top : kind'[i] = kind[i]
  <2>1. kind \in Seq(Types) /\ 1 \in 1..(Len(kind) + 1) /\ Top \in 0..Len(kind)
    BY <1>1 DEF TableOK
  <2>2. \A i \in 1..Top : i \in 1..Len(kind) /\ kind[i] \in Types
    BY <1>1, <2>1, LenProperties
  <2> QED BY <1>1, <1>2, <2>1, <2>2
<1>4. peeked' = FALSE /\ dirty' = IF peeked THEN dirty \cup {Len(kind)} ELSE dirty
  BY DEF Undo
<1>5. Top' = Top
  BY <1>2, <1>3 DEF Top
<1>6. TableOK'
  <2>1. peeked => Len(kind) = Top + 1
    BY <1>1 DEF TableOK, Top
  <2>2. \A i \in dirty : i \in Nat /\ i <= Top + 1
    BY DEF TableOK
  <2>3. ASSUME NEW i \in dirty'  PROVE i \in Nat /\ i <= Top + 1
    <3>1. i \in dirty \/ (peeked /\ i = Len(kind))
      BY <1>4, <2>3
    <3> QED BY <1>1, <2>1, <2>2, <3>1
  <2>4. dirty' \subseteq Nat /\ \A i \in dirty' : i <= Top' + 1
    BY <1>5, <2>3
  <2> QED BY <1>2, <1>3, <1>4, <2>4 DEF TableOK
<1> QED BY <1>3, <1>4, <1>5, <1>6

\* A row with KeepLast newer ones is KeepLast behind the last number.
LEMMA WatermarkIsBehind ==
  ASSUME TableOK, NEW w \in Watermark
  PROVE  w \in Nat /\ w <= Len(kind) - KeepLast
<1> DEFINE S == {j \in kept : j > w}
<1>1. w \in kept /\ Cardinality(S) = KeepLast
  BY DEF Watermark
<1>2. /\ Len(kind) \in Nat /\ w \in Nat /\ w <= Len(kind)
      /\ \A j \in kept : j \in Nat /\ j <= Len(kind)
  BY <1>1, TableFacts
<1>3. S \subseteq (w + 1)..Len(kind)
  BY <1>2
<1>4. IsFiniteSet((w + 1)..Len(kind)) /\ Cardinality((w + 1)..Len(kind)) = Len(kind) - w
  <2>1. w + 1 \in Int /\ Len(kind) \in Int
    BY <1>2
  <2>2. Cardinality((w + 1)..Len(kind)) =
          IF w + 1 > Len(kind) THEN 0 ELSE Len(kind) - (w + 1) + 1
    BY <2>1, FS_Interval
  <2>3. IsFiniteSet((w + 1)..Len(kind))
    BY <2>1, FS_Interval
  <2> QED BY <1>2, <2>2, <2>3
<1>5. Cardinality(S) <= Len(kind) - w
  BY <1>3, <1>4, FS_Subset
<1> HIDE DEF S
<1>6. KeepLast \in Nat
  BY BoundAssumption
<1> QED BY <1>1, <1>2, <1>5, <1>6

\* What the sweep has no business with stays, when rows are added, committed or undone, and when
\* rows below the watermark go.
LEMMA SweepKeeps ==
  ASSUME TableOK, SweepOK, Next
  PROVE  TableOK' /\ SweepOK'
<1>1. /\ Len(kind) \in Nat /\ Top \in Nat /\ Top <= Len(kind) /\ KeepLast \in Nat \ {0}
      /\ Owed \in Nat /\ Owed <= KeepLast /\ \A i \in kept : i \in Nat
  BY TableFacts
<1>2. CASE \E t \in Types : Insert(t)
  <2> PICK t \in Types : Insert(t)
    BY <1>2
  <2>0. kind' = Append(kind, t)
    BY DEF Insert
  <2>1. /\ kept' = kept \cup {Len(kind) + 1} /\ UNCHANGED <<sweep, peeked, dirty>>
        /\ writing = "none" /\ writing' = t /\ t # "none" /\ open' = TRUE
    BY DEF Insert, Types
  <2>2. kind' \in Seq(Types) /\ Len(kind') = Len(kind) + 1
    BY <2>0, AppendProperties DEF TableOK
  <2>3. Top = Len(kind) /\ Top' = Len(kind) /\ ~peeked /\ Owed' = Owed
    BY <1>1, <2>1, <2>2 DEF TableOK, Top, Owed
  <2>4. TableOK'
    <3>1. ASSUME NEW i \in kept'  PROVE i \in 1..Len(kind')
      <4>1. i \in 1..Len(kind) \/ i = Len(kind) + 1
        BY <2>1, <3>1 DEF TableOK
      <4> QED BY <1>1, <2>2, <4>1
    <3>2. Len(kind') # 0
      BY <1>1, <2>2
    <3>3. kept' \subseteq 1..Len(kind')
      BY <3>1
    <3> QED BY <2>1, <2>2, <2>3, <3>2, <3>3 DEF TableOK
  <2>5. NewestAreKept'
    BY <1>1, <2>1, <2>2, <2>3 DEF NewestAreKept, SweepOK
  <2> QED BY <1>1, <2>1, <2>3, <2>4, <2>5 DEF SweepOK
<1>3. CASE Commit
  <2>1. /\ UNCHANGED <<kind, kept, writing, sweep, dirty>> /\ open /\ open' = FALSE
        /\ peeked' = FALSE
    BY <1>3 DEF Commit
  <2>2. Top' = Top + 1 /\ Top' = Len(kind) /\ Owed' = Owed
    BY <1>1, <2>1 DEF Top, Owed
  <2>3. TableOK'
    <3>1. \A i \in dirty : i \in Nat /\ i <= Top + 1
      BY DEF TableOK
    <3>2. \A i \in dirty : i <= Top' + 1
      BY <1>1, <2>2, <3>1
    <3> QED BY <2>1, <3>2 DEF TableOK
  <2>4. NewestAreKept'
    BY <1>1, <2>1, <2>2 DEF SweepOK, NewestAreKept
  <2>5. sweep = None \/ (sweep \in Nat /\ sweep <= Top' - Owed')
    BY <1>1, <2>2 DEF SweepOK
  <2> QED BY <2>1, <2>3, <2>4, <2>5 DEF SweepOK
<1>4. CASE Undo /\ sweep' \in {sweep, None}
  <2>1. TableOK' /\ Top' = Top /\ Len(kind') = Top
    BY <1>4, UndoCuts
  <2>2. kept' = kept \cap 1..Top
    BY <1>4 DEF Undo
  <2>3. Owed' \in Nat /\ Owed' <= Owed /\ (peeked => Owed' = KeepLast - 1 /\ Len(kind) = Top + 1)
    BY <1>1, <1>4 DEF Undo, Owed, TableOK, Top
  <2>4. NewestAreKept'
    <3>1. PICK owed \in Nat : owed = Owed' /\ owed <= Owed
      BY <2>3
    <3> SUFFICES ASSUME NEW i \in 1..Top, i > Top - owed  PROVE i \in kept'
      BY <2>1, <3>1 DEF NewestAreKept
    <3>2. i \in Int /\ Top \in Int /\ owed \in Int /\ Owed \in Int /\ owed <= Owed
      BY <1>1, <3>1
    <3>3. i > Top - Owed
      BY <3>2
    <3>4. i \in 1..Len(kind)
      BY <1>1
    <3> QED BY <2>2, <3>3, <3>4 DEF SweepOK, NewestAreKept
  <2>5. sweep' = None \/ (sweep' \in Nat /\ sweep' <= Top' - Owed')
    BY <1>1, <1>4, <2>1, <2>3 DEF SweepOK
  <2> QED BY <2>1, <2>4, <2>5 DEF SweepOK
<1>5. CASE SweepBegins
  <2>1. /\ sweep' \in Watermark /\ UNCHANGED <<kind, kept, writing, open, dirty>>
        /\ peeked' = (peeked \/ open)
    BY <1>5 DEF SweepBegins, Reads, rows
  <2>2. Top' = Top /\ Owed' = Owed /\ (~open => Top = Len(kind)) /\ open \in BOOLEAN
    BY <2>1 DEF Top, Owed, TableOK
  <2>3. sweep' \in Nat /\ sweep' <= Len(kind) - KeepLast
    BY <2>1, WatermarkIsBehind
  <2>4. TableOK'
    BY <2>1, <2>2 DEF TableOK
  <2>5. peeked' \/ sweep' <= Top' - Owed'
    BY <1>1, <2>1, <2>2, <2>3
  <2> QED BY <2>1, <2>2, <2>3, <2>4, <2>5 DEF SweepOK, NewestAreKept
<1>6. CASE SweepChunk
  <2>1. /\ UNCHANGED <<kind, writing, open, peeked, dirty>> /\ sweep # None /\ ~open
        /\ sweep' \in {sweep, None}
        /\ kept' \subseteq kept /\ \A i \in kept : i > sweep => i \in kept'
    <3> DEFINE below == {i \in kept : i <= sweep}
               chunk == {i \in below : Cardinality({j \in below : j < i}) < Chunk}
    <3>1. /\ sweep # None /\ kept' = kept \ chunk /\ UNCHANGED <<kind, writing, open>>
          /\ UNCHANGED <<peeked, dirty>> /\ writing = "none"
          /\ sweep' = IF below = {} THEN None ELSE sweep
      BY <1>6 DEF SweepChunk
    <3>2. \A i \in chunk : i <= sweep
      OBVIOUS
    <3> HIDE DEF chunk
    <3>3. sweep \in Nat /\ ~open
      BY <3>1 DEF SweepOK, TableOK
    <3> QED BY <1>1, <3>1, <3>2, <3>3
  <2>2. sweep \in Nat /\ sweep <= Top - Owed /\ Top' = Top /\ Owed' = Owed
    BY <2>1 DEF SweepOK, TableOK, Top, Owed
  <2>3. NewestAreKept'
    <3> SUFFICES ASSUME NEW i \in 1..Len(kind), i > Top - Owed
                 PROVE  i \in kept'
      BY <2>1, <2>2 DEF NewestAreKept
    <3>1. i \in kept
      BY DEF SweepOK, NewestAreKept
    <3> QED BY <1>1, <2>1, <2>2, <3>1
  <2> QED BY <2>1, <2>2, <2>3 DEF TableOK, SweepOK
<1>7. CASE /\ UNCHANGED <<kind, kept, open, dirty, sweep>> /\ (writing' = writing \/ ~open)
           /\ peeked' \in {peeked, peeked \/ open}
  <2>1. Top' = Top /\ Owed' = Owed
    BY <1>7 DEF Top, Owed
  <2>2. TableOK'
    BY <1>7, <2>1 DEF TableOK
  <2>3. peeked => peeked'
    BY <1>7 DEF TableOK
  <2> QED BY <1>7, <2>1, <2>2, <2>3 DEF SweepOK, NewestAreKept
<1> QED
  BY <1>2, <1>3, <1>4, <1>5, <1>6, <1>7 DEF Next, Record, InsertFails, WindowEnds, Publish,
     Abandon, RollsBack, Crash, Drain, Begins, Seed, ReadBatch, Accepted, Refused, GiveUp, Advance,
     DrainRaises, Connect, Disconnect, Stream, ReadBounds, Replay, Send, Take, CatchUp, Rest,
     ReadRest, Reads, table, rows

---------------------------------------------------------------------------
(* The flap guard.                                                         *)

LEMMA WindowKeeps ==
  ASSUME WindowOK, Next
  PROVE  WindowOK'
<1>1. CASE \E t \in Types : Insert(t)
  BY <1>1 DEF Insert, WindowOK
<1>2. CASE Publish
  BY <1>2 DEF Publish, WindowOK
<1>3. CASE Abandon
  BY <1>3 DEF Abandon, WindowOK
<1>4. CASE \E t \in Types : WindowEnds(t)
  BY <1>4 DEF WindowEnds, WindowOK
<1>5. CASE RollsBack
  BY <1>5 DEF RollsBack, Undo, WindowOK
<1>6. CASE Crash
  BY <1>6 DEF Crash, Undo, WindowOK
<1>7. CASE UNCHANGED <<recent, shown, writing>>
  BY <1>7 DEF WindowOK
<1> QED
  BY <1>1, <1>2, <1>3, <1>4, <1>5, <1>6, <1>7 DEF Next, Commit, Record, InsertFails, SweepBegins,
     SweepChunk, Drain, Begins, Seed, ReadBatch, Accepted, Refused, GiveUp, Advance,
      DrainRaises, Connect,
     Disconnect, Stream, ReadBounds, Replay, Send, Take, CatchUp, Rest, ReadRest, table, rows

---------------------------------------------------------------------------
(* The cursor.                                                             *)

\* What was known stays known: committed for good, or undone and remembered.
LEMMA KnownStays ==
  ASSUME TableOK, Next, NEW id \in Nat, Known(id)
  PROVE  Known(id)'
<1>1. /\ Len(kind) \in Nat /\ Top \in Nat /\ Top = IF open THEN Len(kind) - 1 ELSE Len(kind)
      /\ peeked \in BOOLEAN /\ (peeked => open)
  BY TableFacts DEF TableOK
<1>2. CASE \E t \in Types : Insert(t)
  <2>1. Len(kind') = Len(kind) + 1 /\ open' = TRUE /\ dirty' = dirty /\ ~peeked
    BY <1>2, AppendProperties DEF Insert, TableOK
  <2>2. Top' = Len(kind)
    BY <1>1, <2>1 DEF Top
  <2> QED BY <1>1, <2>1, <2>2 DEF Known
<1>3. CASE Commit
  <2>1. kind' = kind /\ open' = FALSE /\ dirty' = dirty
    BY <1>3 DEF Commit
  <2> QED BY <1>1, <2>1 DEF Known, Top
<1>4. CASE Undo
  <2>1. Top' = Top /\ dirty \subseteq dirty' /\ (peeked => Len(kind) \in dirty')
    BY <1>4, UndoCuts
  <2> QED BY <2>1 DEF Known
<1>5. CASE UNCHANGED <<kind, open, dirty>> /\ peeked' \in {peeked, peeked \/ open}
  BY <1>1, <1>5 DEF Known, Top
<1> QED
  BY <1>2, <1>3, <1>4, <1>5 DEF Next, Record, InsertFails, WindowEnds, Publish, Abandon,
     RollsBack, Crash, SweepBegins, SweepChunk, Drain, Begins, Seed, ReadBatch, Accepted, Refused,
     GiveUp, Advance, DrainRaises, Connect, Disconnect, Stream, ReadBounds, Replay, Send, Take,
     CatchUp, Rest, ReadRest, Reads, table, rows

\* A row that is read is known from then on.
LEMMA ReadIsKnown ==
  ASSUME TableOK, Reads, UNCHANGED <<kind, open, dirty>>, NEW id \in Nat, id <= Len(kind)
  PROVE  Known(id)'
BY TableFacts DEF TableOK, Reads, Known, Top

\* A step that leaves the drain alone: rows are taken, or added behind all that is known, and
\* what is undone is owed no more.
LEMMA TableMoves ==
  ASSUME TableOK, TableOK', CursorOK, Next, UNCHANGED <<wants, cursor, drain>>,
         dirty \subseteq dirty', \A i \in settled : i \in kept' => i \in settled',
         \A id \in Nat : Known(id) =>
           \A i \in kept' \ dirty' : i <= id => i \in kept /\ kind'[i] = kind[i]
  PROVE  CursorOK'
<1>1. ASSUME NEW id, NEW batch, Settled(id, batch)
      PROVE  /\ id \in Nat /\ Known(id)'
             /\ \A i \in kept' \ dirty' : i <= id /\ Wants(i)' => i \in settled' \cup batch
  <2>1. id \in Nat /\ Known(id) /\ Known(id)'
    BY <1>1, KnownStays DEF Settled
  <2> QED BY <1>1, <2>1 DEF Settled, Wants
<1> QED BY <1>1 DEF CursorOK, Settled

\* The first rows after an id leave none out.
LEMMA FirstIsClosed ==
  ASSUME TableOK, NEW id \in Nat, NEW limit \in Nat, NEW end \in First(id, limit),
         NEW i \in kept, id < i, i <= end
  PROVE  i \in First(id, limit)
<1> DEFINE S(n) == {j \in kept : id < j /\ j < n}
<1>1. Len(kind) \in Nat /\ end \in kept /\ \A j \in kept : j \in 1..Len(kind)
  BY TableFacts DEF First, TableOK
<1>2. IsFiniteSet(S(end))
  <2>1. IsFiniteSet(1..Len(kind))
    BY <1>1, FS_Interval
  <2> QED BY <1>1, <2>1, FS_Subset
<1>3. S(i) \subseteq S(end)
  BY <1>1
<1>4. Cardinality(S(i)) <= Cardinality(S(end)) /\ Cardinality(S(end)) < limit
  BY <1>2, <1>3, FS_Subset DEF First
<1>5. Cardinality(S(i)) \in Nat /\ Cardinality(S(end)) \in Nat
  BY <1>2, <1>3, FS_Subset, FS_CardinalityType
<1>6. Cardinality(S(i)) < limit
  BY <1>4, <1>5
<1> QED BY <1>6 DEF First

LEMMA CursorKeeps ==
  ASSUME TableOK, TableOK', DrainOK, CursorOK, Next
  PROVE  DrainOK' /\ CursorOK'
<1>1. /\ Len(kind) \in Nat /\ Top \in Nat /\ Top <= Len(kind)
      /\ Top = IF open THEN Len(kind) - 1 ELSE Len(kind)
      /\ \A i \in kept : i \in Nat /\ i <= Len(kind)
  BY TableFacts
<1>2. CASE \E t \in Types : Insert(t)
  <2> PICK t \in Types : Insert(t)
    BY <1>2
  <2>1. /\ UNCHANGED <<wants, cursor, drain, settled, dirty>> /\ kept' = kept \cup {Len(kind) + 1}
        /\ writing = "none" /\ ~open /\ ~peeked
    BY DEF Insert, hook, TableOK
  <2>2. kind' = Append(kind, t) /\ kind \in Seq(Types)
    BY DEF Insert, TableOK
  <2>3. \A i \in 1..Len(kind) : kind'[i] = kind[i]
    BY <1>1, <2>2, AppendProperties
  <2>4. ASSUME NEW id \in Nat, Known(id), NEW i \in kept' \ dirty', i <= id
        PROVE  i \in kept /\ kind'[i] = kind[i]
    <3>1. id <= Len(kind) \/ (id \in dirty /\ id = Len(kind) + 1)
      BY <1>1, <2>1, <2>4 DEF Known, TableOK
    <3>2. i \in kept
      BY <1>1, <2>1, <2>4, <3>1
    <3> QED BY <2>3, <3>2 DEF TableOK
  <2>5. CursorOK'
    BY <2>1, <2>4, TableMoves
  <2> QED BY <2>1, <2>5 DEF DrainOK
<1>3. CASE /\ UNCHANGED <<wants, cursor, drain, settled, kind, dirty>> /\ kept' \subseteq kept
  <2>1. CursorOK'
    BY <1>3, TableMoves
  <2> QED BY <1>3, <2>1 DEF DrainOK
<1>4. CASE Undo /\ UNCHANGED <<wants, cursor>> /\ drain' \in {drain, Resting}
  <2>1. \A i \in 1..Top : kind'[i] = kind[i]
    BY <1>4, UndoCuts
  <2>2. dirty \subseteq dirty'
    BY <1>4, UndoCuts
  <2>3. kept' = kept \cap 1..Top /\ settled' = settled \cap 1..Top
    BY <1>4 DEF Undo
  <2>4. DrainOK'
    BY <1>4, <2>3 DEF DrainOK, Resting, None
  <2>5. ASSUME NEW id, NEW batch, Settled(id, batch)
        PROVE  /\ id \in Nat /\ Known(id)'
               /\ \A i \in kept' \ dirty' : i <= id /\ Wants(i)' => i \in settled' \cup batch
    <3>1. id \in Nat /\ Known(id)'
      BY <2>5, KnownStays DEF Settled
    <3> QED BY <1>4, <2>1, <2>2, <2>3, <2>5, <3>1 DEF Settled, Wants
  <2> QED BY <1>4, <2>4, <2>5 DEF CursorOK, Settled, Resting, None
<1>5. CASE DrainRaises
  <2>1. UNCHANGED <<wants, cursor, settled, kind, kept, dirty>> /\ drain' = Resting
    BY <1>5 DEF DrainRaises, Drains, table, rows
  <2>2. ASSUME NEW id \in Nat, Known(id)
        PROVE  Known(id)'
    BY <2>2, KnownStays
  <2> QED BY <2>1, <2>2 DEF DrainOK, CursorOK, Settled, Wants, Resting, None
<1>6. CASE Drain
  <2>1. UNCHANGED <<wants, kind, kept, open, dirty>>
    BY <1>6 DEF Drain, Begins, Seed, ReadBatch, Accepted, Refused, GiveUp, Advance, table, rows
  <2>2. ASSUME NEW id \in Nat, Known(id)
        PROVE  Known(id)'
    BY <2>2, KnownStays
  <2>3. CASE Begins
    BY <2>1, <2>2, <2>3 DEF Begins, Drains, Resting, DrainOK, CursorOK, Settled, Wants, None
  <2>4. CASE Seed
    <3> PICK head \in {0} \cup kept :
          /\ \A i \in kept : i <= head
          /\ Drains([drain EXCEPT !.pc = "set", !.local = head, !.then = "sleep"])
          /\ settled' = settled \cup 1..head
      BY <2>4 DEF Seed
    <3>1. head \in Nat /\ head <= Len(kind) /\ cursor' = cursor /\ Reads
      BY <1>1, <2>4 DEF Seed
    <3>2. kept \subseteq settled'
      BY <1>1, <3>1 DEF TableOK
    <3>3. drain'.pc = "set" /\ drain'.local = head
      BY DEF Drains, DrainOK
    <3>4. settled' \subseteq Nat
      BY DEF DrainOK
    <3>5. drain' = [drain EXCEPT !.pc = "set", !.local = head, !.then = "sleep"]
      BY DEF Drains
    <3>6. DrainOK'
      BY <3>1, <3>4, <3>5 DEF DrainOK
    <3>7. cursor' # None => Settled(cursor, {})'
      BY <2>1, <2>2, <3>1, <3>2 DEF CursorOK, Settled
    <3>8. Known(head)'
      BY <2>1, <3>1, ReadIsKnown
    <3>9. Settled(drain.local, {})'
      BY <2>1, <3>1, <3>2, <3>3, <3>8 DEF Settled, Known, Top
    <3> QED BY <3>3, <3>6, <3>7, <3>9 DEF CursorOK
  <2>5. CASE ReadBatch
    <3> DEFINE batch == First(drain.local, BatchMax)
    <3>1. drain.pc = "read" /\ UNCHANGED <<cursor, settled>> /\ Settled(drain.local, {}) /\ Reads
      BY <2>5 DEF ReadBatch, CursorOK
    <3>2. CASE batch = {}
      <4>1. drain' = Resting
        BY <2>5, <3>2 DEF ReadBatch, Drains
      <4> QED BY <2>1, <2>2, <3>1, <4>1 DEF DrainOK, CursorOK, Settled, Wants, Resting, None
    <3>3. CASE batch # {}
      <4>1. Turned(batch)
        BY <2>5, <3>3 DEF ReadBatch
      <4> DEFINE matched == {i \in batch : Wants(i)}
      <4>2. PICK end \in batch :
              /\ \A i \in batch : i <= end
              /\ drain' = [drain EXCEPT !.pc = IF matched = {} THEN "set" ELSE "deliver",
                                       !.local = end, !.batch = matched,
                                       !.attempt = 1, !.then = "read"]
        BY <4>1 DEF Turned, Drains
      <4>3. batch \subseteq kept /\ drain.local \in Nat /\ BatchMax \in Nat
        BY <3>1, BoundAssumption DEF First, Settled
      <4>4. \A i \in kept : drain.local < i /\ i <= end => i \in batch
        BY <4>2, <4>3, FirstIsClosed
      <4>5. \A i \in kept \ dirty : i <= end /\ Wants(i) => i \in settled \cup matched
        BY <1>1, <3>1, <4>3, <4>4 DEF Settled
      <4>6. end \in Nat /\ end <= Len(kind) /\ matched \in SUBSET Nat
        BY <1>1, <3>1, <4>3
      <4> HIDE DEF matched, batch
      <4>7. DrainOK'
        BY <2>1, <3>1, <4>2, <4>6 DEF DrainOK
      <4>8. /\ drain'.local = end /\ drain'.batch = matched
            /\ drain'.pc = IF matched = {} THEN "set" ELSE "deliver"
        BY <4>2 DEF DrainOK
      <4>9. Known(end)'
        BY <2>1, <3>1, <4>6, ReadIsKnown
      <4>10. Settled(drain.local, drain.batch)'
        <5>1. \A i : Wants(i)' <=> Wants(i)
          BY <2>1 DEF Wants
        <5>2. Known(drain.local)'
          BY <4>8, <4>9 DEF Known
        <5> QED BY <2>1, <3>1, <4>5, <4>6, <4>8, <5>1, <5>2 DEF Settled
      <4>11. cursor' # None => Settled(cursor, {})'
        BY <2>1, <2>2, <3>1 DEF CursorOK, Settled, Wants
      <4>12. matched = {} => Settled(drain.local, {})'
        BY <4>8, <4>10 DEF Settled
      <4> QED BY <4>7, <4>8, <4>10, <4>11, <4>12 DEF CursorOK
    <3> QED BY <3>2, <3>3
  <2>6. CASE Accepted
    BY <2>1, <2>2, <2>6 DEF Accepted, Drains, DrainOK, CursorOK, Settled, Wants
  <2>7. CASE Refused
    BY <2>1, <2>2, <2>7 DEF Refused, Drains, DrainOK, CursorOK, Settled, Wants
  <2>8. CASE GiveUp
    BY <2>1, <2>2, <2>8 DEF GiveUp, Drains, DrainOK, CursorOK, Settled, Wants
  <2>9. CASE Advance
    BY <2>1, <2>2, <2>9 DEF Advance, Drains, Resting, DrainOK, CursorOK, Settled, Wants, None
  <2> QED BY <1>6, <2>3, <2>4, <2>5, <2>6, <2>7, <2>8, <2>9 DEF Drain
<1> QED
  BY <1>2, <1>3, <1>4, <1>5, <1>6 DEF Next, Record, Commit, InsertFails, WindowEnds, Publish,
     Abandon, RollsBack, Crash, Drains, SweepBegins, SweepChunk, Connect, Disconnect, Stream,
     ReadBounds, Replay, Send, Take, CatchUp, Rest, ReadRest, table, rows, hook

---------------------------------------------------------------------------
(* The theorems.                                                           *)

LEMMA Begun == Init => FeedInv
<1> SUFFICES ASSUME Init PROVE FeedInv
  OBVIOUS
<1>1. PICK n \in 0..InitRows : kind = [i \in 1..n |-> "edge"] /\ kept = 1..n
  BY DEF Init
<1>2. kind \in Seq(Types) /\ Len(kind) = n
  <2>1. n \in Nat
    BY BoundAssumption
  <2> QED BY <1>1, <2>1 DEF Types
<1>3. TableOK /\ SweepOK
  BY <1>1, <1>2, BoundAssumption DEF Init, TableOK, SweepOK, NewestAreKept, Owed, Top
<1>4. WindowOK /\ DrainOK /\ CursorOK
  BY DEF Init, WindowOK, DrainOK, CursorOK, Resting, None
<1> QED BY <1>3, <1>4 DEF FeedInv

LEMMA Kept == FeedInv /\ [Next]_vars => FeedInv'
<1> SUFFICES ASSUME FeedInv, [Next]_vars PROVE FeedInv'
  OBVIOUS
<1>1. CASE Next
  BY <1>1, SweepKeeps, WindowKeeps, CursorKeeps DEF FeedInv
<1>2. CASE UNCHANGED vars
  BY <1>2 DEF vars, table, rows, hook, stream, FeedInv, TableOK, WindowOK, SweepOK,
     NewestAreKept, Owed, DrainOK, CursorOK, Settled, Known, Wants, Top
<1> QED BY <1>1, <1>2

LEMMA Always == Spec => []FeedInv
BY Begun, Kept, PTL DEF Spec

\* EventRecorder.record: the flap guard holds nothing back that was not written.
THEOREM SuppressionIsOnRecord == Spec => []SuppressedIsOnRecord
<1>1. FeedInv => SuppressedIsOnRecord
  BY DEF FeedInv, WindowOK, SuppressedIsOnRecord
<1> QED BY <1>1, Always, PTL

\* _sweep_event_feed: the newest rows stay, however many are inserted during a sweep.
THEOREM NewestRowsAreKept == Spec => []NewestAreKept
<1>1. FeedInv => NewestAreKept
  BY DEF FeedInv, SweepOK
<1> QED BY <1>1, Always, PTL

\* WebhookDispatcher._drain_target: a cursor is past no row that is still owed.
THEOREM NothingIsSkipped == Spec => []CursorSkipsNothing
<1>1. FeedInv => CursorSkipsNothing
  BY DEF FeedInv, CursorOK, Settled, CursorSkipsNothing
<1> QED BY <1>1, Always, PTL

---------------------------------------------------------------------------
(* The table has no holes.                                                 *)

Contiguous == \E lo \in 1..(Len(kind) + 1) : kept = lo..Len(kind)

LEMMA BelowInInterval ==
  ASSUME NEW a \in Int, NEW b \in Int, NEW i \in a..b
  PROVE  {j \in a..b : j < i} = a..(i - 1) /\ Cardinality({j \in a..b : j < i}) = i - a
<1>1. {j \in a..b : j < i} = a..(i - 1)
  OBVIOUS
<1>2. Cardinality(a..(i - 1)) = IF a > i - 1 THEN 0 ELSE i - 1 - a + 1
  BY FS_Interval
<1>3. Cardinality(a..(i - 1)) = i - a
  BY <1>2
<1> QED BY <1>1, <1>3, Zenon

\* Rows are added at the end and undone at the end; a sweep takes the first ones.
LEMMA StaysContiguous ==
  ASSUME TableOK, SweepOK, Contiguous, Next
  PROVE  Contiguous'
<1>1. PICK lo \in 1..(Len(kind) + 1) : kept = lo..Len(kind)
  BY DEF Contiguous
<1>2. /\ Len(kind) \in Nat /\ Top \in Nat /\ Top <= Len(kind) /\ lo \in Nat \ {0}
      /\ KeepLast \in Nat /\ Chunk \in Nat \ {0} /\ Owed \in Nat
      /\ Top = IF open THEN Len(kind) - 1 ELSE Len(kind)
  BY <1>1, TableFacts, BoundAssumption
<1>3. CASE \E t \in Types : Insert(t)
  <2>1. kept' = kept \cup {Len(kind) + 1} /\ Len(kind') = Len(kind) + 1
    BY <1>3, AppendProperties DEF Insert, TableOK
  <2>2. kept' = lo..Len(kind') /\ lo \in 1..(Len(kind') + 1)
    BY <1>1, <1>2, <2>1
  <2> QED BY <2>2 DEF Contiguous
<1>4. CASE Undo
  <2>1. kept' = kept \cap 1..Top /\ Len(kind') = Top
    BY <1>4, UndoCuts DEF Undo
  <2>2. lo <= Top + 1
    <3>1. Top # Len(kind) => Top = Len(kind) - 1
      BY <1>2 DEF Top
    <3>2. Len(kind) > 0 /\ Len(kind) > Top - Owed => Len(kind) \in kept
      BY <1>2 DEF SweepOK, NewestAreKept
    <3> QED BY <1>1, <1>2, <3>1, <3>2
  <2>3. kept' = lo..Len(kind') /\ lo \in 1..(Len(kind') + 1)
    BY <1>1, <1>2, <2>1, <2>2
  <2> QED BY <2>3 DEF Contiguous
<1>5. CASE SweepChunk
  <2> DEFINE below == {i \in kept : i <= sweep}
             chunk == {i \in below : Cardinality({j \in below : j < i}) < Chunk}
             from == IF sweep < lo THEN lo
                       ELSE IF lo + Chunk <= sweep + 1 THEN lo + Chunk ELSE sweep + 1
  <2>1. sweep # None /\ kept' = kept \ chunk /\ kind' = kind
    BY <1>5 DEF SweepChunk
  <2>2. sweep \in Nat /\ sweep <= Len(kind)
    BY <1>2, <2>1 DEF SweepOK
  <2>3. below = lo..sweep
    BY <1>1, <1>2, <2>2
  <2>4. chunk = {i \in lo..sweep : i - lo < Chunk}
    <3>1. \A i \in lo..sweep : Cardinality({j \in lo..sweep : j < i}) = i - lo
      BY <1>2, <2>2, BelowInInterval
    <3> HIDE DEF below
    <3> QED BY <2>3, <3>1
  <2> HIDE DEF chunk, below
  <2>5. kept' = from..Len(kind) /\ from \in 1..(Len(kind) + 1)
    BY <1>1, <1>2, <2>1, <2>2, <2>4
  <2> QED BY <2>1, <2>5 DEF Contiguous
<1>6. CASE UNCHANGED <<kind, kept>>
  BY <1>6 DEF Contiguous
<1> QED
  BY <1>3, <1>4, <1>5, <1>6 DEF Next, Record, InsertFails, WindowEnds, Commit, Publish, Abandon,
     RollsBack, Crash, SweepBegins, Drain, Begins, Seed, ReadBatch, Accepted, Refused, GiveUp,
     Advance, DrainRaises, Connect, Disconnect, Stream, ReadBounds, Replay, Send, Take, CatchUp,
     Rest, ReadRest, table, rows

---------------------------------------------------------------------------
(* What a read of the feed returns.                                        *)

\* n rows in a row, from number a.
Run(found, a, n) ==
  found \in Seq(Nat) /\ Len(found) = n /\ \A k \in 1..n : found[k] = a + k - 1

LEMMA FirstIsRun ==
  ASSUME TableOK, Contiguous, NEW id \in Nat, NEW limit \in Nat \ {0}
  PROVE  \E a \in Nat, n \in 0..limit :
           /\ First(id, limit) = a..(a + n - 1) /\ id < a
           /\ n # 0 => a + n - 1 <= Len(kind)
           /\ \A i \in kept : i > id => a <= i /\ (n < limit => i <= a + n - 1)
<1>1. PICK lo \in 1..(Len(kind) + 1) : kept = lo..Len(kind)
  BY DEF Contiguous
<1>2. Len(kind) \in Nat /\ lo \in Nat \ {0}
  BY <1>1, TableFacts
<1> DEFINE a == IF lo > id THEN lo ELSE id + 1
           left == IF a > Len(kind) THEN 0 ELSE Len(kind) - a + 1
           n == IF left < limit THEN left ELSE limit
<1>3. a \in Nat /\ n \in 0..limit /\ id < a /\ left \in Nat
  BY <1>2
<1>4. First(id, limit) = {i \in a..Len(kind) : i - a < limit}
  <2>1. {i \in kept : i > id} = a..Len(kind)
    BY <1>1, <1>2
  <2>2. \A i \in a..Len(kind) : {j \in kept : id < j /\ j < i} = {j \in a..Len(kind) : j < i}
    BY <1>1, <1>2
  <2> HIDE DEF a
  <2>3. \A i \in a..Len(kind) : Cardinality({j \in a..Len(kind) : j < i}) = i - a
    BY <1>2, <1>3, BelowInInterval
  <2> QED BY <2>1, <2>2, <2>3 DEF First
<1>5. First(id, limit) = a..(a + n - 1)
  <2> HIDE DEF a
  <2> QED BY <1>2, <1>3, <1>4
<1>6. /\ n # 0 => a + n - 1 <= Len(kind)
      /\ \A i \in kept : i > id => a <= i /\ (n < limit => i <= a + n - 1)
  <2>1. (n = limit /\ limit <= left) \/ (n = left /\ left < limit)
    BY <1>3
  <2>3. \A i \in kept : i <= Len(kind) /\ (i > id => a <= i)
    BY <1>1, <1>2
  <2> HIDE DEF a
  <2>2. (left = 0 /\ a > Len(kind)) \/ (left = Len(kind) - a + 1 /\ a <= Len(kind))
    BY <1>2, <1>3
  <2> HIDE DEF left, n
  <2>4. n # 0 => a + n - 1 <= Len(kind)
    BY <1>2, <1>3, <2>1, <2>2
  <2>5. n < limit => Len(kind) <= a + n - 1
    BY <1>2, <1>3, <2>1, <2>2
  <2>6. \A i \in kept : i \in Nat
    BY TableFacts
  <2> QED BY <1>2, <1>3, <2>3, <2>4, <2>5, <2>6
<1> HIDE DEF a, n
<1> QED BY <1>3, <1>5, <1>6

LEMMA AfterIsRun ==
  ASSUME TableOK, Contiguous, NEW id \in Nat, NEW limit \in Nat \ {0}
  PROVE  \E a \in Nat, n \in 0..limit :
           /\ Run(After(id, limit), a, n) /\ id < a
           /\ n # 0 => a + n - 1 <= Len(kind)
           /\ \A i \in kept : i > id => a <= i /\ (n < limit => i <= a + n - 1)
<1>1. PICK a \in Nat, n \in 0..limit :
        /\ First(id, limit) = a..(a + n - 1) /\ id < a
        /\ n # 0 => a + n - 1 <= Len(kind)
        /\ \A i \in kept : i > id => a <= i /\ (n < limit => i <= a + n - 1)
  BY FirstIsRun
<1> DEFINE found == a..(a + n - 1)
           nth(k) == CHOOSE i \in found : Cardinality({j \in found : j < i}) = k - 1
<1>2. Cardinality(found) = n
  <2>1. Cardinality(found) = IF a > a + n - 1 THEN 0 ELSE a + n - 1 - a + 1
    BY FS_Interval
  <2> QED BY <2>1
<1>3. ASSUME NEW k \in 1..n  PROVE nth(k) = a + k - 1
  <2>1. \A i \in found : Cardinality({j \in found : j < i}) = i - a
    BY BelowInInterval
  <2>2. a + k - 1 \in found /\ Cardinality({j \in found : j < a + k - 1}) = k - 1
    <3>1. a + k - 1 \in found /\ (a + k - 1) - a = k - 1
      OBVIOUS
    <3> QED BY <2>1, <3>1
  <2>3. \A i \in found : Cardinality({j \in found : j < i}) = k - 1 => i = a + k - 1
    BY <2>1
  <2> HIDE DEF found
  <2> QED BY <2>2, <2>3
<1>4. After(id, limit) = [k \in 1..n |-> nth(k)]
  <2>1. First(id, limit) = found
    BY <1>1
  <2> HIDE DEF found
  <2> QED BY <1>2, <2>1 DEF After
<1> HIDE DEF nth, found
<1>5. After(id, limit) = [k \in 1..n |-> a + k - 1]
  BY <1>3, <1>4
<1>6. Run(After(id, limit), a, n)
  <2>1. [k \in 1..n |-> a + k - 1] \in Seq(Nat) /\ Len([k \in 1..n |-> a + k - 1]) = n
    OBVIOUS
  <2> QED BY <1>5, <2>1 DEF Run
<1> QED BY <1>1, <1>6

LEMMA ShortRun ==
  ASSUME NEW found, NEW a \in Nat, NEW n \in Nat, Run(found, a, n), NEW m \in 0..n
  PROVE  Run(SubSeq(found, 1, m), a, m)
<1>1. /\ SubSeq(found, 1, m) \in Seq(Nat)
      /\ Len(SubSeq(found, 1, m)) = IF 1 <= m THEN m - 1 + 1 ELSE 0
      /\ \A i \in 1..(m - 1 + 1) : SubSeq(found, 1, m)[i] = found[1 + i - 1]
  <2>1. \A i \in 1..m : found[i] \in Nat
    BY DEF Run
  <2> HIDE DEF Run
  <2> QED BY <2>1, SubSeqProperties
<1> QED BY <1>1 DEF Run

---------------------------------------------------------------------------
(* The inductive invariant.                                                *)

\* What is still to be sent to a client that is at `last': every row follows the one before it,
\* or a gap is announced in between.
Chained(todo, last, excused) ==
  \A k \in 1..Len(todo) : todo[k] # Gap =>
    IF k = 1 THEN last = None \/ excused \/ todo[1] = last + 1
      ELSE todo[k - 1] = Gap \/ todo[k] = todo[k - 1] + 1

\* The client was told of a gap, or its own row was undone.
Excused == view.warned \/ view.last \in dirty

\* The server is where the client is, or the client is excused.
Even == IF conn.seen = None THEN view.last = None ELSE view.last = conn.seen \/ Excused

StreamTypes ==
  /\ conn \in [pc : {"off", "bounds", "rows", "send", "live", "catch"}, seen : Nat \cup {None},
               queue : Seq(Nat), todo : Seq(Nat), bounds : Nat \X Nat, rid : Nat]
  /\ view \in [last : Nat \cup {None}, warned : BOOLEAN]

\* What is published is committed.
QueueOK == \A k \in 1..Len(conn.queue) : 1 <= conn.queue[k] /\ conn.queue[k] <= Top
ViewOK == view.last > 0 => Top > 0 \/ Known(view.last)

TodoOK(todo, seen) ==
  /\ Chained(todo, view.last, Excused)
  /\ todo # <<>> => todo[Len(todo)] \in {Gap, seen}

PlaceOK ==
  /\ conn.pc \in {"bounds", "rows"} => view.last # None /\ conn.seen = view.last
  /\ conn.pc = "rows" => conn.bounds[2] > 0 \/ view.last = 0 \/ Excused
  /\ conn.pc = "send" =>
       /\ conn.seen # None /\ TodoOK(conn.todo, conn.seen) /\ (conn.todo = <<>> => Even)
       /\ \A k \in 1..Len(conn.todo) : Known(conn.todo[k])
  /\ conn.pc \in {"live", "catch"} => Even
  /\ conn.pc = "catch" => conn.seen # None /\ conn.rid > conn.seen + 1 /\ conn.rid <= Top

---------------------------------------------------------------------------
(* What is put before a client.                                            *)

\* A gap or none, and a run of rows.
Laid(todo, h, a, n) ==
  /\ todo \in Seq(Nat) /\ Len(todo) = h + n
  /\ \A k \in 1..(h + n) : todo[k] = IF k <= h THEN Gap ELSE a + (k - h) - 1

LEMMA FramesAreLaid ==
  ASSUME NEW found, NEW a \in Nat \ {0}, NEW n \in Nat, Run(found, a, n), NEW gap \in BOOLEAN
  PROVE  Laid((IF gap THEN <<Gap>> ELSE <<>>) \o found, IF gap THEN 1 ELSE 0, a, n)
<1> DEFINE h == IF gap THEN 1 ELSE 0
           front == IF gap THEN <<Gap>> ELSE <<>>
           todo == front \o found
<1>1. front \in Seq(Nat) /\ Len(front) = h /\ (h = 1 => front[1] = Gap) /\ h \in 0..1
  BY DEF Gap
<1>2. found \in Seq(Nat) /\ Len(found) = n /\ \A k \in 1..n : found[k] = a + k - 1
  BY DEF Run
<1> HIDE DEF front, h
<1>3. /\ todo \in Seq(Nat) /\ Len(todo) = h + n
      /\ \A k \in 1..(h + n) : todo[k] = IF k <= h THEN front[k] ELSE found[k - h]
  BY <1>1, <1>2, ConcatProperties
<1> HIDE DEF todo
<1>4. ASSUME NEW k \in 1..(h + n)
      PROVE  todo[k] = IF k <= h THEN Gap ELSE a + (k - h) - 1
  <2>1. CASE k <= h
    <3>1. k = 1 /\ h = 1
      BY <1>1, <2>1
    <3> QED BY <1>1, <1>3, <2>1, <3>1
  <2>2. CASE k > h
    <3>1. k - h \in 1..n /\ todo[k] = found[k - h]
      BY <1>1, <1>3, <2>2
    <3> QED BY <1>1, <1>2, <2>2, <3>1
  <2> QED BY <1>1, <2>1, <2>2
<1>5. Laid(todo, h, a, n)
  BY <1>3, <1>4 DEF Laid
<1> QED BY <1>5 DEF todo, front, h

\* Rows behind a gap, or where the client is, may be sent to it.
LEMMA LaidIsOK ==
  ASSUME NEW todo, NEW h \in 0..1, NEW a \in Nat \ {0}, NEW n \in Nat, Laid(todo, h, a, n),
         h = 1 \/ n = 0 \/ Excused \/ a = view.last + 1,
         NEW seen, n = 0 \/ seen = a + n - 1
  PROVE  /\ TodoOK(todo, seen) /\ (todo = <<>> => n = 0 /\ h = 0)
         /\ \A k \in 1..Len(todo) :
              todo[k] \in Nat /\ (todo[k] = 0 \/ (n # 0 /\ todo[k] <= a + n - 1))
<1>1. /\ todo \in Seq(Nat) /\ Len(todo) = h + n
      /\ \A k \in 1..(h + n) : todo[k] = IF k <= h THEN Gap ELSE a + (k - h) - 1
  BY DEF Laid
<1>2. Chained(todo, view.last, Excused)
  <2> SUFFICES ASSUME NEW k \in 1..(h + n), todo[k] # Gap
               PROVE  IF k = 1 THEN view.last = None \/ Excused \/ todo[1] = view.last + 1
                        ELSE todo[k - 1] = Gap \/ todo[k] = todo[k - 1] + 1
    BY <1>1 DEF Chained
  <2>1. k > h /\ todo[k] = a + (k - h) - 1
    BY <1>1
  <2>2. CASE k = 1
    <3>1. h = 0 /\ n # 0 /\ todo[1] = a
      BY <2>1, <2>2
    <3> QED BY <2>2, <3>1
  <2>3. CASE k # 1
    <3>1. todo[k - 1] = IF k - 1 <= h THEN Gap ELSE a + (k - 1 - h) - 1
      BY <1>1, <2>3
    <3>2. k - 1 > h => todo[k] = todo[k - 1] + 1
      BY <2>1, <3>1
    <3> QED BY <2>3, <3>1, <3>2
  <2> QED BY <2>2, <2>3
<1>3. ASSUME NEW k \in 1..Len(todo)
      PROVE  todo[k] \in Nat /\ (todo[k] = 0 \/ (n # 0 /\ todo[k] <= a + n - 1))
  BY <1>1 DEF Gap
<1>4. todo # <<>> => todo[Len(todo)] \in {Gap, seen}
  BY <1>1, EmptySeq
<1>5. todo = <<>> => n = 0 /\ h = 0
  BY <1>1, EmptySeq
<1> QED BY <1>2, <1>3, <1>4, <1>5 DEF TodoOK

---------------------------------------------------------------------------
(* The steps.                                                              *)

Served == StreamTypes /\ QueueOK /\ ViewOK /\ PlaceOK

\* Nothing that is committed is undone.
LEMMA TopGrows ==
  ASSUME TableOK, TableOK', Next, writing # "none" => Len(kind) # 0
  PROVE  Top <= Top' /\ (writing' # "none" => Len(kind') # 0)
<1>1. Len(kind) \in Nat /\ Top \in Nat /\ Len(kind') \in Nat /\ Top' \in Nat
  <2>1. Len(kind) \in Nat /\ Len(kind') \in Nat
    BY LenProperties DEF TableOK
  <2> QED BY <2>1 DEF TableOK, Top
<1>2. CASE \E t \in Types : Insert(t)
  <2>1. Len(kind') = Len(kind) + 1 /\ open' = TRUE
    BY <1>2, AppendProperties DEF Insert, TableOK
  <2> QED BY <1>1, <2>1 DEF Top
<1>3. CASE Commit
  BY <1>1, <1>3 DEF Commit, Top
<1>4. CASE Undo
  <2>1. Top' = Top
    BY <1>4, UndoCuts
  <2> QED BY <1>1, <1>4, <2>1 DEF Undo
<1>5. CASE UNCHANGED <<kind, open>> /\ writing' \in {writing, "none"}
  BY <1>1, <1>5 DEF Top
<1> QED
  BY <1>2, <1>3, <1>4, <1>5 DEF Next, Record, InsertFails, WindowEnds, Publish, Abandon,
     RollsBack, Crash, SweepBegins, SweepChunk, Drain, Begins, Seed, ReadBatch, Accepted, Refused,
     GiveUp, Advance, DrainRaises, Connect, Disconnect, Stream, ReadBounds, Replay, Send, Take,
     CatchUp, Rest, ReadRest, table, rows

\* What the rest of the daemon does, a disconnection and a crash included.
LEMMA ServedRests ==
  ASSUME Served, TableOK, Top \in Nat, Top' \in Nat, Top <= Top', view' = view,
         conn' \in {conn, Closed}, dirty \subseteq dirty',
         \A id \in Nat : Known(id) => Known(id)'
  PROVE  Served'
<1>0. ViewOK' /\ (Excused => Excused')
  <2>1. view.last \in Nat \cup {None} /\ view.last > 0 => view.last \in Nat
    BY DEF None
  <2>2. view.last \in Nat \cup {None} /\ ViewOK
    BY DEF Served, StreamTypes
  <2>3. view.last > 0 => Top' > 0 \/ Known(view.last)'
    <3>1. ASSUME NEW id \in Nat, id = view.last, Known(id)  PROVE Known(view.last)'
      BY <3>1 DEF Known
    <3> QED BY <2>1, <2>2, <3>1 DEF ViewOK
  <2> QED BY <2>3 DEF ViewOK, Excused
<1>1. CASE conn' = conn
  <2>1. StreamTypes' /\ QueueOK'
    BY <1>1 DEF Served, StreamTypes, QueueOK
  <2>2. TodoOK(conn.todo, conn.seen) => TodoOK(conn.todo, conn.seen)'
    BY <1>0, <1>1 DEF Served, StreamTypes, TodoOK, Chained
  <2>3. (Even => Even') /\ conn.rid \in Nat
    BY <1>0, <1>1 DEF Served, StreamTypes, Even
  <2>4. ASSUME NEW k \in 1..Len(conn.todo), Known(conn.todo[k])
        PROVE  Known(conn.todo[k])'
    <3>1. ASSUME NEW id \in Nat, id = conn.todo[k], Known(id)  PROVE Known(conn.todo[k])'
      BY <1>1, <3>1 DEF Known
    <3> QED BY <2>4, <3>1 DEF Served, StreamTypes
  <2>5. PlaceOK'
    BY <1>0, <1>1, <2>2, <2>3, <2>4 DEF Served, PlaceOK
  <2> QED BY <1>0, <2>1, <2>5 DEF Served
<1>2. CASE conn' = Closed
  <2>1. /\ conn'.pc = "off" /\ conn'.queue = <<>>
        /\ conn' = [pc |-> "off", seen |-> None, queue |-> <<>>, todo |-> <<>>,
                    bounds |-> <<0, 0>>, rid |-> 0]
    BY <1>2 DEF Closed
  <2>2. StreamTypes'
    <3>1. <<>> \in Seq(Nat) /\ <<0, 0>> \in Nat \X Nat
      OBVIOUS
    <3> QED BY <2>1, <3>1 DEF Served, StreamTypes
  <2>3. QueueOK' /\ PlaceOK'
    BY <2>1 DEF Served, StreamTypes, QueueOK, PlaceOK
  <2> QED BY <1>0, <2>2, <2>3 DEF Served
<1> QED BY <1>1, <1>2

LEMMA PublishServes ==
  ASSUME TableOK, Served, writing # "none" => Len(kind) # 0, Publish
  PROVE  Served'
<1>1. /\ Top' = Top /\ Top = Len(kind) /\ Top \in Nat \ {0}
      /\ conn' = Pushed(Len(kind)) /\ view' = view
  BY LenProperties DEF Publish, Top, TableOK
<1>4. UNCHANGED <<dirty, peeked>> /\ kind' = kind /\ \A id : Known(id)' <=> Known(id)
  BY <1>1 DEF Publish, Known
<1>2. CASE conn' = conn
  BY <1>1, <1>2, <1>4, ServedRests
<1>3. CASE conn' = [conn EXCEPT !.queue = Append(conn.queue, Len(kind))]
  <2>1. Append(conn.queue, Len(kind)) \in Seq(Nat)
    BY <1>1 DEF Served, StreamTypes
  <2>2. StreamTypes'
    BY <1>1, <1>3, <2>1 DEF Served, StreamTypes
  <2>3. QueueOK'
    <3>1. conn'.queue = Append(conn.queue, Len(kind)) /\ conn.queue \in Seq(Nat)
      BY <1>3 DEF Served, StreamTypes
    <3>2. /\ Len(conn'.queue) = Len(conn.queue) + 1 /\ Len(conn.queue) \in Nat
          /\ \A k \in 1..Len(conn.queue) : conn'.queue[k] = conn.queue[k]
          /\ conn'.queue[Len(conn.queue) + 1] = Len(kind)
      BY <3>1, <1>1
    <3> QED BY <1>1, <3>2, SMTT(40) DEF Served, QueueOK
  <2>4. ViewOK' /\ PlaceOK'
    BY <1>1, <1>3, <1>4 DEF Served, StreamTypes, ViewOK, PlaceOK, TodoOK, Even, Excused
  <2> QED BY <2>2, <2>3, <2>4 DEF Served
<1> QED BY <1>1, <1>2, <1>3 DEF Pushed

LEMMA ConnectServes ==
  ASSUME Served, Top \in Nat, Connect
  PROVE  Served'
<1>1. /\ conn' = [Closed EXCEPT !.pc = IF view.last = None THEN "live" ELSE "bounds",
                                !.seen = view.last]
      /\ view' = view /\ Top' = Top /\ UNCHANGED <<kind, peeked, dirty>>
  BY DEF Connect, Serves, Rest, ReadRest, table, rows, Top
<1>2. conn' = [pc |-> IF view.last = None THEN "live" ELSE "bounds", seen |-> view.last,
               queue |-> <<>>, todo |-> <<>>, bounds |-> <<0, 0>>, rid |-> 0]
  BY <1>1 DEF Closed
<1>3. StreamTypes'
  <2>1. <<>> \in Seq(Nat) /\ <<0, 0>> \in Nat \X Nat
    OBVIOUS
  <2> DEFINE pc == IF view.last = None THEN "live" ELSE "bounds"
  <2>2. pc \in {"live", "bounds"}
    OBVIOUS
  <2>3. conn' = [pc |-> pc, seen |-> view.last, queue |-> <<>>, todo |-> <<>>,
                 bounds |-> <<0, 0>>, rid |-> 0]
    BY <1>2
  <2> HIDE DEF pc
  <2>4. /\ view \in [last : Nat \cup {None}, warned : BOOLEAN]
        /\ view.last \in Nat \cup {None}
    BY DEF Served, StreamTypes
  <2>5. conn' \in [pc : {"off", "bounds", "rows", "send", "live", "catch"},
                   seen : Nat \cup {None}, queue : Seq(Nat), todo : Seq(Nat),
                   bounds : Nat \X Nat, rid : Nat]
    BY <2>1, <2>2, <2>3, <2>4
  <2> QED BY <1>1, <2>4, <2>5 DEF StreamTypes
<1>4. QueueOK' /\ ViewOK'
  <2>1. conn'.queue = <<>>
    BY <1>2
  <2> QED BY <1>1, <2>1 DEF Served, QueueOK, ViewOK, Known
<1>5. PlaceOK'
  BY <1>1, <1>2 DEF PlaceOK, Even
<1> QED BY <1>3, <1>4, <1>5 DEF Served

\* An empty table has never had a row: nothing is ever published before the client.
LEMMA ReadBoundsServes ==
  ASSUME KeepLast > 1, TableOK, SweepOK, Contiguous, Served, ReadBounds
  PROVE  Served'
<1>1. /\ conn.pc = "bounds" /\ view' = view /\ Top' = Top
      /\ UNCHANGED <<kind, open, dirty>> /\ peeked' = (peeked \/ open)
      /\ conn' = [conn EXCEPT !.pc = "rows",
                    !.bounds = IF kept = {} THEN <<0, 0>> ELSE <<Min(kept), Max(kept)>>]
  BY DEF ReadBounds, Serves, Reads, ReadRest, rows, Top
<1>2. PICK lo \in 1..(Len(kind) + 1) : kept = lo..Len(kind)
  BY DEF Contiguous
<1>3. /\ Len(kind) \in Nat /\ lo \in Nat \ {0} /\ Owed \in Nat \ {0} /\ Top \in Nat
      /\ Top = IF open THEN Len(kind) - 1 ELSE Len(kind)
      /\ open \in BOOLEAN /\ (open => Len(kind) # 0) /\ (peeked => open)
  BY <1>2, TableFacts DEF TableOK
<1>4. kept = {} => Top = 0 /\ ~open
  <2>1. Len(kind) > 0 => Len(kind) \in kept
    <3> SUFFICES ASSUME Len(kind) > 0 PROVE Len(kind) \in kept
      OBVIOUS
    <3>1. Len(kind) \in 1..Len(kind) /\ Len(kind) > Top - Owed
      BY <1>3
    <3> QED BY <3>1 DEF SweepOK, NewestAreKept
  <2> QED BY <1>3, <2>1
<1>5. kept # {} => Min(kept) \in Nat /\ Max(kept) \in Nat \ {0}
  <2> SUFFICES ASSUME kept # {} PROVE Min(kept) \in Nat /\ Max(kept) \in Nat \ {0}
    OBVIOUS
  <2>1. lo \in kept /\ Len(kind) \in kept /\ \A y \in kept : lo <= y /\ y <= Len(kind)
    BY <1>2, <1>3
  <2>2. Min(kept) \in kept /\ Max(kept) \in kept
    BY <2>1 DEF Min, Max
  <2> QED BY <1>2, <1>3, <2>2
<1>6. /\ conn'.bounds \in Nat \X Nat
      /\ kept # {} => conn'.bounds[2] = Max(kept)
  BY <1>1, <1>5 DEF Served, StreamTypes
<1>7. StreamTypes' /\ QueueOK' /\ ViewOK' /\ Excused' = Excused
  BY <1>1, <1>6 DEF Served, StreamTypes, QueueOK, ViewOK, Excused, Known
<1>8. PlaceOK'
  <2>1. view.last # None /\ conn.seen = view.last /\ view.last \in Nat
    BY <1>1 DEF Served, StreamTypes, PlaceOK
  <2>2. conn'.bounds[2] > 0 \/ view.last = 0 \/ Excused
    <3>1. CASE kept = {}
      <4>1. Top = 0 /\ ~peeked
        BY <1>3, <1>4, <3>1
      <4> QED BY <2>1, <4>1 DEF Served, ViewOK, Known, Excused
    <3>2. CASE kept # {}
      BY <1>5, <1>6, <3>2
    <3> QED BY <3>1, <3>2
  <2> QED BY <1>1, <1>7, <2>1, <2>2 DEF Served, StreamTypes, PlaceOK
<1> QED BY <1>7, <1>8 DEF Served

\* The server goes on to send what may be sent.
LEMMA SendsNext ==
  ASSUME Served, view' = view, Top' = Top, dirty' = dirty, ViewOK',
         NEW queue \in Seq(Nat), NEW todo \in Seq(Nat), NEW seen \in Nat,
         conn' = [conn EXCEPT !.pc = "send", !.queue = queue, !.todo = todo, !.seen = seen],
         \A k \in 1..Len(queue) : 1 <= queue[k] /\ queue[k] <= Top,
         TodoOK(todo, seen), todo = <<>> => view.last = seen \/ Excused,
         \A k \in 1..Len(todo) : \A id \in Nat : id = todo[k] => Known(id)'
  PROVE  Served'
<1>1. /\ conn'.pc = "send" /\ conn'.queue = queue /\ conn'.todo = todo /\ conn'.seen = seen
      /\ StreamTypes' /\ Excused' = Excused
  BY DEF Served, StreamTypes, Excused
<1>2. QueueOK'
  BY <1>1 DEF Served, QueueOK
<1>3. TodoOK(conn.todo, conn.seen)'
  BY <1>1 DEF TodoOK
<1>4. (conn.todo = <<>> => Even)'
  BY <1>1 DEF Even, None
<1>5. \A k \in 1..Len(conn'.todo) : Known(conn.todo[k])'
  BY <1>1 DEF Known
<1>6. PlaceOK'
  BY <1>1, <1>3, <1>4, <1>5 DEF PlaceOK, None
<1> QED BY <1>1, <1>2, <1>6 DEF Served

\* A replay follows the client's number, or is announced.
LEMMA ReplayServes ==
  ASSUME TableOK, Contiguous, Served, Replay
  PROVE  Served'
<1> DEFINE from == view.last
           low == conn.bounds[1]
           high == conn.bounds[2]
           found == After(from, MaxReplay + 1)
           pruned == IF found # <<>> THEN found[1] > from + 1 ELSE low > 0 /\ from < low - 1
           ahead == high > 0 /\ from > high
           sent == IF Len(found) > MaxReplay THEN SubSeq(found, 1, MaxReplay) ELSE found
           gap == pruned \/ ahead \/ Len(found) > MaxReplay
           todo == (IF gap THEN <<Gap>> ELSE <<>>) \o sent
           seen == IF sent # <<>> THEN Last(sent) ELSE IF from > high THEN high ELSE from
<1>1. /\ conn.pc = "rows" /\ view' = view /\ Top' = Top /\ Reads
      /\ UNCHANGED <<kind, open, dirty>>
      /\ conn' = [conn EXCEPT !.pc = "send", !.todo = todo, !.seen = seen]
  BY DEF Replay, Serves, ReadRest, rows, Top
<1>2. /\ from \in Nat /\ conn.seen = from /\ low \in Nat /\ high \in Nat
      /\ (high > 0 \/ from = 0 \/ Excused) /\ MaxReplay \in Nat \ {0}
  BY <1>1, BoundAssumption DEF Served, StreamTypes, PlaceOK, None
<1> HIDE DEF found, sent, gap, seen, todo
<1>3. Top \in Nat /\ Len(kind) \in Nat
  BY TableFacts
<1>4. PICK a \in Nat, n \in 0..(MaxReplay + 1) :
        Run(found, a, n) /\ from < a /\ (n # 0 => a + n - 1 <= Len(kind))
  <2>1. MaxReplay + 1 \in Nat \ {0}
    BY <1>2
  <2> QED BY <1>2, <2>1, AfterIsRun DEF found
<1>5. found \in Seq(Nat) /\ Len(found) = n /\ (n # 0 => found # <<>> /\ found[1] = a)
  BY <1>4, EmptySeq DEF Run
<1>6. PICK m \in 0..n : Run(sent, a, m) /\ (m = 0 => n = 0)
  <2>1. CASE n > MaxReplay
    <3>1. sent = SubSeq(found, 1, MaxReplay) /\ MaxReplay \in 0..n
      BY <1>2, <1>5, <2>1 DEF sent
    <3> QED BY <1>2, <1>4, <3>1, ShortRun
  <2>2. CASE ~(n > MaxReplay)
    <3>1. sent = found
      BY <1>5, <2>2 DEF sent
    <3> QED BY <1>4, <3>1
  <2> QED BY <2>1, <2>2
<1>7. sent \in Seq(Nat) /\ Len(sent) = m /\ (m # 0 => sent[m] = a + m - 1)
  BY <1>6 DEF Run
<1>8. /\ m # 0 => seen = a + m - 1
      /\ m = 0 => seen = IF from > high THEN high ELSE from
      /\ seen \in Nat
  <2>1. m # 0 <=> sent # <<>>
    BY <1>7, EmptySeq
  <2> QED BY <1>2, <1>4, <1>7, <2>1 DEF seen, Last
<1>9. gap \in BOOLEAN /\ (gap \/ m = 0 \/ a = from + 1) /\ (gap \/ ~ahead)
  BY <1>2, <1>4, <1>5, <1>6 DEF gap
<1> DEFINE h == IF gap THEN 1 ELSE 0
<1>10. Laid(todo, h, a, m) /\ a \in Nat \ {0} /\ m \in Nat
  BY <1>2, <1>4, <1>6, <1>9, FramesAreLaid DEF todo
<1>11. h \in 0..1 /\ (h = 1 \/ m = 0 \/ a = from + 1) /\ (h = 1 \/ ~ahead)
  BY <1>9
<1> HIDE DEF h
<1>12. m = 0 \/ a + m - 1 <= Len(kind)
  BY <1>3, <1>4, <1>6
<1>13. /\ TodoOK(todo, seen) /\ (todo = <<>> => m = 0 /\ h = 0)
       /\ \A k \in 1..Len(todo) :
            todo[k] \in Nat /\ (todo[k] = 0 \/ (m # 0 /\ todo[k] <= a + m - 1))
  BY <1>8, <1>10, <1>11, LaidIsOK
<1>14. todo = <<>> => seen = from \/ Excused
  BY <1>2, <1>8, <1>11, <1>13
<1>18. \A k \in 1..Len(todo) : \A id \in Nat : id = todo[k] => Known(id)'
  <2>1. \A k \in 1..Len(todo) : todo[k] \in Nat /\ todo[k] <= Len(kind)
    BY <1>3, <1>4, <1>12, <1>13
  <2>2. \A id \in Nat : id <= Len(kind) => Known(id)'
    BY <1>1, ReadIsKnown
  <2> QED BY <2>1, <2>2
<1>19. ViewOK'
  BY <1>1 DEF Served, ViewOK, Known, Reads
<1>15. todo \in Seq(Nat)
  BY <1>10 DEF Laid
<1>16. conn' = [conn EXCEPT !.pc = "send", !.queue = conn.queue, !.todo = todo, !.seen = seen]
  BY <1>1 DEF Served, StreamTypes
<1>17. /\ conn.queue \in Seq(Nat)
       /\ \A k \in 1..Len(conn.queue) : 1 <= conn.queue[k] /\ conn.queue[k] <= Top
  BY DEF Served, StreamTypes, QueueOK
<1> QED BY <1>1, <1>8, <1>13, <1>14, <1>15, <1>16, <1>17, <1>18, <1>19, SendsNext

\* What is sent is where the client is then.
LEMMA SendServes ==
  ASSUME TableOK, Served, Send
  PROVE  Served'
<1>1. /\ conn.pc = "send" /\ Top' = Top /\ Top \in Nat
      /\ UNCHANGED <<kind, peeked, dirty>> /\ \A id : Known(id)' <=> Known(id)
  BY TableFacts DEF Send, Rest, table, rows, Top, Known
<1>2. /\ TodoOK(conn.todo, conn.seen) /\ (conn.todo = <<>> => Even)
      /\ \A k \in 1..Len(conn.todo) : Known(conn.todo[k])
      /\ conn.todo \in Seq(Nat) /\ conn.queue \in Seq(Nat) /\ view.last \in Nat \cup {None}
  BY <1>1 DEF Served, StreamTypes, PlaceOK
<1>3. CASE conn.todo = <<>>
  <2>1. view' = view /\ conn' = [conn EXCEPT !.pc = "live"]
    BY <1>3 DEF Send, Serves
  <2>2. StreamTypes' /\ QueueOK' /\ ViewOK'
    BY <1>1, <2>1 DEF Served, StreamTypes, QueueOK, ViewOK
  <2>3. PlaceOK'
    BY <1>1, <1>2, <1>3, <2>1 DEF Served, StreamTypes, PlaceOK, Even, Excused
  <2> QED BY <2>1, <2>2, <2>3 DEF Served
<1>4. CASE conn.todo # <<>>
  <2> DEFINE f == Head(conn.todo)
             rest == Tail(conn.todo)
             n == Len(conn.todo)
  <2>1. /\ n \in Nat \ {0} /\ f = conn.todo[1] /\ f \in Nat
        /\ rest \in Seq(Nat) /\ Len(rest) = n - 1
        /\ \A k \in 1..(n - 1) : rest[k] = conn.todo[k + 1]
    BY <1>2, <1>4, HeadTailProperties, EmptySeq
  <2>2. /\ conn' = [conn EXCEPT !.todo = rest]
        /\ view' = IF f = Gap THEN [view EXCEPT !.warned = TRUE] ELSE [last |-> f, warned |-> FALSE]
    BY <1>4 DEF Send, Serves
  <2> HIDE DEF f, rest, n
  <2>3. /\ Chained(conn.todo, view.last, Excused) /\ conn.seen \in Nat
        /\ \A k \in 1..n : Known(conn.todo[k])
        /\ conn.todo[n] \in {Gap, conn.seen}
    BY <1>1, <1>2, <1>4 DEF TodoOK, Served, StreamTypes, PlaceOK, n
  <2>5. \A k \in 2..n : conn.todo[k] # Gap =>
           conn.todo[k - 1] = Gap \/ conn.todo[k] = conn.todo[k - 1] + 1
    BY <2>3 DEF Chained, n
  <2> SUFFICES
        /\ Chained(rest, view'.last, Excused') /\ ViewOK'
        /\ view' \in [last : Nat \cup {None}, warned : BOOLEAN]
        /\ rest = <<>> => Excused' \/ view'.last = conn.seen
    <3>1. /\ conn'.todo = rest /\ conn'.queue = conn.queue /\ conn'.seen = conn.seen
          /\ conn'.pc = "send"
      BY <1>1, <2>2 DEF Served, StreamTypes
    <3>2. StreamTypes' /\ QueueOK'
      BY <1>1, <2>1, <2>2, <3>1 DEF Served, StreamTypes, QueueOK
    <3>3. TodoOK(conn.todo, conn.seen)'
      <4>1. rest # <<>> => rest[Len(rest)] = conn.todo[n]
        BY <2>1, EmptySeq
      <4> QED BY <2>3, <3>1, <4>1 DEF TodoOK
    <3>4. (conn.todo = <<>> => Even)' /\ conn'.seen # None
      BY <2>3, <3>1 DEF Even, None
    <3>5. \A k \in 1..Len(conn'.todo) : Known(conn.todo[k])'
      <4>1. ASSUME NEW k \in 1..(n - 1), NEW id \in Nat, id = rest[k]  PROVE Known(id)'
        <5>1. k + 1 \in 1..n /\ rest[k] = conn.todo[k + 1]
          BY <2>1
        <5> QED BY <1>1, <2>3, <4>1, <5>1
      <4>2. Len(rest) = n - 1 /\ conn'.todo = rest /\ rest \in Seq(Nat)
        BY <2>1, <3>1
      <4> QED BY <4>1, <4>2 DEF Known
    <3> QED BY <3>1, <3>2, <3>3, <3>4, <3>5 DEF Served, PlaceOK
  <2>6. rest = <<>> => f \in {Gap, conn.seen}
    BY <2>1, <2>3, EmptySeq
  <2>7. ASSUME NEW k \in 1..Len(rest), rest[k] # Gap
        PROVE  IF k = 1 THEN f = Gap \/ rest[1] = f + 1
                 ELSE rest[k - 1] = Gap \/ rest[k] = rest[k - 1] + 1
    <3>1. k + 1 \in 2..n /\ rest[k] = conn.todo[k + 1] /\ (k + 1) - 1 = k
      BY <2>1, <2>7
    <3>2. conn.todo[k] = Gap \/ conn.todo[k + 1] = conn.todo[k] + 1
      BY <2>5, <2>7, <3>1
    <3>3. CASE k = 1
      BY <2>1, <3>1, <3>2, <3>3
    <3>4. CASE k # 1
      <4>1. k - 1 \in 1..(n - 1) /\ (k - 1) + 1 = k
        BY <2>1, <3>4
      <4>2. rest[k - 1] = conn.todo[k]
        BY <2>1, <4>1
      <4> QED BY <3>1, <3>2, <3>4, <4>2
    <3> QED BY <3>3, <3>4
  <2>8. CASE f = Gap
    <3>1. /\ view' = [view EXCEPT !.warned = TRUE] /\ view'.last = view.last /\ view'.warned
          /\ Excused'
      BY <2>2, <2>8 DEF Served, StreamTypes, Excused
    <3>2. Chained(rest, view'.last, Excused')
      BY <2>7, <3>1 DEF Chained
    <3> QED BY <1>1, <2>2, <2>3, <2>8, <3>1, <3>2 DEF Served, StreamTypes, ViewOK
  <2>9. CASE f # Gap
    <3>1. view' = [last |-> f, warned |-> FALSE]
      BY <2>2, <2>9
    <3>2. Chained(rest, view'.last, Excused')
      BY <2>9, <2>7, <3>1 DEF Chained
    <3>3. \A id \in Nat : id = f => Known(id)'
      BY <1>1, <2>1, <2>3
    <3>4. view'.last = f /\ view' \in [last : Nat \cup {None}, warned : BOOLEAN]
      BY <2>1, <3>1
    <3>5. ViewOK'
      BY <2>1, <3>3, <3>4 DEF ViewOK, Known
    <3> QED BY <2>6, <2>9, <3>2, <3>4, <3>5
  <2> QED BY <2>8, <2>9
<1> QED BY <1>3, <1>4

\* A row from the queue is dropped, sent, or waits for those before it.
LEMMA TakeServes ==
  ASSUME TableOK, Served, Take
  PROVE  Served'
<1> DEFINE rid == Head(conn.queue)
           queue == Tail(conn.queue)
<1>1. /\ conn.pc = "live" /\ conn.queue # <<>> /\ view' = view /\ Top' = Top
      /\ UNCHANGED <<kind, peeked, dirty>> /\ ViewOK'
      /\ conn' = IF conn.seen # None /\ rid <= conn.seen THEN [conn EXCEPT !.queue = queue]
                  ELSE IF conn.seen = None \/ rid = conn.seen + 1
                    THEN [conn EXCEPT !.queue = queue, !.pc = "send", !.todo = <<rid>>,
                                      !.seen = rid]
                    ELSE [conn EXCEPT !.queue = queue, !.pc = "catch", !.rid = rid]
  BY DEF Take, Serves, Rest, table, rows, Top, Served, StreamTypes, ViewOK, Known
<1>2. Top \in Nat /\ conn.queue \in Seq(Nat) /\ conn.seen \in Nat \cup {None} /\ Even
  BY <1>1, TableFacts DEF Served, StreamTypes, PlaceOK
<1>3. /\ rid \in Nat \ {0} /\ rid <= Top /\ queue \in Seq(Nat)
      /\ \A k \in 1..Len(queue) : 1 <= queue[k] /\ queue[k] <= Top
  <2>1. /\ rid = conn.queue[1] /\ rid \in Nat /\ queue \in Seq(Nat)
        /\ Len(queue) = Len(conn.queue) - 1 /\ Len(conn.queue) \in Nat \ {0}
        /\ \A k \in 1..Len(queue) : queue[k] = conn.queue[k + 1]
    BY <1>1, <1>2, HeadTailProperties, EmptySeq
  <2> HIDE DEF rid, queue
  <2>2. \A k \in 1..Len(conn.queue) : 1 <= conn.queue[k] /\ conn.queue[k] <= Top
    BY DEF Served, QueueOK
  <2>3. ASSUME NEW k \in 1..Len(queue)  PROVE 1 <= queue[k] /\ queue[k] <= Top
    <3>1. k + 1 \in 1..Len(conn.queue) /\ queue[k] = conn.queue[k + 1]
      BY <2>1
    <3> QED BY <2>2, <3>1
  <2>4. 1 <= rid /\ rid <= Top
    BY <2>1, <2>2
  <2> QED BY <2>1, <2>3, <2>4
<1> HIDE DEF rid, queue
<1>4. CASE conn.seen # None /\ rid <= conn.seen
  <2>1. conn' = [conn EXCEPT !.queue = queue]
    BY <1>1, <1>4
  <2>2. StreamTypes' /\ QueueOK' /\ ViewOK'
    BY <1>1, <1>3, <2>1 DEF Served, StreamTypes, QueueOK
  <2>3. PlaceOK'
    BY <1>1, <1>2, <2>1 DEF Served, StreamTypes, PlaceOK, Even, Excused
  <2> QED BY <2>2, <2>3 DEF Served
<1>5. CASE conn.seen = None \/ rid = conn.seen + 1
  <2>0. ~(conn.seen # None /\ rid <= conn.seen)
    BY <1>2, <1>3, <1>5 DEF None
  <2>1. conn' = [conn EXCEPT !.pc = "send", !.queue = queue, !.todo = <<rid>>, !.seen = rid]
    <3>1. conn' = [conn EXCEPT !.queue = queue, !.pc = "send", !.todo = <<rid>>, !.seen = rid]
      BY <1>1, <1>5, <2>0
    <3> QED BY <3>1 DEF Served, StreamTypes
  <2>2. TodoOK(<<rid>>, rid)
    <3>1. view.last = None \/ Excused \/ rid = view.last + 1
      BY <1>2, <1>5 DEF Even
    <3> QED BY <1>3, <3>1 DEF TodoOK, Chained
  <2>3. <<rid>> \in Seq(Nat) /\ <<rid>> # <<>>
    BY <1>3
  <2>4. \A k \in 1..Len(<<rid>>) : \A id \in Nat : id = <<rid>>[k] => Known(id)'
    BY <1>1, <1>2, <1>3 DEF Known
  <2> QED BY <1>1, <1>3, <2>1, <2>2, <2>3, <2>4, SendsNext
<1>6. CASE conn.seen # None /\ rid > conn.seen + 1
  <2>1. conn' = [conn EXCEPT !.queue = queue, !.pc = "catch", !.rid = rid]
    BY <1>1, <1>2, <1>3, <1>6
  <2>2. StreamTypes' /\ QueueOK' /\ ViewOK'
    BY <1>1, <1>3, <2>1 DEF Served, StreamTypes, QueueOK
  <2>3. PlaceOK'
    BY <1>1, <1>2, <1>3, <1>6, <2>1 DEF Served, StreamTypes, PlaceOK, Even, Excused
  <2> QED BY <2>2, <2>3 DEF Served
<1> QED BY <1>2, <1>3, <1>4, <1>5, <1>6

\* The rows between the server's place and the row at hand are sent, or a gap is announced.
LEMMA CatchUpServes ==
  ASSUME KeepLast > 1, TableOK, SweepOK, Contiguous, Served, CatchUp
  PROVE  Served'
<1> DEFINE found == After(conn.seen, MaxCatchup + 1)
           hole == found # <<>> /\ found[1] > conn.seen + 1
           top == IF found = <<>> THEN conn.seen ELSE Last(found)
           late == IF conn.rid > top THEN <<conn.rid>> ELSE <<>>
           front == (IF hole THEN <<Gap>> ELSE <<>>) \o found
<1>1. /\ conn.pc = "catch" /\ view' = view /\ Top' = Top /\ Reads
      /\ UNCHANGED <<kind, open, dirty>>
      /\ conn' = IF Len(found) > MaxCatchup
          THEN [conn EXCEPT !.pc = "send", !.todo = <<Gap>>, !.seen = top]
          ELSE [conn EXCEPT !.pc = "send", !.todo = front \o late,
                  !.seen = IF late # <<>> THEN conn.rid ELSE top]
  BY DEF CatchUp, Serves, ReadRest, rows, Top
<1> HIDE DEF found, hole, top, late, front
<1>2. /\ Top \in Nat /\ conn.seen \in Nat /\ conn.rid \in Nat /\ conn.queue \in Seq(Nat)
      /\ Len(kind) \in Nat /\ Top <= Len(kind) /\ Owed \in Nat \ {0}
      /\ conn.rid > conn.seen + 1 /\ conn.rid <= Top /\ (view.last = conn.seen \/ Excused)
      /\ MaxCatchup + 1 \in Nat \ {0} /\ MaxCatchup \in Nat
  <2>1. /\ Top \in Nat /\ Len(kind) \in Nat /\ Top <= Len(kind) /\ Owed \in Nat \ {0}
        /\ MaxCatchup \in Nat
    BY TableFacts, BoundAssumption
  <2>2. /\ conn.seen \in Nat /\ conn.rid \in Nat /\ conn.queue \in Seq(Nat)
        /\ conn.rid > conn.seen + 1 /\ conn.rid <= Top /\ Even /\ conn.seen # None
    BY <1>1 DEF Served, StreamTypes, PlaceOK
  <2>3. view.last = conn.seen \/ Excused
    BY <2>2 DEF Even
  <2> QED BY <2>1, <2>2, <2>3
<1>3. PICK a \in Nat, n \in 0..(MaxCatchup + 1) :
        /\ Run(found, a, n) /\ conn.seen < a
        /\ n # 0 => a + n - 1 <= Len(kind)
        /\ \A i \in kept : i > conn.seen => a <= i /\ (n < MaxCatchup + 1 => i <= a + n - 1)
  BY <1>2, AfterIsRun DEF found
<1>4. found \in Seq(Nat) /\ Len(found) = n /\ (n # 0 <=> found # <<>>)
      /\ (n # 0 => found[1] = a /\ found[n] = a + n - 1)
  BY <1>3, EmptySeq DEF Run
<1>5. (n # 0 => top = a + n - 1) /\ (n = 0 => top = conn.seen) /\ top \in Nat
  BY <1>2, <1>3, <1>4 DEF top, Last
<1>6. \A k \in 1..Len(conn.queue) : 1 <= conn.queue[k] /\ conn.queue[k] <= Top
  BY DEF Served, QueueOK
<1>9. ViewOK'
  BY <1>1 DEF Served, ViewOK, Known, Reads
<1>10. \A i \in Nat : i <= Len(kind) => Known(i)'
  BY <1>1, ReadIsKnown
<1>7. CASE n > MaxCatchup
  <2>1. conn' = [conn EXCEPT !.pc = "send", !.queue = conn.queue, !.todo = <<Gap>>, !.seen = top]
    BY <1>1, <1>4, <1>7 DEF Served, StreamTypes
  <2>2. TodoOK(<<Gap>>, top) /\ <<Gap>> \in Seq(Nat) /\ <<Gap>> # <<>>
    BY <1>2 DEF TodoOK, Chained, Gap
  <2>3. \A k \in 1..Len(<<Gap>>) : \A id \in Nat : id = <<Gap>>[k] => Known(id)'
    BY <1>2, <1>10 DEF Gap
  <2> QED BY <1>1, <1>2, <1>5, <1>6, <1>9, <2>1, <2>2, <2>3, SendsNext
<1>8. CASE n <= MaxCatchup
  <2>1. n # 0 /\ conn.rid <= top
    <3>1. Top \in 1..Len(kind) /\ Top > Top - Owed
      BY <1>2
    <3>2. Top \in kept
      BY <3>1 DEF SweepOK, NewestAreKept
    <3>3. Top > conn.seen /\ a <= Top /\ Top <= a + n - 1
      BY <1>2, <1>3, <1>8, <3>2
    <3>4. n # 0
      BY <1>2, <1>3, <3>3
    <3> QED BY <1>2, <1>5, <3>3, <3>4
  <2>2. late = <<>>
    BY <1>2, <1>5, <2>1 DEF late
  <2> DEFINE h == IF hole THEN 1 ELSE 0
  <2>3. hole \in BOOLEAN /\ (hole \/ a = conn.seen + 1)
    BY <1>2, <1>3, <1>4, <2>1 DEF hole
  <2>4. Laid(front, h, a, n) /\ a \in Nat \ {0} /\ n \in Nat
    BY <1>2, <1>3, <2>3, FramesAreLaid DEF front
  <2>5. h \in 0..1 /\ (h = 1 \/ a = conn.seen + 1)
    BY <2>3
  <2> HIDE DEF h
  <2>6. h = 1 \/ Excused \/ a = view.last + 1
    BY <1>2, <2>5
  <2>7. /\ TodoOK(front, top) /\ (front = <<>> => n = 0)
        /\ \A k \in 1..Len(front) :
             front[k] \in Nat /\ (front[k] = 0 \/ (n # 0 /\ front[k] <= a + n - 1))
    <3>1. h = 1 \/ n = 0 \/ Excused \/ a = view.last + 1
      BY <2>6
    <3>2. n = 0 \/ top = a + n - 1
      BY <1>5
    <3>3. /\ TodoOK(front, top) /\ (front = <<>> => n = 0 /\ h = 0)
          /\ \A k \in 1..Len(front) :
               front[k] \in Nat /\ (front[k] = 0 \/ (n # 0 /\ front[k] <= a + n - 1))
      BY <2>4, <2>5, <3>1, <3>2, LaidIsOK
    <3> QED BY <3>3
  <2>10. \A k \in 1..Len(front) : \A id \in Nat : id = front[k] => Known(id)'
    <3>1. \A k \in 1..Len(front) : front[k] \in Nat /\ front[k] <= Len(kind)
      BY <1>2, <1>3, <2>7
    <3> QED BY <1>10, <3>1
  <2>8. front \in Seq(Nat) /\ front \o late = front
    BY <2>2, <2>4, ConcatEmptySeq DEF Laid
  <2>9. conn' = [conn EXCEPT !.pc = "send", !.queue = conn.queue, !.todo = front, !.seen = top]
    <3>1. ~(Len(found) > MaxCatchup)
      BY <1>2, <1>4, <1>8
    <3>2. conn' = [conn EXCEPT !.pc = "send", !.todo = front, !.seen = top]
      BY <1>1, <2>2, <2>8, <3>1
    <3> QED BY <3>2 DEF Served, StreamTypes
  <2> QED BY <1>1, <1>2, <1>5, <1>6, <1>9, <2>1, <2>7, <2>8, <2>9, <2>10, SendsNext
<1> QED BY <1>2, <1>3, <1>7, <1>8

---------------------------------------------------------------------------
(* The theorem.                                                            *)

StreamInv ==
  /\ TableOK /\ SweepOK /\ Contiguous /\ (writing # "none" => Len(kind) # 0)
  /\ Served

LEMMA StreamBegins == Init => StreamInv
<1> SUFFICES ASSUME Init PROVE StreamInv
  OBVIOUS
<1>1. TableOK /\ SweepOK
  BY Begun DEF FeedInv
<1>2. PICK n \in 0..InitRows :
        /\ kind = [i \in 1..n |-> "edge"] /\ kept = 1..n
        /\ view \in [last : IF reader = "target" THEN {None}
                             ELSE {None} \cup 0..(IF n = 0 THEN 0 ELSE n + 1), warned : {FALSE}]
  BY DEF Init
<1>3. n \in Nat /\ kind \in Seq({"edge"}) /\ Len(kind) = n /\ Top = n
  <2>1. n \in Nat
    BY <1>2, BoundAssumption
  <2> QED BY <1>2, <2>1 DEF Init, Top
<1>4. Contiguous
  BY <1>2, <1>3 DEF Contiguous
<1>5. view \in [last : Nat \cup {None}, warned : BOOLEAN] /\ (view.last > 0 => n # 0)
  <2>1. PICK last \in {None} \cup 0..(IF n = 0 THEN 0 ELSE n + 1) :
          view = [last |-> last, warned |-> FALSE]
    <3>1. /\ view.last \in IF reader = "target" THEN {None}
                             ELSE {None} \cup 0..(IF n = 0 THEN 0 ELSE n + 1)
          /\ view = [last |-> view.last, warned |-> FALSE]
      BY <1>2
    <3> QED BY <3>1
  <2>2. last \in Nat \cup {None} /\ (last > 0 => n # 0)
    BY <1>3, <2>1 DEF None
  <2> QED BY <2>1, <2>2
<1>6. /\ conn = [pc |-> "off", seen |-> None, queue |-> <<>>, todo |-> <<>>,
                 bounds |-> <<0, 0>>, rid |-> 0]
      /\ writing = "none"
  BY DEF Init, Closed
<1>7. StreamTypes
  <2>1. <<>> \in Seq(Nat) /\ <<0, 0>> \in Nat \X Nat
    OBVIOUS
  <2> QED BY <1>5, <1>6, <2>1 DEF StreamTypes
<1>8. QueueOK /\ ViewOK /\ PlaceOK
  BY <1>3, <1>5, <1>6 DEF QueueOK, ViewOK, PlaceOK
<1> QED BY <1>1, <1>4, <1>6, <1>7, <1>8 DEF StreamInv, Served

LEMMA StreamStays == KeepLast > 1 /\ StreamInv /\ [Next]_vars => StreamInv'
<1> SUFFICES ASSUME KeepLast > 1, StreamInv, [Next]_vars PROVE StreamInv'
  OBVIOUS
<1>1. CASE Next
  <2>1. TableOK' /\ SweepOK' /\ Contiguous'
    BY <1>1, SweepKeeps, StaysContiguous DEF StreamInv
  <2>2. Top <= Top' /\ (writing' # "none" => Len(kind') # 0)
    BY <1>1, <2>1, TopGrows DEF StreamInv
  <2>3. Top \in Nat /\ Top' \in Nat
    <3>1. Len(kind) \in Nat /\ Len(kind') \in Nat
      BY <2>1, LenProperties DEF StreamInv, TableOK
    <3> QED BY <2>1, <3>1 DEF StreamInv, TableOK, Top
  <2>4. Served'
    <3>1. CASE view' = view /\ conn' \in {conn, Closed}
      <4>1. \A id \in Nat : Known(id) => Known(id)'
        BY <1>1, KnownStays DEF StreamInv
      <4>2. dirty \subseteq dirty'
        BY <1>1 DEF Next, Record, Insert, InsertFails, WindowEnds, Commit, Publish, Abandon,
           RollsBack, Crash, Undo, SweepBegins, SweepChunk, Drain, Begins, Seed, ReadBatch,
           Accepted, Refused, GiveUp, Advance, DrainRaises, Connect, Disconnect, Stream,
           ReadBounds, Replay, Send, Take, CatchUp, Rest, ReadRest, table, rows
      <4> QED BY <2>2, <2>3, <3>1, <4>1, <4>2, ServedRests DEF StreamInv
    <3>2. CASE Publish
      BY <3>2, PublishServes DEF StreamInv
    <3>3. CASE Connect
      BY <2>3, <3>3, ConnectServes DEF StreamInv
    <3>4. CASE ReadBounds
      BY <3>4, ReadBoundsServes DEF StreamInv
    <3>5. CASE Replay
      BY <3>5, ReplayServes DEF StreamInv
    <3>6. CASE Send
      BY <3>6, SendServes DEF StreamInv
    <3>7. CASE Take
      BY <3>7, TakeServes DEF StreamInv
    <3>8. CASE CatchUp
      BY <3>8, CatchUpServes DEF StreamInv
    <3> QED
      BY <1>1, <3>1, <3>2, <3>3, <3>4, <3>5, <3>6, <3>7, <3>8 DEF Next, Record, Insert,
         InsertFails, WindowEnds, Commit, Abandon, RollsBack, Crash, SweepBegins, SweepChunk,
         Drain, Begins, Seed, ReadBatch, Accepted, Refused, GiveUp, Advance, DrainRaises,
         Disconnect, Serves, Stream, stream
  <2> QED BY <2>1, <2>2, <2>4 DEF StreamInv
<1>2. CASE UNCHANGED vars
  <2>1. /\ UNCHANGED <<kind, kept, open, writing, peeked, dirty, sweep, conn, view>>
        /\ Top' = Top /\ \A id \in Nat : Known(id) => Known(id)'
    BY <1>2 DEF vars, table, rows, hook, stream, Top, Known
  <2>2. TableOK' /\ SweepOK' /\ Contiguous' /\ TableOK /\ Top \in Nat
    BY <2>1, TableFacts DEF StreamInv, TableOK, SweepOK, NewestAreKept, Owed, Contiguous, Top
  <2>3. Served'
    BY <2>1, <2>2, ServedRests DEF StreamInv
  <2> QED BY <2>1, <2>2, <2>3 DEF StreamInv
<1> QED BY <1>1, <1>2

\* _event_frames: a client gets the row after its own, or is told of the hole before it.  With
\* KeepLast = 1 a watermark that counted an undone row takes the last row from under a stream.
THEOREM StreamsAreExact ==
  ASSUME KeepLast > 1
  PROVE  Spec => []StreamIsExact
<1>1. StreamInv => StreamIsExact
  <2> SUFFICES ASSUME StreamInv, conn.pc = "send", conn.todo # <<>>, Head(conn.todo) # Gap,
                      view.last \notin dirty \cup {None}
               PROVE  Head(conn.todo) = view.last + 1 \/ view.warned
    BY DEF StreamIsExact
  <2>1. Chained(conn.todo, view.last, Excused) /\ conn.todo \in Seq(Nat)
    BY DEF StreamInv, Served, StreamTypes, PlaceOK, TodoOK
  <2>2. 1 \in 1..Len(conn.todo) /\ Head(conn.todo) = conn.todo[1]
    BY <2>1, HeadTailProperties, LenProperties, EmptySeq
  <2>3. view.last = None \/ Excused \/ conn.todo[1] = view.last + 1
    BY <2>1, <2>2 DEF Chained
  <2> QED BY <2>2, <2>3 DEF Excused
<1>2. StreamInv /\ [Next]_vars => StreamInv'
  BY StreamStays
<1> QED BY <1>1, <1>2, StreamBegins, PTL DEF Spec
=============================================================================
