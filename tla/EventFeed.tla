----------------------------- MODULE EventFeed -----------------------------
(***************************************************************************)
(* core/eventlog.py, core/events.py, core/notify.py, daemon/routes/events  *)
(* .py: the durable feed, its one writer, its retention sweep, the webhook *)
(* targets that drain it behind durable cursors, and the clients that read *)
(* it as a resumable stream over a bus that drops.  Rows are numbered; a   *)
(* number is never used again (AUTOINCREMENT).  Readers only read, so one  *)
(* of them, a target or a client, stands for any number.                   *)
(***************************************************************************)
EXTENDS Integers, Sequences, FiniteSets, FiniteSetsExt

CONSTANTS
  Filters,       \* what a target may be configured to want: sets of types, {} for all
  KeepLast, Chunk,                    \* retention, and the rows of one DELETE
  RetryMax, BatchMax,                 \* of [notifications]
  QueueMax, MaxReplay, MaxCatchup,
  MaxRows, InitRows, MaxFaults        \* bounds of the model

ASSUME BoundAssumption ==
  /\ {KeepLast, Chunk, RetryMax, BatchMax, QueueMax, MaxReplay, MaxCatchup}
       \subseteq Nat \ {0}
  /\ {MaxRows, InitRows, MaxFaults} \subseteq Nat /\ InitRows <= MaxRows

Types == {"edge", "flap"}
NeverCoalesced == {"edge"}
None == -1
Ids == 1..MaxRows
Gap == 0            \* a feed.gap frame among the rows of a stream

VARIABLES
  reader,    \* who reads: a webhook target or a client
  wants,     \* the types the target is configured for, {} for all
  kind,      \* the type of every row ever inserted
  kept,      \* the rows still in the table
  recent,    \* _recent: types written inside the window
  passed,    \* types that calls of record are about to write
  writing,   \* the type of the row that holds the write lock: inserted, not published yet
  open,      \* its transaction: TRUE between the INSERT and the commit
  sweep,     \* the sweep's watermark, None between sweeps
  cursor,    \* the target's row in notification_cursors
  drain,     \* the loop of the target
  conn,      \* the server's end of the stream
  view,      \* the client: its Last-Event-ID, and whether a gap was announced since
  settled,   \* (history) rows the target has had, was given up on, or was never owed
  shown,     \* (history) types with a row since their window was opened
  peeked,    \* (history) somebody has read while the transaction that is open was open
  dirty,     \* (history) numbers of rows that somebody may have read and that were undone then
  faults

rows == <<kind, kept, recent, passed, writing, open, shown, dirty>>
table == <<rows, peeked>>
hook == <<cursor, drain, settled>>
stream == <<conn, view>>
vars == <<reader, wants, table, sweep, hook, stream, faults>>

\* The last number that is committed.
Top == IF open THEN Len(kind) - 1 ELSE Len(kind)
\* Reads take no lock and share the connection: they see what is not committed and may be undone.
Reads == peeked' = (peeked \/ open)
\* The first rows after an id, and the same in order.
First(id, limit) ==
  {i \in kept : i > id /\ Cardinality({j \in kept : id < j /\ j < i}) < limit}
After(id, limit) ==
  LET found == First(id, limit)
  IN [k \in 1..Cardinality(found) |->
       CHOOSE i \in found : Cardinality({j \in found : j < i}) = k - 1]
Last(s) == s[Len(s)]

Resting == [pc |-> "sleep", local |-> None, batch |-> {}, attempt |-> 0, then |-> "sleep"]
Closed == [pc |-> "off", seen |-> None, queue |-> <<>>, todo |-> <<>>, bounds |-> <<0, 0>>,
           rid |-> 0]

DrainOK ==
  /\ cursor \in Nat \cup {None} /\ settled \subseteq Nat
  /\ drain \in [pc : {"sleep", "head", "read", "deliver", "audit", "set"},
                local : Nat \cup {None}, batch : SUBSET Nat, attempt : Nat,
                then : {"sleep", "read"}]

TypeOK ==
  /\ kind \in Seq(Types) /\ Len(kind) <= MaxRows /\ kept \subseteq 1..Len(kind)
  /\ recent \subseteq Types \ NeverCoalesced /\ shown \subseteq Types \ NeverCoalesced
  /\ passed \subseteq Types \ NeverCoalesced /\ writing \in Types \cup {"none"}
  /\ open \in BOOLEAN /\ (open => writing # "none")
  /\ peeked \in BOOLEAN /\ (peeked => open) /\ dirty \subseteq Ids
  /\ sweep \in Ids \cup {None}
  /\ reader \in {"target", "client"} /\ wants \subseteq Types
  /\ DrainOK
  /\ conn.pc \in {"off", "bounds", "rows", "send", "live", "catch"}
  /\ Len(conn.queue) <= QueueMax
  /\ view \in [last : Nat \cup {None}, warned : BOOLEAN]

Init ==
  /\ reader \in {"target", "client"}
  /\ wants \in IF reader = "target" THEN Filters ELSE {{}}
  /\ \E n \in 0..InitRows :
       /\ kind = [i \in 1..n |-> "edge"] /\ kept = 1..n
       \* a client may come back with a number of a database that was restored since, but not of
       \* one that is empty now: the code announces nothing there
       /\ view \in [last : IF reader = "target" THEN {None}
                             ELSE {None} \cup 0..(IF n = 0 THEN 0 ELSE n + 1), warned : {FALSE}]
  /\ recent = {} /\ shown = {} /\ peeked = FALSE /\ dirty = {}
  /\ passed = {} /\ writing = "none" /\ open = FALSE /\ sweep = None
  /\ cursor = None /\ drain = Resting /\ conn = Closed
  /\ settled = {} /\ faults = 0

---------------------------------------------------------------------------
(* EventRecorder.record.  Any number of calls overlap: `passed' holds the   *)
(* types that some call has found open and not written yet.  Of a type     *)
(* that is never held back a call may come to its insert at any time.      *)

\* A type that was written inside the window is not written again.
Suppressed(t) == t \in recent

\* (mutant) The window is opened before there is a row.
RecordReserves(t) ==
  /\ t \notin NeverCoalesced /\ ~Suppressed(t)
  /\ passed' = passed \cup {t} /\ recent' = recent \cup {t}
  /\ UNCHANGED <<reader, wants, kind, kept, writing, open, shown, peeked, dirty, sweep, hook,
                 stream, faults>>

Record(t) ==
  /\ t \notin NeverCoalesced /\ ~Suppressed(t)
  /\ passed' = passed \cup {t}
  /\ UNCHANGED <<reader, wants, kind, kept, recent, writing, open, shown, peeked, dirty, sweep,
                 hook, stream, faults>>

\* insert_event: the INSERT, under the write lock, whose holder goes on to publish.
Insert(t) ==
  /\ t \in NeverCoalesced \cup passed /\ writing = "none" /\ Len(kind) < MaxRows
  /\ \E more \in {{}, {t}} : passed' = (passed \ {t}) \cup (more \ NeverCoalesced)
  /\ kind' = Append(kind, t) /\ kept' = kept \cup {Len(kind) + 1}
  /\ writing' = t /\ open' = TRUE
  /\ shown' = shown \cup ({t} \ NeverCoalesced)
  /\ UNCHANGED <<reader, wants, recent, peeked, dirty, sweep, hook, stream, faults>>

Commit ==
  /\ open /\ open' = FALSE /\ peeked' = FALSE
  /\ UNCHANGED <<reader, wants, kind, kept, recent, passed, writing, shown, dirty, sweep, hook,
                 stream, faults>>

\* The insert fails; record swallows it, and the next one is not held back.
InsertFails(t) ==
  /\ t \in passed /\ faults < MaxFaults
  /\ passed' = passed \ {t} /\ faults' = faults + 1
  /\ UNCHANGED <<reader, wants, kind, kept, recent, writing, open, shown, peeked, dirty, sweep,
                 hook, stream>>

\* Subscription._push drops what does not fit.
Pushed(id) ==
  IF conn.pc = "off" \/ Len(conn.queue) = QueueMax THEN conn
    ELSE [conn EXCEPT !.queue = Append(@, id)]

\* The window is opened and the row published in one go with the insert's return.
Publish ==
  /\ writing # "none" /\ ~open
  /\ writing' = "none"
  /\ recent' = recent \cup ({writing} \ NeverCoalesced)
  /\ conn' = Pushed(Len(kind))
  /\ UNCHANGED <<reader, wants, kind, kept, passed, open, shown, peeked, dirty, view, sweep,
                 hook, faults>>

\* The caller is cancelled while the commit is under way: the row is there, never published.
Abandon ==
  /\ writing # "none" /\ ~open /\ faults < MaxFaults
  /\ writing' = "none" /\ faults' = faults + 1
  /\ UNCHANGED <<reader, wants, kind, kept, recent, passed, open, shown, peeked, dirty, sweep,
                 hook, stream>>

\* What is not committed is undone, and its number given out again.
Undo ==
  /\ kind' = SubSeq(kind, 1, Top) /\ kept' = kept \cap 1..Top /\ settled' = settled \cap 1..Top
  /\ writing' = "none" /\ open' = FALSE
  /\ peeked' = FALSE /\ dirty' = IF peeked THEN dirty \cup {Len(kind)} ELSE dirty

\* The commit fails, or the caller is cancelled before it.
RollsBack ==
  /\ open /\ faults < MaxFaults
  /\ Undo /\ faults' = faults + 1
  /\ shown' = shown \ ({writing} \ recent)
  /\ UNCHANGED <<reader, wants, recent, passed, sweep, cursor, drain, stream>>

\* Ended by time, or by newer types (_MAX_RECENT).
WindowEnds(t) ==
  /\ t \in recent
  /\ recent' = recent \ {t}
  /\ shown' = IF writing = t THEN shown ELSE shown \ {t}
  /\ UNCHANGED <<reader, wants, kind, kept, passed, writing, open, peeked, dirty, sweep, hook,
                 stream, faults>>

---------------------------------------------------------------------------
(* _sweep_event_feed: everything below a watermark that is read once.      *)

\* (mutant) One row too few is spared.
WatermarkTooHigh == {i \in kept : Cardinality({j \in kept : j > i}) = KeepLast - 1}

\* The row that has KeepLast newer ones.
Watermark == {i \in kept : Cardinality({j \in kept : j > i}) = KeepLast}

SweepBegins ==
  /\ sweep = None /\ Reads
  /\ sweep' \in Watermark
  /\ UNCHANGED <<reader, wants, rows, hook, stream, faults>>

\* One DELETE, in the order of the primary key; the sweep ends with an empty one.  Every
\* statement that writes waits for the lock.
SweepChunk ==
  /\ sweep # None /\ writing = "none"
  /\ LET below == {i \in kept : i <= sweep}
         chunk == {i \in below : Cardinality({j \in below : j < i}) < Chunk}
     IN /\ kept' = kept \ chunk
        /\ sweep' = IF below = {} THEN None ELSE sweep
  /\ UNCHANGED <<reader, wants, kind, recent, passed, writing, open, shown, peeked, dirty, hook,
                 stream, faults>>

---------------------------------------------------------------------------
(* WebhookDispatcher: one loop per target over its cursor.                 *)

Drains(rec) == drain' = rec
Wants(id) == wants = {} \/ kind[id] \in wants
Begins ==
  /\ reader = "target" /\ drain.pc = "sleep"
  /\ Drains([Resting EXCEPT !.pc = IF cursor = None THEN "head" ELSE "read",
                            !.local = cursor])
  /\ UNCHANGED <<reader, wants, table, sweep, cursor, settled, stream, faults>>

\* A target that is new is owed nothing that was there before: it starts at last_event_id.
Seed ==
  /\ drain.pc = "head" /\ Reads
  /\ \E head \in {0} \cup kept :
       /\ \A i \in kept : i <= head
       /\ Drains([drain EXCEPT !.pc = "set", !.local = head, !.then = "sleep"])
       /\ settled' = settled \cup 1..head
  /\ UNCHANGED <<reader, wants, rows, sweep, cursor, stream, faults>>

\* The drain goes on to the end of a batch: what is wanted of it is delivered.
Turned(batch) ==
  LET matched == {i \in batch : Wants(i)}
  IN \E end \in batch :
       /\ \A i \in batch : i <= end
       /\ Drains([drain EXCEPT !.pc = IF matched = {} THEN "set" ELSE "deliver",
                               !.local = end, !.batch = matched,
                               !.attempt = 1, !.then = "read"])

\* (mutant) The cursor is saved before the delivery.
ReadBatchSaves ==
  /\ drain.pc = "read" /\ Reads
  /\ LET batch == First(drain.local, BatchMax)
     IN IF batch = {} THEN Drains(Resting) /\ UNCHANGED cursor
          ELSE Turned(batch) /\ cursor' = drain'.local
  /\ UNCHANGED <<reader, wants, rows, sweep, settled, stream, faults>>

ReadBatch ==
  /\ drain.pc = "read" /\ Reads
  /\ LET batch == First(drain.local, BatchMax)
     IN IF batch = {} THEN Drains(Resting) ELSE Turned(batch)
  /\ UNCHANGED <<reader, wants, rows, sweep, cursor, settled, stream, faults>>

\* Answered 2xx.
Accepted ==
  /\ drain.pc = "deliver"
  /\ settled' = settled \cup drain.batch
  /\ Drains([drain EXCEPT !.pc = "set"])
  /\ UNCHANGED <<reader, wants, table, sweep, cursor, stream, faults>>

\* No 2xx: refused, out of reach, the answer lost, or no secret to sign with.
Refused ==
  /\ drain.pc = "deliver"
  /\ Drains(IF drain.attempt < RetryMax THEN [drain EXCEPT !.attempt = @ + 1]
              ELSE [drain EXCEPT !.pc = "audit"])
  /\ UNCHANGED <<reader, wants, table, sweep, cursor, settled, stream, faults>>

\* (mutant) The pass ends and the cursor stays.
GiveUpForNow ==
  /\ drain.pc = "audit"
  /\ settled' = settled \cup drain.batch
  /\ Drains(Resting)
  /\ UNCHANGED <<reader, wants, table, sweep, cursor, stream, faults>>

\* _audit_failure, best effort; then the cursor moves on and the pass ends.
GiveUp ==
  /\ drain.pc = "audit"
  /\ settled' = settled \cup drain.batch
  /\ Drains([drain EXCEPT !.pc = "set", !.then = "sleep"])
  /\ UNCHANGED <<reader, wants, table, sweep, cursor, stream, faults>>

Advance ==
  /\ drain.pc = "set" /\ writing = "none"
  /\ cursor' = drain.local
  /\ Drains(IF drain.then = "sleep" THEN Resting
              ELSE [Resting EXCEPT !.pc = "read", !.local = drain.local])
  /\ UNCHANGED <<reader, wants, table, sweep, settled, stream, faults>>

\* A statement raises, or the request fails in another way than httpx names; the pass is logged
\* and the loop sleeps.
DrainRaises ==
  /\ drain.pc \in {"head", "read", "deliver", "set"} /\ faults < MaxFaults
  /\ Drains(Resting) /\ faults' = faults + 1
  /\ UNCHANGED <<reader, wants, table, sweep, cursor, settled, stream>>

---------------------------------------------------------------------------
(* _event_frames: replay, then the live tail.                              *)

Serves(rec) == conn' = rec
Rest == <<reader, wants, table, sweep, hook, faults>>
ReadRest == <<reader, wants, rows, sweep, hook, faults>>

\* The subscription is open before anything is read.
Connect ==
  /\ reader = "client" /\ conn.pc = "off"
  /\ Serves([Closed EXCEPT !.pc = IF view.last = None THEN "live" ELSE "bounds",
                              !.seen = view.last])
  /\ UNCHANGED <<view, Rest>>

Disconnect ==
  /\ conn.pc # "off" /\ Serves(Closed)
  /\ UNCHANGED <<view, Rest>>

\* feed_bounds
ReadBounds ==
  /\ conn.pc = "bounds" /\ Reads
  /\ Serves([conn EXCEPT !.pc = "rows",
                  !.bounds = IF kept = {} THEN <<0, 0>> ELSE <<Min(kept), Max(kept)>>])
  /\ UNCHANGED <<view, ReadRest>>

\* (mutant) Exactness is judged by the bounds that were read before.
ReplayByBounds ==
  /\ conn.pc = "rows" /\ Reads
  /\ LET from == view.last
         low == conn.bounds[1]
         high == conn.bounds[2]
         found == After(from, MaxReplay + 1)
         inexact == (low > 0 /\ from < low - 1) \/ (high > 0 /\ from > high)
         sent == IF Len(found) > MaxReplay THEN SubSeq(found, 1, MaxReplay) ELSE found
     IN Serves([conn EXCEPT
          !.pc = "send",
          !.todo = (IF inexact \/ Len(found) > MaxReplay THEN <<Gap>> ELSE <<>>) \o sent,
          !.seen = IF sent # <<>> THEN Last(sent) ELSE IF from > high THEN high ELSE from])
  /\ UNCHANGED <<view, ReadRest>>

\* replay: the rows after the client's number, announced as inexact if they are.
Replay ==
  /\ conn.pc = "rows" /\ Reads
  /\ LET from == view.last
         low == conn.bounds[1]
         high == conn.bounds[2]
         found == After(from, MaxReplay + 1)
         pruned == IF found # <<>> THEN found[1] > from + 1 ELSE low > 0 /\ from < low - 1
         ahead == high > 0 /\ from > high
         sent == IF Len(found) > MaxReplay THEN SubSeq(found, 1, MaxReplay) ELSE found
     IN Serves([conn EXCEPT
          !.pc = "send",
          !.todo = (IF pruned \/ ahead \/ Len(found) > MaxReplay THEN <<Gap>> ELSE <<>>) \o sent,
          !.seen = IF sent # <<>> THEN Last(sent) ELSE IF from > high THEN high ELSE from])
  /\ UNCHANGED <<view, ReadRest>>

\* One frame to the client, whose Last-Event-ID is that of the last row.
Send ==
  /\ conn.pc = "send"
  /\ IF conn.todo = <<>> THEN Serves([conn EXCEPT !.pc = "live"]) /\ UNCHANGED view
     ELSE LET f == Head(conn.todo)
          IN /\ Serves([conn EXCEPT !.todo = Tail(@)])
             /\ view' = IF f = Gap THEN [view EXCEPT !.warned = TRUE]
                                ELSE [last |-> f, warned |-> FALSE]
  /\ UNCHANGED Rest

\* live_frames: what was replayed is dropped, the next row is sent, a hole is read up.
Take ==
  /\ conn.pc = "live" /\ conn.queue # <<>>
  /\ LET rid == Head(conn.queue)
         rec == [conn EXCEPT !.queue = Tail(@)]
     IN Serves(IF rec.seen # None /\ rid <= rec.seen THEN rec
                  ELSE IF rec.seen = None \/ rid = rec.seen + 1
                    THEN [rec EXCEPT !.pc = "send", !.todo = <<rid>>, !.seen = rid]
                    ELSE [rec EXCEPT !.pc = "catch", !.rid = rid])
  /\ UNCHANGED <<view, Rest>>

\* _catch_up_frames
CatchUp ==
  /\ conn.pc = "catch" /\ Reads
  /\ LET found == After(conn.seen, MaxCatchup + 1)
         hole == found # <<>> /\ found[1] > conn.seen + 1
         top == IF found = <<>> THEN conn.seen ELSE Last(found)
         late == IF conn.rid > top THEN <<conn.rid>> ELSE <<>>
     IN Serves(IF Len(found) > MaxCatchup
          THEN [conn EXCEPT !.pc = "send", !.todo = <<Gap>>, !.seen = top]
          ELSE [conn EXCEPT !.pc = "send",
                  !.todo = (IF hole THEN <<Gap>> ELSE <<>>) \o found \o late,
                  !.seen = IF late # <<>> THEN conn.rid ELSE top])
  /\ UNCHANGED <<view, ReadRest>>

---------------------------------------------------------------------------
\* The daemon dies: the loops, the streams and the memory of the recorder with it.
Crash ==
  /\ faults < MaxFaults /\ faults' = faults + 1
  /\ Undo /\ passed' = {} /\ recent' = {} /\ shown' = {} /\ sweep' = None
  /\ drain' = Resting /\ conn' = Closed
  /\ UNCHANGED <<reader, wants, cursor, view>>

Drain ==
  \/ Begins \/ Seed \/ ReadBatch \/ Accepted \/ Refused \/ GiveUp \/ Advance

Stream == ReadBounds \/ Replay \/ Send \/ Take \/ CatchUp

Next ==
  \/ \E t \in Types : Record(t) \/ Insert(t) \/ InsertFails(t) \/ WindowEnds(t)
  \/ Commit \/ Publish \/ Abandon \/ RollsBack
  \/ SweepBegins \/ SweepChunk
  \/ Drain \/ DrainRaises
  \/ Connect \/ Disconnect \/ Stream
  \/ Crash

Spec == Init /\ [][Next]_vars

\* The loop of the target runs, and who holds the write lock lets go of it; nothing is assumed
\* of receivers, clients, and of what is recorded or swept.
FairSpec == Spec /\ WF_vars(Drain) /\ WF_vars(Commit \/ Publish)

---------------------------------------------------------------------------
(* Properties.                                                             *)

\* The flap guard holds back only a type of which a row was written since its window began: a
\* write that failed, or was never begun, silences nothing.
SuppressedIsOnRecord == recent \subseteq shown

\* The sweep keeps the newest committed rows whatever is inserted, or rolled back, while it
\* deletes: the last number, where cursors are seeded and streams resumed, is always there.  A
\* watermark that counted a row which was undone then costs one row, and never more.
Owed == IF dirty = {} THEN KeepLast ELSE KeepLast - 1
NewestAreKept ==
  \A i \in 1..Len(kind) : i > Top - Owed => i \in kept

\* A client is sent the row that follows its own, never one it has had or a later one, unless a
\* feed.gap frame came before: whatever the queue dropped, the sweep took between two reads, or
\* a cancelled writer never published, across disconnects and crashes.  Nothing is said of a
\* client whose own row was undone: the next row of that number is not sent to it, or sent
\* unannounced.
StreamIsExact ==
  conn.pc = "send" /\ conn.todo # <<>> /\ Head(conn.todo) # Gap
    /\ view.last \notin dirty \cup {None} =>
      Head(conn.todo) = view.last + 1 \/ view.warned

\* A cursor is past a row of a wanted type only if the receiver answered for it, its retries
\* were exhausted, or it was there before the target: whatever fails or crashes between a
\* delivery and the statement that moves the cursor.  Rows that retention takes are not owed,
\* and neither is one whose number was read before, on a row that was undone.
CursorSkipsNothing ==
  cursor # None => \A i \in kept \ dirty : i <= cursor /\ Wants(i) => i \in settled

\* A target's cursor comes past every committed row, however dead its receiver is.
CursorComesPast ==
  \A i \in Ids : reader = "target" /\ Top >= i ~> cursor # None /\ cursor >= i
=============================================================================
