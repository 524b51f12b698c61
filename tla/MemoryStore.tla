----------------------------- MODULE MemoryStore -----------------------------
(***************************************************************************)
(* The agents' memory (mcp_server/memory): one sqlite connection that the  *)
(* worker threads of the tools share, a lock round the write transactions, *)
(* and another process, the command line, on the same file.  Statements of *)
(* any thread act on the one connection, inside whatever transaction is    *)
(* open on it.                                                             *)
(***************************************************************************)
EXTENDS Naturals, Sequences, FiniteSets, Lists

CONSTANTS
    Minders,        (* calls of the memory tools                             *)
    Topics,         (* keys: numbers, for a key may read like an id          *)
    MaxWrites       (* bound: rows written                                   *)

NoHolder == "free"

ASSUME MemoryAssumption ==
    /\ Topics \subseteq Nat /\ IsFiniteSet(Topics) /\ MaxWrites \in Nat
    /\ NoHolder \notin Minders

VARIABLES
    rows,           (* the table as the connection sees it                   *)
    saved,          (* the table as committed                                *)
    writes,         (* rows written so far: the last id                      *)
    held,           (* _write_lock                                           *)
    txn,            (* whose transaction is open on the connection           *)
    dbBusy,         (* the other process is writing                          *)
    memo            (* what each call is doing                               *)

memoryVars == <<rows, saved, writes, held, txn, dbBusy, memo>>

NoRow    == [id |-> 0, at |-> 0]
IdleMemo == [op |-> "none", pc |-> "idle", topic |-> 0, id |-> 0, told |-> "none",
             stored |-> FALSE, undone |-> FALSE]
IdsOf(t) == {t[k].id : k \in Topics} \ {0}
Listed(t) == {k \in Topics : t[k] # NoRow}

MemoryInit ==
    /\ rows = [k \in Topics |-> NoRow] /\ saved = rows /\ writes = 0
    /\ held = NoHolder /\ txn = NoHolder /\ dbBusy = FALSE
    /\ memo = [c \in Minders |-> IdleMemo]

MemoAt(c, pc) == memo[c].pc = pc
Sets(c, changes) ==
    memo' = [memo EXCEPT ![c] =
               [f \in DOMAIN IdleMemo |-> IF f \in DOMAIN changes THEN changes[f] ELSE @[f]]]

-----------------------------------------------------------------------------
Remember(c, k) ==
    /\ MemoAt(c, "idle")
    /\ Sets(c, [op |-> "remember", pc |-> "lock", topic |-> k])
    /\ UNCHANGED <<rows, saved, writes, held, txn, dbBusy>>

(* The row is looked up by key, then by id, before the lock is taken.        *)
Found(k) ==
    IF rows[k] # NoRow THEN rows[k].id
    ELSE IF k \in IdsOf(rows) THEN k ELSE 0

Forget(c, k) ==
    /\ MemoAt(c, "idle")
    /\ IF Found(k) = 0
       THEN Sets(c, [op |-> "forget", pc |-> "told", topic |-> k, id |-> 0, told |-> "ok"])
       ELSE Sets(c, [op |-> "forget", pc |-> "lock", topic |-> k, id |-> Found(k)])
    /\ UNCHANGED <<rows, saved, writes, held, txn, dbBusy>>

TakesWriteLock(c) ==
    /\ MemoAt(c, "lock") /\ held = NoHolder
    /\ held' = c /\ Sets(c, [pc |-> "begin"])
    /\ UNCHANGED <<rows, saved, writes, txn, dbBusy>>

BeginImmediate(c) ==
    /\ MemoAt(c, "begin") /\ txn = NoHolder /\ ~dbBusy
    /\ txn' = c /\ Sets(c, [pc |-> "change"])
    /\ UNCHANGED <<rows, saved, writes, held, dbBusy>>

(* What fails inside the lock: remember rolls back before it lets go of the  *)
(* lock, forget after.                                                       *)
LockedFailsOpen(c) ==
    /\ held' = NoHolder /\ UNCHANGED <<rows, saved, writes, txn, dbBusy>>
    /\ Sets(c, IF memo[c].op = "forget" THEN [pc |-> "undo"] ELSE [pc |-> "told", told |-> "failed"])

LockedFails(c) ==
    /\ held' = NoHolder /\ UNCHANGED <<saved, writes, dbBusy>>
    /\ IF memo[c].op = "forget"
       THEN Sets(c, [pc |-> "undo"]) /\ UNCHANGED <<rows, txn>>
       ELSE /\ Sets(c, [pc |-> "told", told |-> "failed"])
            /\ txn' = NoHolder
            /\ rows' = IF txn = NoHolder THEN rows ELSE saved

BeginFails(c) == MemoAt(c, "begin") /\ (dbBusy \/ txn # NoHolder) /\ LockedFails(c)

(* The time of a write is read before the lock is taken: it may be before    *)
(* that of rows that are there already, and no other row has the same.       *)
TimesFor(k, t) == {now \in 1..MaxWrites : \A j \in Topics \ {k} : t[j].at # now}

(* The row after the write: an existing one keeps its id.                    *)
Upserted(c, now) ==
    [rows EXCEPT ![memo[c].topic] = [id |-> IF @ = NoRow THEN writes + 1 ELSE @.id, at |-> now]]
Deleted(c) == [k \in Topics |-> IF rows[k].id = memo[c].id THEN NoRow ELSE rows[k]]

(* Outside a transaction the statement commits by itself.                    *)
ChangesRow(c) ==
    /\ MemoAt(c, "change") /\ (txn = c \/ ~dbBusy)
    /\ IF memo[c].op = "remember"
       THEN /\ writes < MaxWrites /\ writes' = writes + 1
            /\ \E now \in TimesFor(memo[c].topic, rows) : rows' = Upserted(c, now)
       ELSE rows' = Deleted(c) /\ UNCHANGED writes
    /\ saved' = IF txn = c THEN saved ELSE rows'
    /\ Sets(c, [pc |-> "commit", stored |-> txn # c,
                id |-> IF memo[c].op = "remember" THEN rows'[memo[c].topic].id ELSE memo[c].id])
    /\ UNCHANGED <<held, txn, dbBusy>>

ChangeFails(c) == MemoAt(c, "change") /\ txn # c /\ dbBusy /\ LockedFails(c)

Commit(c) ==
    /\ MemoAt(c, "commit") /\ txn = c
    /\ saved' = rows /\ txn' = NoHolder
    /\ IF memo[c].op = "remember"
       THEN UNCHANGED held /\ Sets(c, [pc |-> "read", stored |-> TRUE])
       ELSE held' = NoHolder /\ Sets(c, [pc |-> "told", told |-> "ok", stored |-> TRUE])
    /\ UNCHANGED <<rows, writes, dbBusy>>

(* COMMIT is refused, by the disk or because no transaction is open.         *)
CommitFails(c) == MemoAt(c, "commit") /\ LockedFails(c)

(* remember answers with the row it reads again, and cannot when it is gone. *)
ReadsBack(c) ==
    /\ MemoAt(c, "read") /\ held' = NoHolder
    /\ Sets(c, [pc |-> "told", told |-> IF memo[c].id \in IdsOf(rows) THEN "ok" ELSE "failed"])
    /\ UNCHANGED <<rows, saved, writes, txn, dbBusy>>

(* conn.rollback() of a forget that failed: it undoes what is open, another  *)
(* call's transaction too.                                                   *)
RollsBack(c) ==
    /\ MemoAt(c, "undo")
    /\ rows' = saved /\ txn' = NoHolder
    /\ memo' = [d \in Minders |->
                  IF d = c THEN [memo[c] EXCEPT !.pc = "told", !.told = "failed"]
                  ELSE IF d = txn THEN [memo[d] EXCEPT !.undone = TRUE] ELSE memo[d]]
    /\ UNCHANGED <<saved, writes, held, dbBusy>>

MemoAnswered(c) ==
    /\ MemoAt(c, "told") /\ memo' = [memo EXCEPT ![c] = IdleMemo]
    /\ UNCHANGED <<rows, saved, writes, held, txn, dbBusy>>

-----------------------------------------------------------------------------
(* The other process writes in transactions of its own.                      *)
CliBegins ==
    /\ ~dbBusy /\ txn = NoHolder /\ dbBusy' = TRUE
    /\ UNCHANGED <<rows, saved, writes, held, txn, memo>>

CliCommits ==
    /\ dbBusy /\ dbBusy' = FALSE
    /\ \/ UNCHANGED <<rows, saved, writes>>
       \/ \E k \in Listed(saved) :
            rows' = [saved EXCEPT ![k] = NoRow] /\ saved' = rows' /\ UNCHANGED writes
       \/ \E k \in Topics \ Listed(saved) :
            /\ writes < MaxWrites /\ writes' = writes + 1
            /\ \E now \in TimesFor(k, saved) :
                 rows' = [saved EXCEPT ![k] = [id |-> writes + 1, at |-> now]]
            /\ saved' = rows'
    /\ UNCHANGED <<held, txn, memo>>

MemoryNext ==
    \/ \E c \in Minders :
         \/ \E k \in Topics : Remember(c, k) \/ Forget(c, k)
         \/ TakesWriteLock(c) \/ BeginImmediate(c) \/ BeginFails(c)
         \/ ChangesRow(c) \/ ChangeFails(c) \/ Commit(c) \/ CommitFails(c)
         \/ ReadsBack(c) \/ RollsBack(c) \/ MemoAnswered(c)
    \/ CliBegins \/ CliCommits

-----------------------------------------------------------------------------
(* recall: one statement finds the ids of the rows that match (hits), another *)
(* the newest rows, a page long enough to fill up with; what is there may     *)
(* change between the two.                                                    *)
NewestRows(S) ==
    CHOOSE s \in [1..Cardinality(S) -> S] :
        \A i, j \in 1..Cardinality(S) : i < j => rows[s[i]].at > rows[s[j]].at
NewestIds == LET s == NewestRows(Listed(rows)) IN [i \in DOMAIN s |-> rows[s[i]].id]
Firsts(s, n) == SubSeq(s, 1, IF n < Len(s) THEN n ELSE Len(s))
Recall(hits, limit) ==
    LET page == Firsts(NewestIds, limit + Len(hits))
        fill == Those(page, IdsOf(rows) \ {hits[i] : i \in DOMAIN hits})
    IN Firsts(hits \o fill, limit)

ToldOnce(s) == \A i, j \in DOMAIN s : s[i] = s[j] => i = j

MemoryTypeOK ==
    /\ saved \in [Topics -> {NoRow} \cup [id : 1..MaxWrites, at : 1..MaxWrites]]
    /\ held \in Minders \cup {NoHolder} /\ txn \in Minders \cup {NoHolder}
    /\ \A c \in Minders : memo[c].told \in {"none", "ok", "failed"}

(* What a call of the memory answers is so.  A remember that is answered     *)
(* stored is committed, and one that is answered failed is not, unless the   *)
(* rollback of a failed forget took its transaction away, or the other       *)
(* process the row.  A forget that is answered done removed the row it had   *)
(* found.  A transaction is open only for the holder of the lock, so no row  *)
(* stays uncommitted when nobody writes.  A recall fills its limit from the  *)
(* rows there are, whatever has become of those its first statement found,   *)
(* and tells no row twice.                                                   *)
MemoryHolds ==
    /\ \A c \in Minders : MemoAt(c, "told") =>
         /\ memo[c].told = "ok" /\ memo[c].op = "remember" => memo[c].stored
         /\ memo[c].told = "ok" /\ memo[c].id # 0 => memo[c].stored
         /\ memo[c].told = "failed" /\ memo[c].stored /\ ~memo[c].undone =>
              memo[c].op = "remember" /\ memo[c].id \notin IdsOf(saved)
    /\ txn # NoHolder => txn = held \/ memo[txn].pc = "undo"
    /\ txn = NoHolder => rows = saved
    /\ \A found \in 0..writes, limit \in 1..2 : \A hits \in [1..found -> 1..writes] :
         ToldOnce(hits) => LET answer == Recall(hits, limit) IN
           /\ ToldOnce(answer)
           /\ Len(answer) >= limit \/ Len(answer) >= Cardinality(Listed(rows))

=============================================================================
