------------------------------- MODULE Cache -------------------------------
(***************************************************************************)
(* The shared cache of the memory store and the three kinds of caller that *)
(* rely on it to decide a race:                                            *)
(*                                                                         *)
(*   "attempts"  VerifyOTP and Login: IncrementCache hands out a slot, the *)
(*               secret is compared only if the slot is within the budget, *)
(*               success clears the counter;                               *)
(*   "admin"     VerifyAdminSecret: GetCache, compare, and IncrementCache  *)
(*               only after a wrong secret;                                *)
(*   "claim"     the single use of a TOTP passcode, a SAML assertion ID or *)
(*               a client assertion: SetCacheNX, behind a GetCache for the *)
(*               client assertion.                                         *)
(*                                                                         *)
(* Keys do not interact, so one key is modelled; which back end serves it, *)
(* which caller uses it and whether the handlers share a process are chosen*)
(* once, in Init.  "in_memory" is memory_store/in_memory (a sync.Map, one  *)
(* process), "db" is memory_store/db over the SQL storage provider (a row  *)
(* with a primary key derived from the cache key, any number of            *)
(* processes).  Every access to the map or the table is a step of its own. *)
(***************************************************************************)
EXTENDS Integers, FiniteSets

CONSTANTS
    Handlers,     \* request handlers
    MaxAttempts,  \* totpMaxFailedAttempts, loginMaxFailedAttempts, ...
    TtlSeconds,   \* the lifetime of an entry
    MaxTime,      \* bound: the clock stops here
    MaxCalls,     \* bound: calls made in a behaviour
    None

ASSUME CacheAssumption ==
    /\ {MaxAttempts, TtlSeconds, MaxTime, MaxCalls} \subseteq Nat \ {0}
    /\ IsFiniteSet(Handlers) /\ None \notin Handlers
    /\ None \notin [value : Nat, exp : Nat, id : Nat]

VARIABLES
    backend,   \* "in_memory" or "db"
    use,       \* the kind of caller
    oneProcess,\* the handlers share a process, or each has its own
    now,       \* time.Now().Unix()
    entry,     \* the entry or row of the key, or None
    mutex,     \* incrementMutex of the shared process
    pc, local, \* where each handler is, and what it holds
    calls,     \* calls made so far, also the source of entry identities
    admitted,  \* ghost: comparisons let through in the current window
    held,      \* ghost: when the latest winning claim lapses
    clash,     \* ghost: a claim was won while another was still held
    recycled,  \* ghost: an entry of this key has expired before
    evicted,   \* ghost: GetCache deleted an entry it had not read
    faulted    \* ghost: a database statement has failed

config == <<backend, use, oneProcess>>
ghosts == <<admitted, held, clash, recycled, evicted, faulted>>
vars == <<config, now, entry, mutex, pc, local, calls, ghosts>>

Entry == [value : 1..MaxCalls, exp : 0..(MaxTime + TtlSeconds), id : 0..MaxCalls]

Labels == {"idle", "load", "swap", "get", "judge", "drop", "insert", "compare"}

(* A handler's variables: the operation under way, the `now` it took, the  *)
(* entry it read, the count it will write and the identity of that entry.  *)
Local == [op : {"none", "increment", "claim", "read"}, now : 0..MaxTime,
          old : Entry \cup {None}, next : 0..MaxCalls, id : 0..MaxCalls]

Idle == [op |-> "none", now |-> 0, old |-> None, next |-> 0, id |-> 0]

(* Every variable has its type; only a handler inside the database's       *)
(* IncrementCache holds the mutex of its process.                          *)
TypeOK ==
    /\ backend \in {"in_memory", "db"} /\ use \in {"attempts", "admin", "claim"}
    /\ oneProcess \in BOOLEAN
    /\ now \in 0..MaxTime
    /\ entry \in Entry \cup {None}
    /\ mutex \in Handlers \cup {None}
    /\ pc \in [Handlers -> Labels] /\ local \in [Handlers -> Local]
    /\ calls \in 0..MaxCalls
    /\ admitted \in 0..MaxCalls /\ held \in -1..(MaxTime + TtlSeconds)
    /\ {clash, recycled, evicted, faulted} \subseteq BOOLEAN
    /\ mutex # None => oneProcess /\ local[mutex].op = "increment"

(* The in-memory store lives in one process.                               *)
Init ==
    /\ backend \in {"in_memory", "db"} /\ use \in {"attempts", "admin", "claim"}
    /\ oneProcess \in (IF backend = "in_memory" THEN {TRUE} ELSE BOOLEAN)
    /\ now = 0 /\ entry = None /\ mutex = None
    /\ pc = [h \in Handlers |-> "idle"] /\ local = [h \in Handlers |-> Idle]
    /\ calls = 0 /\ admitted = 0 /\ held = -1
    /\ clash = FALSE /\ recycled = FALSE /\ evicted = FALSE /\ faulted = FALSE

-----------------------------------------------------------------------------
(* When an entry that lapses at `exp` still counts at time t.  The map     *)
(* keeps it through its last second, the table does not.                   *)
Live(exp, t) == IF backend = "in_memory" THEN exp >= t ELSE exp > t

LiveEntry(e, t) == e # None /\ Live(e.exp, t)

At(h, label) == pc[h] = label

Goto(h, label, l) ==
    /\ pc' = [pc EXCEPT ![h] = label]
    /\ local' = [local EXCEPT ![h] = l]

Finish(h) == Goto(h, "idle", Idle)

Compare(h) == Goto(h, "compare", [Idle EXCEPT !.id = local[h].id])

(* The first step of an operation: `now` is taken before the store is      *)
(* read.                                                                   *)
Begin(h, op, id) ==
    Goto(h, IF op = "read" THEN "get" ELSE "load",
         [op |-> op, now |-> IF op = "read" THEN 0 ELSE now,
          old |-> None, next |-> 0, id |-> id])

(* The identity of an entry is the pointer the sync.Map compares; a row    *)
(* has the same primary key whoever writes it.                             *)
NewEntry(l) == [value |-> l.next, exp |-> l.now + TtlSeconds,
                id |-> IF backend = "in_memory" THEN l.id ELSE 0]

(* A write of the counter lets one more comparison through when it is      *)
(* within the budget; one that lapsed before it was written starts none.   *)
Admit(l) ==
    admitted' = IF use = "admin" \/ ~Live(NewEntry(l).exp, now) THEN 0
                ELSE admitted + (IF l.next <= MaxAttempts THEN 1 ELSE 0)

Win(l) ==
    /\ clash' = (clash \/ (held >= 0 /\ Live(held, now)))
    /\ held' = NewEntry(l).exp

(* What the caller does with an entry it has written: the slot of a        *)
(* counter is checked against the budget, a claim is won.                  *)
Wrote(h) ==
    LET l == local[h]
    IN  /\ recycled' = (recycled \/ ~Live(NewEntry(l).exp, now))
        /\ IF l.op = "claim" THEN Win(l) /\ Finish(h) /\ UNCHANGED admitted
           ELSE /\ Admit(l)
                /\ IF use = "attempts" /\ l.next <= MaxAttempts
                   THEN Compare(h) ELSE Finish(h)
                /\ UNCHANGED <<clash, held>>

-----------------------------------------------------------------------------
(* A request arrives.                                                      *)
Arrive(h) ==
    /\ At(h, "idle") /\ calls < MaxCalls
    /\ calls' = calls + 1
    /\ \/ use = "attempts" /\ Begin(h, "increment", calls + 1)
       \/ use = "admin" /\ Begin(h, "read", calls + 1)
       \/ use = "claim" /\ Begin(h, "claim", calls + 1)
       \/ use = "claim" /\ Begin(h, "read", calls + 1)
    /\ UNCHANGED <<config, now, entry, mutex, ghosts>>

(* in_memory IncrementCache and SetCacheNX: Load.  A live entry refuses a  *)
(* claim; otherwise the next entry is prepared.                            *)
Load(h) ==
    /\ backend = "in_memory" /\ At(h, "load")
    /\ LET l == local[h]
           live == LiveEntry(entry, l.now)
       IN  IF l.op = "claim" /\ live THEN Finish(h)
           ELSE Goto(h, "swap", [l EXCEPT !.old = entry,
                   !.next = 1 + IF l.op = "increment" /\ live THEN entry.value ELSE 0])
    /\ UNCHANGED <<config, now, entry, mutex, calls, ghosts>>

(* Mutation of Swap: Store in place of LoadOrStore and CompareAndSwap.     *)
SwapBlindly(h) ==
    /\ backend = "in_memory" /\ At(h, "swap")
    /\ entry' = NewEntry(local[h]) /\ Wrote(h)
    /\ UNCHANGED <<config, now, mutex, calls, evicted, faulted>>

(* Mutation of Swap: a lost CompareAndSwap is retried without reading the  *)
(* entry again.                                                            *)
SwapWithoutReload(h) ==
    /\ backend = "in_memory" /\ At(h, "swap")
    /\ \/ /\ entry = local[h].old
          /\ entry' = NewEntry(local[h]) /\ Wrote(h)
       \/ /\ entry # local[h].old /\ UNCHANGED <<entry, pc, local, admitted, held, clash, recycled>>
    /\ UNCHANGED <<config, now, mutex, calls, evicted, faulted>>

(* LoadOrStore when nothing was loaded, CompareAndSwap otherwise: both     *)
(* succeed when the slot still holds what was loaded.  The loser starts    *)
(* the loop again with a new `now`.                                        *)
Swap(h) ==
    /\ backend = "in_memory" /\ At(h, "swap")
    /\ \/ /\ entry = local[h].old
          /\ entry' = NewEntry(local[h]) /\ Wrote(h)
       \/ /\ entry # local[h].old
          /\ Begin(h, local[h].op, local[h].id)
          /\ UNCHANGED <<entry, admitted, held, clash, recycled>>
    /\ UNCHANGED <<config, now, mutex, calls, evicted, faulted>>

(* GetCache reads the entry.  A failed read of the row is a miss.          *)
Get(h) ==
    /\ At(h, "get")
    /\ \/ Goto(h, "judge", [local[h] EXCEPT !.old = entry]) /\ UNCHANGED faulted
       \/ /\ backend = "db" /\ faulted' = TRUE
          /\ Goto(h, "judge", [local[h] EXCEPT !.old = None])
    /\ UNCHANGED <<config, now, entry, mutex, calls, admitted, held, clash, recycled, evicted>>

(* Mutation of Spent: the counter is not consulted before the comparison.  *)
SpentUnread(value) == FALSE

(* VerifyAdminSecret's test of the counter.                                *)
Spent(value) == value >= MaxAttempts

(* What GetCache returns to its caller: the budget check of                *)
(* VerifyAdminSecret, the short-circuit of a client assertion (whose       *)
(* TokenReview may still refuse it), the old count of the table's          *)
(* IncrementCache.                                                         *)
Returns(h, value) ==
    LET l == local[h]
    IN  CASE l.op = "increment" ->
                 Goto(h, "drop", [op |-> l.op, now |-> now, old |-> None,
                                  next |-> value + 1, id |-> l.id])
          [] l.op = "read" /\ use = "admin" ->
                 IF Spent(value) THEN Finish(h) ELSE Compare(h)
          [] OTHER -> \/ Finish(h)
                      \/ value = 0 /\ Begin(h, "claim", l.id)

(* GetCache judges what it read by the time it is now.  The in-memory      *)
(* store deletes the key of an expired entry, whatever the key holds now.  *)
Judge(h) ==
    /\ At(h, "judge")
    /\ LET old == local[h].old
           stale == backend = "in_memory" /\ old # None /\ ~Live(old.exp, now)
       IN  /\ Returns(h, IF LiveEntry(old, now) THEN old.value ELSE 0)
           /\ entry' = IF stale THEN None ELSE entry
           /\ evicted' = (evicted \/ (stale /\ LiveEntry(entry, now)))
    /\ UNCHANGED <<config, now, mutex, calls, admitted, held, clash, recycled, faulted>>

-----------------------------------------------------------------------------
(* Mutation of Lock: IncrementCache does not serialize its process.        *)
LockNothing(h) ==
    /\ backend = "db" /\ At(h, "load") /\ local[h].op = "increment"
    /\ Goto(h, "get", [local[h] EXCEPT !.now = 0])
    /\ UNCHANGED <<config, now, entry, mutex, calls, ghosts>>

(* db IncrementCache takes the mutex of its process, then calls GetCache.  *)
Lock(h) ==
    /\ backend = "db" /\ At(h, "load") /\ local[h].op = "increment"
    /\ mutex = None
    /\ mutex' = IF oneProcess THEN h ELSE None
    /\ Goto(h, "get", [local[h] EXCEPT !.now = 0])
    /\ UNCHANGED <<config, now, entry, calls, ghosts>>

(* db SetCacheNX reads the row: a live one refuses the claim, an expired   *)
(* one is to be deleted.  A failed read counts as no row.                  *)
ReadRow(h) ==
    /\ backend = "db" /\ At(h, "load") /\ local[h].op = "claim"
    /\ \E row \in {entry, None} :
           /\ faulted' = (faulted \/ row # entry)
           /\ IF LiveEntry(row, local[h].now) THEN Finish(h)
              ELSE Goto(h, IF row = None THEN "insert" ELSE "drop",
                        [local[h] EXCEPT !.next = 1])
    /\ UNCHANGED <<config, now, entry, mutex, calls, admitted, held, clash, recycled, evicted>>

(* The DELETE by key of SetCache and SetCacheNX; a failure is logged.      *)
Drop(h) ==
    /\ backend = "db" /\ At(h, "drop")
    /\ \/ entry' = None /\ UNCHANGED faulted
       \/ entry' = entry /\ faulted' = TRUE
    /\ Goto(h, "insert", local[h])
    /\ UNCHANGED <<config, now, mutex, calls, admitted, held, clash, recycled, evicted>>

Unlock(h) ==
    mutex' = IF mutex = h THEN None ELSE mutex

(* Mutation of Insert: the row's ID is random, so no insert is refused.    *)
InsertAnyway(h) ==
    /\ backend = "db" /\ At(h, "insert")
    /\ entry' = NewEntry(local[h]) /\ Wrote(h)
    /\ Unlock(h)
    /\ UNCHANGED <<config, now, calls, evicted, faulted>>

(* The INSERT.  The primary key refuses it when the row exists; a refused  *)
(* or failed insert loses a claim, and is an error to IncrementCache,      *)
(* which the callers treat as within the budget.                           *)
Insert(h) ==
    /\ backend = "db" /\ At(h, "insert")
    /\ \/ /\ entry = None
          /\ entry' = NewEntry(local[h]) /\ Wrote(h)
          /\ UNCHANGED faulted
       \/ /\ UNCHANGED <<entry, admitted, held, clash, recycled>>
          /\ faulted' = (faulted \/ entry = None)
          /\ IF use = "attempts" THEN Compare(h) ELSE Finish(h)
    /\ Unlock(h)
    /\ UNCHANGED <<config, now, calls, evicted>>

-----------------------------------------------------------------------------
(* The comparison fails: a wrong admin secret is counted now, any other    *)
(* attempt was counted before.                                             *)
CompareFails(h) ==
    /\ At(h, "compare")
    /\ IF use = "admin" THEN Begin(h, "increment", local[h].id) ELSE Finish(h)
    /\ UNCHANGED <<config, now, entry, mutex, calls, ghosts>>

(* The comparison succeeds and DeleteCacheByPrefix clears the counter; a   *)
(* failure to do so is logged.                                             *)
CompareSucceeds(h) ==
    /\ At(h, "compare")
    /\ \/ entry' = None /\ admitted' = 0 /\ UNCHANGED faulted
       \/ backend = "db" /\ UNCHANGED <<entry, admitted>> /\ faulted' = TRUE
    /\ Finish(h)
    /\ UNCHANGED <<config, now, mutex, calls, held, clash, recycled, evicted>>

(* CleanExpiredSessionTokens.                                              *)
CleanExpired ==
    /\ backend = "db" /\ entry # None /\ entry.exp < now
    /\ entry' = None
    /\ UNCHANGED <<config, now, mutex, pc, local, calls, ghosts>>

(* A second passes.  The window of a counter ends with its entry.          *)
Tick ==
    /\ now < MaxTime /\ now' = now + 1
    /\ LET lapses == LiveEntry(entry, now) /\ ~Live(entry.exp, now + 1)
       IN  /\ recycled' = (recycled \/ lapses)
           /\ admitted' = IF lapses THEN 0 ELSE admitted
    /\ UNCHANGED <<config, entry, mutex, pc, local, calls, held, clash, evicted, faulted>>

Step(h) ==
    \/ Load(h) \/ Swap(h) \/ Get(h) \/ Judge(h)
    \/ Lock(h) \/ ReadRow(h) \/ Drop(h) \/ Insert(h)
    \/ CompareFails(h) \/ CompareSucceeds(h)

Next ==
    \/ \E h \in Handlers : Arrive(h) \/ Step(h)
    \/ CleanExpired \/ Tick

(* A handler that has begun runs on: it is a goroutine the scheduler keeps *)
(* running.  Nobody has to call, and the clock may stand still.            *)
Spec == Init /\ [][Next]_vars /\ \A h \in Handlers : WF_vars(Step(h))

-----------------------------------------------------------------------------
(* Within one window at most MaxAttempts comparisons are let through, no   *)
(* matter how many requests arrive at once ("at most totpMaxFailedAttempts *)
(* requests can ever reach validation", verify_otp.go), as long as no      *)
(* statement of the database fails and, on the database, one process       *)
(* serves the account (IncrementCache documents the undercount of two).    *)
BudgetHolds ==
    use = "attempts" /\ admitted > MaxAttempts =>
        \/ faulted
        \/ backend = "db" /\ ~oneProcess

(* VerifyAdminSecret reads the counter before it counts, so the budget can *)
(* be overshot, but on the in-memory store only by the requests in flight  *)
(* when it filled up.  (The table's SetCache deletes the row before it     *)
(* inserts the next one, and a reader in between finds no counter.)        *)
OvershootIsBounded ==
    use = "admin" /\ backend = "in_memory" /\ entry # None =>
        entry.value <= MaxAttempts - 1 + Cardinality(Handlers)

(* A key is won by one claimant while the winner's mark lasts: on either   *)
(* back end, with any number of replicas and any failing statements, until *)
(* a mark of that key has expired once; and on the in-memory store even    *)
(* after that, unless a GetCache deleted a mark it had not read.           *)
ClaimIsExclusive ==
    use = "claim" /\ clash => recycled /\ (backend = "db" \/ evicted)

(* The counter as the in-memory store shows it to the callers that spend a *)
(* budget of attempts.                                                     *)
Counter == IF entry = None THEN [value |-> 0, exp |-> 0]
           ELSE [value |-> entry.value, exp |-> entry.exp]

Comparing == {h \in Handlers : At(h, "compare")}

Limiter == INSTANCE AttemptLimiter WITH counter <- Counter, comparing <- Comparing

CountsInMemory == backend = "in_memory" /\ use = "attempts"

(* The loop of Load and CompareAndSwap in the in-memory IncrementCache     *)
(* behaves as one indivisible step: whatever is written was computed from  *)
(* the entry it replaces, and the caller is let through by that very       *)
(* count, however the loops of concurrent attempts, the clearing after a   *)
(* success and the clock interleave.                                       *)
AttemptsAreAtomic ==
    /\ CountsInMemory => Limiter!Init
    /\ [][CountsInMemory => [Limiter!Next]_(Limiter!limiter)]_vars

(* Every call returns: the compare-and-swap loops end once the others stop *)
(* winning, and no handler waits for the mutex for ever.                   *)
CallReturns ==
    \A h \in Handlers : ~At(h, "idle") ~> At(h, "idle")
=============================================================================
