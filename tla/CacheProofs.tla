---------------------------- MODULE CacheProofs ----------------------------
(***************************************************************************)
(* Proofs about Cache: the attempt budget, the bound on an overshoot of it *)
(* and the exclusive claim hold for every number of handlers, calls,       *)
(* attempts and seconds; the in-memory backend implements AttemptLimiter;  *)
(* and the increment mutex is only held by a handler that runs.            *)
(***************************************************************************)
EXTENDS Cache, FiniteSetTheorems, TLAPS

EntryT == [value : Nat, exp : Nat, id : Nat]

LocalT == [op : {"none", "increment", "claim", "read"}, now : Nat,
           old : EntryT \cup {None}, next : Nat, id : Nat]

(* A handler's clock reading is not in the future.                         *)
Control ==
    /\ pc \in [Handlers -> Labels] /\ local \in [Handlers -> LocalT]
    /\ \A h \in Handlers : local[h].now <= now

(* Types without the bounds.                                               *)
Typed ==
    /\ backend \in {"in_memory", "db"} /\ use \in {"attempts", "admin", "claim"}
    /\ oneProcess \in BOOLEAN /\ (backend = "in_memory" => oneProcess)
    /\ now \in Nat /\ entry \in EntryT \cup {None}
    /\ mutex \in Handlers \cup {None}
    /\ calls \in Nat /\ admitted \in Nat /\ held \in Int
    /\ clash \in BOOLEAN /\ recycled \in BOOLEAN
    /\ evicted \in BOOLEAN /\ faulted \in BOOLEAN
    /\ Control

(* Until a mark has expired, the entry is live and is the one every        *)
(* handler read.                                                           *)
ClaimOf(h) ==
    /\ local[h].op # "increment" /\ pc[h] # "compare"
    /\ pc[h] \in {"load", "swap", "drop", "insert"} => local[h].op = "claim"
    /\ pc[h] = "drop" => recycled
    /\ pc[h] = "swap" => ~LiveEntry(local[h].old, local[h].now)
    /\ local[h].old # None /\ ~recycled => local[h].old = entry

(* Afterwards the mark of the latest winner is still in place on the       *)
(* in-memory store, unless it was evicted.                                 *)
MarkInv ==
    /\ entry # None /\ ~recycled => Live(entry.exp, now)
    /\ held >= 0 /\ ~recycled => entry # None /\ entry.exp = held
    /\ (backend = "in_memory" /\ ~evicted /\ held >= 0 /\ Live(held, now))
           => (entry # None /\ entry.exp = held)
    /\ evicted => recycled
    /\ clash => recycled /\ (backend = "db" \/ evicted)

ClaimInv ==
    use = "claim" => MarkInv /\ \A h \in Handlers : ClaimOf(h)

(* The counter is never below the comparisons let through, unless the      *)
(* table's row is being rewritten.                                         *)
CountInv ==
    /\ admitted <= MaxAttempts
    /\ \/ admitted = 0
       \/ entry # None /\ Live(entry.exp, now) /\ admitted <= entry.value
       \/ backend = "db" /\ \E h \in Handlers : pc[h] = "insert"

(* Then the holder of the mutex carries the count.                         *)
CarryOf(h) ==
    /\ pc[h] \notin {"idle", "compare"} => local[h].op = "increment"
    /\ pc[h] = "swap" => local[h].next =
           1 + IF LiveEntry(local[h].old, local[h].now) THEN local[h].old.value ELSE 0
    /\ pc[h] \in {"get", "judge", "drop", "insert"} => backend = "db" /\ mutex = h
    /\ pc[h] = "judge" => admitted = 0 \/ local[h].old = entry
    /\ pc[h] \in {"drop", "insert"} => admitted < local[h].next
    /\ pc[h] = "insert" => entry = None

BudgetInv ==
    use = "attempts" /\ oneProcess /\ ~faulted =>
        CountInv /\ \A h \in Handlers : CarryOf(h)

(* The handlers that may still write the counter of the admin secret: they *)
(* are past the budget check, or will pass it with what they read.         *)
MayCount(h) ==
    \/ pc[h] \in {"compare", "load", "swap"}
    \/ pc[h] = "judge" /\ (local[h].old = None \/ local[h].old.value < MaxAttempts)

Counting == {h \in Handlers : MayCount(h)}

(* The count a handler is about to write is at most one more than the one  *)
(* it replaces.                                                            *)
AddsOne(h) ==
    pc[h] = "swap" =>
        local[h].next <= 1 + IF local[h].old = None THEN 0 ELSE local[h].old.value

(* A spent counter and those that may still raise it are, together, within *)
(* the bound: nobody joins them until the counter is removed.              *)
RoomLeft ==
    entry # None =>
        \/ entry.value < MaxAttempts
        \/ entry.value + Cardinality(Counting) <= MaxAttempts - 1 + Cardinality(Handlers)

OvershootInv ==
    use = "admin" /\ backend = "in_memory" =>
        RoomLeft /\ \A h \in Handlers : AddsOne(h)

IInv == Typed /\ ClaimInv /\ BudgetInv /\ OvershootInv

(* A handler that moves to a typed place leaves everything typed.          *)
LEMMA GotoControl ==
    ASSUME NEW h \in Handlers, NEW label \in Labels, NEW l \in LocalT,
           l.now <= now, Control, Goto(h, label, l), now' = now
    PROVE  Control'
  BY DEF Control, Goto

(* A handler at rest is typed.                                             *)
LEMMA IdleTyped == Idle \in LocalT /\ Idle.now = 0
  BY DEF Idle, LocalT

(* A handler that is done leaves everything typed.                         *)
LEMMA FinishControl ==
    ASSUME NEW h \in Handlers, Typed, Finish(h), now' = now
    PROVE  Control'
<1>1. "idle" \in Labels /\ now \in Nat /\ Control
  BY DEF Labels, Typed
<1> QED
  BY <1>1, IdleTyped, GotoControl DEF Finish

(* So does one that goes on to compare,                                    *)
LEMMA CompareControl ==
    ASSUME NEW h \in Handlers, Typed, Compare(h), now' = now
    PROVE  Control'
<1> DEFINE l == [Idle EXCEPT !.id = local[h].id]
<1>1. "compare" \in Labels /\ now \in Nat /\ Control
  BY DEF Labels, Typed
<1>2. local[h].id \in Nat
  BY <1>1 DEF Control, LocalT
<1>3. l \in LocalT /\ l.now = 0
  BY <1>2 DEF Idle, LocalT
<1>4. Goto(h, "compare", l)
  BY DEF Compare
<1> HIDE DEF l
<1> QED
  BY <1>1, <1>3, <1>4, GotoControl

(* and one that begins an operation.                                       *)
LEMMA BeginControl ==
    ASSUME NEW h \in Handlers, NEW op \in {"none", "increment", "claim", "read"},
           NEW id \in Nat, Typed, Begin(h, op, id), now' = now
    PROVE  Control'
<1> DEFINE t == IF op = "read" THEN 0 ELSE now
           l == [op |-> op, now |-> t, old |-> None, next |-> 0, id |-> id]
           label == IF op = "read" THEN "get" ELSE "load"
<1>1. label \in Labels /\ now \in Nat /\ Control
  BY DEF Labels, Typed
<1>2. l \in LocalT /\ l.now <= now
  <2>1. t \in Nat /\ t <= now
    BY <1>1
  <2> HIDE DEF t
  <2> QED
    BY <2>1 DEF LocalT
<1>3. Goto(h, label, l)
  BY DEF Begin
<1> HIDE DEF l, label
<1> QED
  BY <1>1, <1>2, <1>3, GotoControl

(* What a handler writes is typed.                                         *)
LEMMA NewEntryTyped ==
    ASSUME NEW l \in LocalT
    PROVE  /\ NewEntry(l) \in EntryT
           /\ NewEntry(l) # None
           /\ NewEntry(l).exp = l.now + TtlSeconds
           /\ NewEntry(l).value = l.next
<1>1. l.now \in Nat /\ l.next \in Nat /\ l.id \in Nat /\ TtlSeconds \in Nat
  BY CacheAssumption DEF LocalT
<1>2. l.now + TtlSeconds \in Nat
  BY <1>1
<1>3. NewEntry(l) \in EntryT
  BY <1>1, <1>2 DEF NewEntry, EntryT
<1>4. NewEntry(l) # None
  BY <1>3, CacheAssumption DEF EntryT
<1> QED
  BY <1>3, <1>4 DEF NewEntry

(* A handler that has written an entry leaves everything typed.            *)
LEMMA WroteTyped ==
    ASSUME NEW h \in Handlers, Typed, Wrote(h), now' = now, backend' = backend
    PROVE  /\ Control'
           /\ admitted' \in Nat /\ held' \in Int
           /\ clash' \in BOOLEAN /\ recycled' \in BOOLEAN
<1>1. local[h] \in LocalT /\ admitted \in Nat /\ held \in Int
  BY DEF Typed, Control
<1>2. NewEntry(local[h]).exp \in Nat /\ local[h].next \in Nat
  BY <1>1, NewEntryTyped DEF EntryT, LocalT
<1>3. Finish(h) \/ Compare(h)
  BY DEF Wrote
<1>4. Control'
  BY <1>3, FinishControl, CompareControl
<1>5. clash' \in BOOLEAN /\ recycled' \in BOOLEAN
  BY Zenon DEF Wrote, Win, Typed
<1>6. admitted' \in Nat /\ held' \in Int
  BY <1>1, <1>2 DEF Wrote, Win, Admit
<1> QED
  BY <1>4, <1>5, <1>6

(* The types are kept.                                                     *)
LEMMA TypedNext == Typed /\ [Next]_vars => Typed'
<1> SUFFICES ASSUME Typed, [Next]_vars PROVE Typed'
  OBVIOUS
<1> USE DEF config, ghosts
<1>0. now \in Nat /\ Control /\ \A h \in Handlers : local[h] \in LocalT
  BY DEF Typed, Control
<1>1. ASSUME NEW h \in Handlers, Arrive(h) PROVE Typed'
  <2>1. calls + 1 \in Nat
    BY DEF Typed
  <2>2. Control'
    BY <1>1, <2>1, BeginControl DEF Arrive
  <2> QED
    BY <1>1, <2>1, <2>2 DEF Arrive, Typed
<1>2. ASSUME NEW h \in Handlers, Load(h) PROVE Typed'
  <2> DEFINE l == local[h]
             live == LiveEntry(entry, l.now)
             next == 1 + IF l.op = "increment" /\ live THEN entry.value ELSE 0
             m == [l EXCEPT !.old = entry, !.next = next]
  <2>1. Finish(h) \/ Goto(h, "swap", m)
    BY <1>2 DEF Load
  <2>2. l \in LocalT /\ l.now <= now /\ entry \in EntryT \cup {None}
    BY <1>0 DEF Control, Typed
  <2>3. next \in Nat
    BY <2>2 DEF LiveEntry, EntryT
  <2>4. m \in LocalT /\ m.now = l.now
    <3> HIDE DEF next
    <3> QED
      BY <2>2, <2>3, Zenon DEF LocalT
  <2>5. Control'
    <3>1. "swap" \in Labels /\ now' = now
      BY <1>2 DEF Labels, Load
    <3> HIDE DEF m
    <3> QED
      BY <1>0, <2>1, <2>2, <2>4, <3>1, FinishControl, GotoControl
  <2> QED
    BY <1>2, <2>5 DEF Load, Typed
<1>3. ASSUME NEW h \in Handlers, Swap(h) PROVE Typed'
  <2>1. local[h].op \in {"none", "increment", "claim", "read"} /\ local[h].id \in Nat
    BY <1>0 DEF LocalT
  <2>2. CASE Wrote(h) /\ entry' = NewEntry(local[h])
    <3>1. entry' \in EntryT
      BY <1>0, <2>2, NewEntryTyped
    <3> QED
      BY <1>3, <2>2, <3>1, WroteTyped DEF Swap, Typed
  <2>3. CASE Begin(h, local[h].op, local[h].id) /\ UNCHANGED <<entry, admitted, held, clash, recycled>>
    <3>1. Control'
      BY <1>3, <2>1, <2>3, BeginControl DEF Swap
    <3> QED
      BY <1>3, <2>3, <3>1 DEF Swap, Typed
  <2> QED
    BY <1>3, <2>2, <2>3 DEF Swap
<1>4. ASSUME NEW h \in Handlers, Get(h) PROVE Typed'
  <2>1. PICK e \in {entry, None} : Goto(h, "judge", [local[h] EXCEPT !.old = e])
    BY <1>4 DEF Get
  <2> DEFINE m == [local[h] EXCEPT !.old = e]
  <2>2. m \in LocalT /\ m.now <= now
    BY <1>0 DEF LocalT, Control, Typed
  <2>3. "judge" \in Labels /\ now' = now
    BY <1>4 DEF Labels, Get
  <2>4. Control'
    <3> HIDE DEF m
    <3> QED
      BY <1>0, <2>1, <2>2, <2>3, GotoControl, Zenon DEF m
  <2> QED
    BY <1>4, <2>4, Zenon DEF Get, Typed
<1>5. ASSUME NEW h \in Handlers, Judge(h) PROVE Typed'
  <2> DEFINE old == local[h].old
             value == IF LiveEntry(old, now) THEN old.value ELSE 0
             n == value + 1
             m == [op |-> local[h].op, now |-> now, old |-> None, next |-> n,
                   id |-> local[h].id]
  <2>1. local[h] \in LocalT /\ old \in EntryT \cup {None} /\ local[h].id \in Nat
    BY <1>0 DEF LocalT
  <2>2. value \in Nat
    BY <2>1 DEF LiveEntry, EntryT
  <2>3. m \in LocalT /\ m.now = now
    <3>1. n \in Nat
      BY <2>2
    <3> HIDE DEF value, n
    <3>2. local[h].op \in {"none", "increment", "claim", "read"}
      BY <2>1 DEF LocalT
    <3> QED
      BY <1>0, <2>1, <3>1, <3>2 DEF LocalT
  <2>4. \/ Goto(h, "drop", m) \/ Finish(h) \/ Compare(h)
        \/ Begin(h, "claim", local[h].id)
    BY <1>5 DEF Judge, Returns
  <2>5. "drop" \in Labels /\ now' = now
    BY <1>5 DEF Labels, Judge
  <2>6. Control'
    <3> HIDE DEF m
    <3> QED
      BY <1>0, <2>1, <2>3, <2>4, <2>5, GotoControl, FinishControl, CompareControl, BeginControl
  <2>7. entry' \in EntryT \cup {None} /\ evicted' \in BOOLEAN
    BY <1>5 DEF Judge, Typed
  <2> QED
    BY <1>5, <2>6, <2>7 DEF Judge, Typed
<1>6. ASSUME NEW h \in Handlers, Lock(h) PROVE Typed'
  <2> DEFINE m == [local[h] EXCEPT !.now = 0]
  <2>1. m \in LocalT /\ m.now = 0
    BY <1>0 DEF LocalT
  <2>2. Goto(h, "get", m) /\ "get" \in Labels /\ now' = now
    BY <1>6 DEF Lock, Labels
  <2>3. Control'
    <3> HIDE DEF m
    <3> QED
      BY <1>0, <2>1, <2>2, GotoControl
  <2> QED
    BY <1>6, <2>3 DEF Lock, Typed
<1>7. ASSUME NEW h \in Handlers, ReadRow(h) PROVE Typed'
  <2> DEFINE m == [local[h] EXCEPT !.next = 1]
  <2>1. m \in LocalT /\ m.now <= now
    BY <1>0 DEF LocalT, Control
  <2>2. Finish(h) \/ Goto(h, "insert", m) \/ Goto(h, "drop", m)
    BY <1>7 DEF ReadRow
  <2>3. {"insert", "drop"} \subseteq Labels /\ now' = now
    BY <1>7 DEF ReadRow, Labels
  <2>4. Control'
    <3> HIDE DEF m
    <3> QED
      BY <1>0, <2>1, <2>2, <2>3, FinishControl, GotoControl
  <2>5. faulted' \in BOOLEAN
    BY <1>7 DEF ReadRow, Typed
  <2> QED
    BY <1>7, <2>4, <2>5 DEF ReadRow, Typed
<1>8. ASSUME NEW h \in Handlers, Drop(h) PROVE Typed'
  <2>1. Goto(h, "insert", local[h]) /\ "insert" \in Labels /\ now' = now
    BY <1>8 DEF Drop, Labels
  <2>2. Control'
    BY <1>0, <2>1, GotoControl DEF Control
  <2> QED
    BY <1>8, <2>2, Zenon DEF Drop, Typed
<1>9. ASSUME NEW h \in Handlers, Insert(h) PROVE Typed'
  <2>1. mutex' \in Handlers \cup {None} /\ now' = now /\ backend' = backend
    BY <1>9 DEF Insert, Unlock, Typed
  <2>2. CASE entry' = NewEntry(local[h]) /\ Wrote(h) /\ UNCHANGED faulted
    <3>1. entry' \in EntryT
      BY <1>0, <2>2, NewEntryTyped
    <3> QED
      BY <1>9, <2>1, <2>2, <3>1, WroteTyped DEF Insert, Typed
  <2>3. CASE /\ UNCHANGED <<entry, admitted, held, clash, recycled>>
             /\ faulted' = (faulted \/ entry = None)
             /\ Compare(h) \/ Finish(h)
    <3>1. Control'
      BY <2>1, <2>3, CompareControl, FinishControl
    <3> QED
      BY <1>9, <2>1, <2>3, <3>1 DEF Insert, Typed
  <2> QED
    BY <1>9, <2>2, <2>3 DEF Insert
<1>10. ASSUME NEW h \in Handlers, CompareFails(h) PROVE Typed'
  <2>1. local[h].id \in Nat
    BY <1>0 DEF LocalT
  <2>2. Control'
    BY <1>10, <2>1, BeginControl, FinishControl DEF CompareFails
  <2> QED
    BY <1>10, <2>2 DEF CompareFails, Typed
<1>11. ASSUME NEW h \in Handlers, CompareSucceeds(h) PROVE Typed'
  <2>1. Control'
    BY <1>11, FinishControl DEF CompareSucceeds
  <2>2. admitted' \in Nat /\ entry' \in EntryT \cup {None}
    BY <1>11 DEF CompareSucceeds, Typed
  <2>3. faulted' \in BOOLEAN
    BY <1>11, Zenon DEF CompareSucceeds, Typed
  <2> QED
    BY <1>11, <2>1, <2>2, <2>3 DEF CompareSucceeds, Typed
<1>12. CASE CleanExpired
  BY <1>12 DEF CleanExpired, Typed, Control
<1>13. CASE Tick
  <2>1. Control'
    BY <1>0, <1>13 DEF Tick, Control, LocalT
  <2> QED
    BY <1>13, <2>1 DEF Tick, Typed
<1>14. CASE UNCHANGED vars
  BY <1>14 DEF vars, Typed, Control
<1> QED
  BY <1>1, <1>2, <1>3, <1>4, <1>5, <1>6, <1>7, <1>8, <1>9, <1>10, <1>11,
     <1>12, <1>13, <1>14 DEF Next, Step

(* What a move of one handler does.                                        *)
LEMMA GotoElse ==
    ASSUME NEW h \in Handlers, NEW label, NEW l, Control, Goto(h, label, l)
    PROVE  /\ pc'[h] = label /\ local'[h] = l
           /\ \A g \in Handlers \ {h} : pc'[g] = pc[g] /\ local'[g] = local[g]
  BY DEF Control, Goto

(* An entry that is live at some time was live before.                     *)
LEMMA LiveBefore ==
    ASSUME NEW exp \in Int, NEW s \in Nat, NEW t \in Nat, s <= t, Live(exp, t)
    PROVE  Live(exp, s)
  BY DEF Live

(* What the end of a call does.                                            *)
LEMMA FinishOf ==
    ASSUME NEW h \in Handlers, Control, Finish(h)
    PROVE  /\ pc'[h] = "idle" /\ local'[h].op = "none" /\ local'[h].old = None
           /\ \A g \in Handlers \ {h} : pc'[g] = pc[g] /\ local'[g] = local[g]
  BY GotoElse DEF Finish, Idle

(* The marks are kept while the store and the clock stand still.           *)
LEMMA MarkKept ==
    ASSUME MarkInv, UNCHANGED <<backend, entry, held, clash, recycled, evicted, now>>
    PROVE  MarkInv'
  BY DEF MarkInv, Live

(* So is what a handler knows, while it does not move.                     *)
LEMMA ClaimKept ==
    ASSUME NEW g \in Handlers, ClaimOf(g), pc'[g] = pc[g], local'[g] = local[g],
           UNCHANGED <<backend, entry, recycled>>
    PROVE  ClaimOf(g)'
  BY DEF ClaimOf, LiveEntry, Live

(* An entry is written where none was live: the new one is live, or has    *)
(* lapsed already.                                                         *)
LEMMA WinMark ==
    ASSUME NEW h \in Handlers, Typed, use = "claim", MarkInv, ClaimOf(h),
           local[h].op = "claim", entry' = NewEntry(local[h]), Wrote(h),
           UNCHANGED <<backend, evicted, now>>,
           \/ backend = "db" /\ entry = None
           \/ backend = "in_memory" /\ ~LiveEntry(entry, now)
    PROVE  MarkInv'
<1> DEFINE exp == local[h].now + TtlSeconds
<1>1. entry' # None /\ entry'.exp = exp /\ exp \in Nat
  BY NewEntryTyped, CacheAssumption DEF Typed, Control, LocalT
<1>2. /\ recycled' = (recycled \/ ~Live(exp, now))
      /\ clash' = (clash \/ (held >= 0 /\ Live(held, now)))
      /\ held' = exp
  BY NewEntryTyped DEF Wrote, Win, Typed, Control
<1>3. entry' # None /\ ~recycled' => Live(entry'.exp, now)
  BY <1>1, <1>2, Zenon
<1>4. held >= 0 /\ Live(held, now) => recycled /\ (backend = "db" \/ evicted)
  BY DEF MarkInv, LiveEntry
<1>5. clash' => recycled' /\ (backend' = "db" \/ evicted')
  BY <1>2, <1>4, Zenon DEF MarkInv
<1> QED
  BY <1>1, <1>2, <1>3, <1>5, Zenon DEF MarkInv, Live

(* What a write does to the other handlers' views.                         *)
LEMMA WinOthers ==
    ASSUME NEW h \in Handlers, NEW g \in Handlers, Typed, use = "claim", MarkInv,
           ClaimOf(g), ClaimOf(h), local[h].op = "claim", Wrote(h),
           UNCHANGED backend, entry = None \/ recycled
    PROVE  ClaimOf(g)'
<1>1. Finish(h) /\ (recycled => recycled')
  BY Zenon DEF Wrote
<1>2. CASE g = h
  BY <1>1, <1>2, FinishOf, Zenon DEF ClaimOf, Typed
<1>3. CASE g # h
  BY <1>1, <1>3, FinishOf DEF ClaimOf, Typed, LiveEntry, Live
<1> QED
  BY <1>2, <1>3

(* Every step keeps the marks and what each handler knows of them.         *)
LEMMA ClaimNext == Typed /\ ClaimInv /\ [Next]_vars => ClaimInv'
<1> DEFINE Kept == MarkInv /\ \A g \in Handlers : ClaimOf(g)
<1> SUFFICES ASSUME Typed, use = "claim", Kept, [Next]_vars
             PROVE  Kept'
  BY ZenonT(40) DEF ClaimInv, Next, vars, config, Step, Arrive, Load, Swap, Get,
         Judge, Lock, ReadRow, Drop, Insert, CompareFails, CompareSucceeds, CleanExpired, Tick
<1> USE DEF config, ghosts
<1>0. /\ now \in Nat /\ Control /\ held \in Int /\ entry \in EntryT \cup {None}
      /\ \A h \in Handlers : local[h] \in LocalT /\ local[h].now <= now
  BY DEF Typed, Control
<1>1. ASSUME NEW h \in Handlers, Arrive(h) PROVE Kept'
  BY <1>0, <1>1, GotoElse, SMTT(30) DEF Arrive, Begin, MarkInv, ClaimOf, Live, LiveEntry
<1>2. ASSUME NEW h \in Handlers, Load(h) PROVE Kept'
  <2> DEFINE l == local[h]
             m == [l EXCEPT !.old = entry, !.next = 1 + 0]
  <2>1. MarkInv'
    BY <1>2, MarkKept DEF Load
  <2>2. l.op = "claim" /\ l \in LocalT
    BY <1>0, <1>2 DEF Load, At, ClaimOf
  <2>3. Finish(h) \/ (Goto(h, "swap", m) /\ ~LiveEntry(entry, l.now))
    BY <1>2, <2>2 DEF Load
  <2>4. m.op = "claim" /\ m.old = entry /\ m.now = l.now
    BY <2>2 DEF LocalT
  <2>5. ClaimOf(h)'
    <3> HIDE DEF m
    <3>1. UNCHANGED <<backend, entry>>
      BY <1>2 DEF Load
    <3> QED
      BY <1>0, <2>3, <2>4, <3>1, GotoElse, FinishOf DEF ClaimOf, LiveEntry, Live
  <2>6. ASSUME NEW g \in Handlers, g # h PROVE ClaimOf(g)'
    <3>1. pc'[g] = pc[g] /\ local'[g] = local[g]
      BY <1>0, <2>3, <2>6, GotoElse, FinishOf
    <3> QED
      BY <1>2, <3>1, ClaimKept DEF Load
  <2> QED
    BY <2>1, <2>5, <2>6
<1>3. ASSUME NEW h \in Handlers, Swap(h) PROVE Kept'
  <2> DEFINE l == local[h]
  <2>1. l.op = "claim" /\ ~LiveEntry(l.old, l.now)
    BY <1>3 DEF Swap, At, ClaimOf
  <2>2. CASE entry = l.old /\ entry' = NewEntry(l) /\ Wrote(h)
    <3>1. ~LiveEntry(entry, now)
      BY <1>0, <2>1, <2>2, LiveBefore DEF LiveEntry, EntryT, LocalT
    <3>2. entry = None \/ recycled
      BY <3>1 DEF MarkInv, LiveEntry
    <3>3. MarkInv'
      BY <1>3, <2>1, <2>2, <3>1, WinMark DEF Swap
    <3>4. ASSUME NEW g \in Handlers PROVE ClaimOf(g)'
      BY <1>3, <2>1, <2>2, <3>2, <3>4, WinOthers DEF Swap
    <3> QED
      BY <3>3, <3>4
  <2>3. CASE Begin(h, l.op, l.id) /\ UNCHANGED <<entry, admitted, held, clash, recycled>>
    <3>1. MarkInv'
      BY <1>3, <2>3, MarkKept, Zenon DEF Swap
    <3>2. ClaimOf(h)'
      BY <1>0, <2>1, <2>3, GotoElse, SMTT(30) DEF Begin, ClaimOf, LiveEntry
    <3>3. ASSUME NEW g \in Handlers, g # h PROVE ClaimOf(g)'
      <4>1. pc'[g] = pc[g] /\ local'[g] = local[g]
        BY <1>0, <2>3, <3>3, GotoElse DEF Begin
      <4>2. UNCHANGED <<backend, entry, recycled>>
        BY <1>3, <2>3 DEF Swap
      <4> QED
        BY <4>1, <4>2, ClaimKept, Zenon
    <3> QED
      BY <3>1, <3>2, <3>3
  <2> QED
    BY <1>3, <2>2, <2>3 DEF Swap
<1>4. ASSUME NEW h \in Handlers, Get(h) PROVE Kept'
  <2>1. MarkInv'
    BY <1>4, MarkKept DEF Get
  <2>2. PICK e \in {entry, None} : Goto(h, "judge", [local[h] EXCEPT !.old = e])
    BY <1>4 DEF Get
  <2> DEFINE m == [local[h] EXCEPT !.old = e]
  <2>3. m.op = local[h].op /\ m.old = e
    BY <1>0 DEF LocalT
  <2>4. ClaimOf(h)'
    <3>1. pc'[h] = "judge" /\ local'[h] = m
      BY <1>0, <2>2, GotoElse
    <3> HIDE DEF m
    <3> QED
      BY <1>4, <2>3, <3>1 DEF ClaimOf, Get
  <2>5. ASSUME NEW g \in Handlers, g # h PROVE ClaimOf(g)'
    BY <1>0, <1>4, <2>2, <2>5, GotoElse, ClaimKept, Zenon DEF Get
  <2> QED
    BY <2>1, <2>4, <2>5
<1>5. ASSUME NEW h \in Handlers, Judge(h) PROVE Kept'
  <2> DEFINE old == local[h].old
             stale == backend = "in_memory" /\ old # None /\ ~Live(old.exp, now)
  <2>1. /\ entry' = IF stale THEN None ELSE entry
        /\ evicted' = (evicted \/ (stale /\ LiveEntry(entry, now)))
        /\ UNCHANGED <<backend, now, held, clash, recycled>>
    BY <1>5 DEF Judge
  <2>2. Finish(h) \/ Begin(h, "claim", local[h].id)
    BY <1>5 DEF Judge, Returns, ClaimOf
  <2>3. stale => recycled
    BY DEF ClaimOf, MarkInv
  <2>4. MarkInv'
    BY <2>1, <2>3, Zenon DEF MarkInv, Live, LiveEntry
  <2>5. ClaimOf(h)'
    BY <1>0, <2>2, GotoElse, FinishOf, SMTT(30) DEF Begin, ClaimOf, LiveEntry
  <2>6. ASSUME NEW g \in Handlers, g # h PROVE ClaimOf(g)'
    <3>1. pc'[g] = pc[g] /\ local'[g] = local[g]
      BY <1>0, <2>2, <2>6, GotoElse, FinishOf, SMTT(30) DEF Begin
    <3> QED
      BY <2>1, <2>3, <3>1, Zenon DEF ClaimOf, LiveEntry, Live
  <2> QED
    BY <2>4, <2>5, <2>6
<1>6. ASSUME NEW h \in Handlers, Lock(h) PROVE Kept'
  BY <1>6 DEF Lock, ClaimOf
<1>7. ASSUME NEW h \in Handlers, ReadRow(h) PROVE Kept'
  <2> DEFINE m == [local[h] EXCEPT !.next = 1]
  <2>1. MarkInv'
    BY <1>7, MarkKept DEF ReadRow
  <2>2. PICK row \in {entry, None} :
            IF LiveEntry(row, local[h].now) THEN Finish(h)
            ELSE Goto(h, IF row = None THEN "insert" ELSE "drop", m)
    BY <1>7 DEF ReadRow
  <2>3. m.op = "claim" /\ m.old = local[h].old
    BY <1>0, <1>7 DEF LocalT, ReadRow
  <2>4. row # None /\ ~LiveEntry(row, local[h].now) => recycled
    <3>1. CASE row = entry /\ row # None /\ ~LiveEntry(row, local[h].now)
      BY <1>0, <3>1, LiveBefore DEF MarkInv, LiveEntry, EntryT, LocalT
    <3> QED
      BY <3>1
  <2>5. ClaimOf(h)'
    <3> HIDE DEF m
    <3>1. UNCHANGED <<backend, entry, recycled>>
      BY <1>7 DEF ReadRow
    <3>2. CASE Finish(h)
      BY <1>0, <3>2, FinishOf, Zenon DEF ClaimOf
    <3>3. CASE row = None /\ Goto(h, "insert", m)
      BY <1>0, <2>3, <3>1, <3>3, GotoElse DEF ClaimOf
    <3>4. CASE row # None /\ ~LiveEntry(row, local[h].now) /\ Goto(h, "drop", m)
      BY <1>0, <2>3, <2>4, <3>1, <3>4, GotoElse DEF ClaimOf
    <3> QED
      BY <2>2, <3>2, <3>3, <3>4
  <2>6. ASSUME NEW g \in Handlers, g # h PROVE ClaimOf(g)'
    <3>1. pc'[g] = pc[g] /\ local'[g] = local[g]
      BY <1>0, <2>2, <2>6, GotoElse, FinishOf
    <3> QED
      BY <1>7, <3>1, ClaimKept DEF ReadRow
  <2> QED
    BY <2>1, <2>5, <2>6
<1>8. ASSUME NEW h \in Handlers, Drop(h) PROVE Kept'
  BY <1>0, <1>8, GotoElse, SMTT(30) DEF Drop, At, MarkInv, ClaimOf, Live, LiveEntry
<1>9. ASSUME NEW h \in Handlers, Insert(h) PROVE Kept'
  <2> DEFINE l == local[h]
  <2>1. l.op = "claim" /\ backend = "db"
    BY <1>9, Zenon DEF Insert, At, ClaimOf
  <2>2. CASE entry = None /\ entry' = NewEntry(l) /\ Wrote(h)
    <3>1. MarkInv'
      BY <1>9, <2>1, <2>2, WinMark, Zenon DEF Insert
    <3>2. ASSUME NEW g \in Handlers PROVE ClaimOf(g)'
      BY <1>9, <2>1, <2>2, <3>2, WinOthers, Zenon DEF Insert
    <3> QED
      BY <3>1, <3>2
  <2>3. CASE Finish(h) /\ UNCHANGED <<entry, admitted, held, clash, recycled>>
    <3>1. MarkInv'
      BY <1>9, <2>3, MarkKept, Zenon DEF Insert
    <3>2. ASSUME NEW g \in Handlers, g # h PROVE ClaimOf(g)'
      <4>1. pc'[g] = pc[g] /\ local'[g] = local[g]
        BY <1>0, <2>3, <3>2, FinishOf
      <4>2. UNCHANGED <<backend, entry, recycled>>
        BY <1>9, <2>3 DEF Insert
      <4> QED
        BY <4>1, <4>2, ClaimKept
    <3> QED
      BY <1>0, <2>3, <3>1, <3>2, FinishOf DEF ClaimOf
  <2> QED
    BY <1>9, <2>2, <2>3, Zenon DEF Insert
<1>10. ASSUME NEW h \in Handlers, CompareFails(h) \/ CompareSucceeds(h) PROVE FALSE
  <2>1. pc[h] = "compare"
    BY <1>10, Zenon DEF CompareFails, CompareSucceeds, At
  <2> QED
    BY <2>1, Zenon DEF ClaimOf
<1>11. CASE CleanExpired
  <2>1. /\ backend = "db" /\ entry # None /\ entry.exp < now /\ entry' = None
        /\ UNCHANGED <<backend, held, clash, recycled, evicted, now, pc, local>>
    BY <1>11, Zenon DEF CleanExpired
  <2>2. ~Live(entry.exp, now)
    BY <1>0, <2>1 DEF Live, EntryT
  <2>3. recycled
    BY <2>1, <2>2 DEF MarkInv
  <2>4. MarkInv'
    BY <2>1, <2>3 DEF MarkInv
  <2> QED
    BY <2>1, <2>3, <2>4 DEF ClaimOf, LiveEntry, Live
<1>12. CASE Tick
  <2>1. entry # None /\ Live(entry.exp, now) /\ ~Live(entry.exp, now + 1) => recycled'
    BY <1>12, Zenon DEF Tick, LiveEntry
  <2>2. /\ now' = now + 1 /\ (recycled => recycled')
        /\ UNCHANGED <<backend, entry, pc, local, held, clash, evicted>>
    BY <1>12, Zenon DEF Tick
  <2>3. Live(held, now + 1) => Live(held, now)
    BY <1>0, LiveBefore
  <2>4. MarkInv'
    BY <2>1, <2>2, <2>3, Zenon DEF MarkInv, Live
  <2> QED
    BY <2>2, <2>4 DEF ClaimOf, LiveEntry, Live
<1>13. CASE UNCHANGED vars
  BY <1>13, Zenon DEF vars, MarkInv, ClaimOf, Live, LiveEntry
<1> QED
  BY <1>1, <1>2, <1>3, <1>4, <1>5, <1>6, <1>7, <1>8, <1>9, <1>10,
     <1>11, <1>12, <1>13 DEF Next, Step

(* What a handler carries is kept while it does not move.                  *)
LEMMA CarryKept ==
    ASSUME NEW g \in Handlers, CarryOf(g), pc'[g] = pc[g], local'[g] = local[g],
           UNCHANGED <<backend, entry, mutex, admitted>>
    PROVE  CarryOf(g)'
  BY DEF CarryOf, LiveEntry, Live

(* A handler that is not about to insert moves and leaves the store alone. *)
LEMMA CountKept ==
    ASSUME NEW h \in Handlers, CountInv, pc[h] # "insert",
           \A g \in Handlers \ {h} : pc'[g] = pc[g],
           UNCHANGED <<backend, entry, now, admitted>>
    PROVE  CountInv'
  BY DEF CountInv, Live

(* A write of the counter lets through at most what it counts.             *)
LEMMA WroteCount ==
    ASSUME NEW h \in Handlers, Typed, use = "attempts", CountInv,
           local[h].op = "increment", admitted < local[h].next,
           entry' = NewEntry(local[h]), Wrote(h), UNCHANGED <<backend, now>>
    PROVE  CountInv'
<1> DEFINE exp == local[h].now + TtlSeconds
           n == local[h].next
<1>1. entry' # None /\ entry'.exp = exp /\ entry'.value = n
  BY NewEntryTyped DEF Typed, Control
<1>2. admitted' = IF ~Live(exp, now) THEN 0
                  ELSE admitted + (IF n <= MaxAttempts THEN 1 ELSE 0)
  BY NewEntryTyped DEF Wrote, Admit, Typed, Control
<1>3. admitted \in Nat /\ n \in Nat /\ MaxAttempts \in Nat
  BY CacheAssumption, Zenon DEF Typed, Control, LocalT
<1>4. admitted' <= MaxAttempts /\ (admitted' = 0 \/ admitted' <= n)
  BY <1>2, <1>3, SMTT(30) DEF CountInv
<1>5. admitted' = 0 \/ Live(exp, now)
  BY <1>2
<1>6. Live(exp, now) => Live(entry.exp, now)'
  BY <1>1 DEF Live
<1> QED
  BY <1>1, <1>4, <1>5, <1>6 DEF CountInv

(* Every step keeps the count.                                             *)
LEMMA BudgetNext == Typed /\ BudgetInv /\ [Next]_vars => BudgetInv'
<1> DEFINE Kept == CountInv /\ \A g \in Handlers : CarryOf(g)
<1> SUFFICES ASSUME Typed, use = "attempts", oneProcess, ~faulted, ~faulted',
                    Kept, [Next]_vars
             PROVE  Kept'
  <2>1. faulted => faulted' \/ ~[Next]_vars
    BY ZenonT(40), Zenon DEF Next, vars, config, ghosts, Step, Arrive, Load, Swap, Get,
           Judge, Lock, ReadRow, Drop, Insert, CompareFails, CompareSucceeds, CleanExpired, Tick
  <2>2. [Next]_vars => UNCHANGED <<use, oneProcess>>
    BY ZenonT(40), Zenon DEF Next, vars, config, ghosts, Step, Arrive, Load, Swap, Get,
           Judge, Lock, ReadRow, Drop, Insert, CompareFails, CompareSucceeds, CleanExpired, Tick
  <2> QED
    BY <2>1, <2>2, Zenon DEF BudgetInv
<1> USE DEF config, ghosts
<1>0. /\ now \in Nat /\ Control /\ admitted \in Nat /\ entry \in EntryT \cup {None}
      /\ \A h \in Handlers : local[h] \in LocalT /\ local[h].now <= now
      /\ None \notin Handlers
  BY CacheAssumption, Zenon DEF Typed, Control
<1>1. ASSUME NEW h \in Handlers, Arrive(h) PROVE Kept'
  <2>1. Begin(h, "increment", calls + 1) /\ pc[h] = "idle"
    BY <1>1 DEF Arrive, At
  <2>2. /\ pc'[h] = "load" /\ local'[h].op = "increment"
        /\ \A g \in Handlers \ {h} : pc'[g] = pc[g] /\ local'[g] = local[g]
    BY <1>0, <2>1, GotoElse DEF Begin
  <2>3. CountInv'
    BY <1>1, <2>1, <2>2, CountKept, Zenon DEF Arrive
  <2>4. ASSUME NEW g \in Handlers, g # h PROVE CarryOf(g)'
    BY <1>1, <2>2, <2>4, CarryKept, Zenon DEF Arrive
  <2> QED
    BY <2>2, <2>3, <2>4 DEF CarryOf
<1>2. ASSUME NEW h \in Handlers, Load(h) PROVE Kept'
  <2> DEFINE l == local[h]
             n == 1 + IF LiveEntry(entry, l.now) THEN entry.value ELSE 0
             m == [l EXCEPT !.old = entry, !.next = n]
  <2>1. l.op = "increment" /\ pc[h] = "load"
    BY <1>2 DEF Load, At, CarryOf
  <2>2. Goto(h, "swap", m)
    BY <1>2, <2>1 DEF Load
  <2>3. m.op = "increment" /\ m.old = entry /\ m.now = l.now /\ m.next = n
    BY <1>0, <2>1, Zenon DEF LocalT
  <2> HIDE DEF m
  <2>4. /\ pc'[h] = "swap" /\ local'[h] = m
        /\ \A g \in Handlers \ {h} : pc'[g] = pc[g] /\ local'[g] = local[g]
    BY <1>0, <2>2, GotoElse
  <2>5. CountInv'
    BY <1>2, <2>1, <2>4, CountKept DEF Load
  <2>6. ASSUME NEW g \in Handlers, g # h PROVE CarryOf(g)'
    BY <1>2, <2>4, <2>6, CarryKept, Zenon DEF Load
  <2>7. CarryOf(h)'
    <3>1. LiveEntry(local[h].old, local[h].now)' <=> LiveEntry(entry, l.now)
      BY <1>2, <2>3, <2>4, Zenon DEF LiveEntry, Live, Load
    <3>2. local'[h].next = 1 + IF LiveEntry(local[h].old, local[h].now)'
                               THEN local'[h].old.value ELSE 0
      BY <2>3, <2>4, <3>1
    <3> QED
      BY <2>3, <2>4, <3>2 DEF CarryOf
  <2> QED
    BY <2>5, <2>6, <2>7
<1>3. ASSUME NEW h \in Handlers, Swap(h) PROVE Kept'
  <2> DEFINE l == local[h]
  <2>1. /\ l.op = "increment" /\ backend = "in_memory"
        /\ l.next = 1 + IF LiveEntry(l.old, l.now) THEN l.old.value ELSE 0
    BY <1>3 DEF Swap, At, CarryOf
  <2>2. UNCHANGED <<backend, now, mutex>>
    BY <1>3, Zenon DEF Swap
  <2>3. CASE entry = l.old /\ entry' = NewEntry(l) /\ Wrote(h)
    <3>1. admitted = 0 \/ (entry # None /\ Live(entry.exp, now) /\ admitted <= entry.value)
      BY <2>1 DEF CountInv
    <3>2. admitted < l.next
      <4>1. CASE admitted = 0
        <5>1. l.next >= 1
          BY <1>0, <2>1, <2>3 DEF LiveEntry, EntryT
        <5> QED
          BY <4>1, <5>1, <1>0 DEF LocalT
      <4>2. CASE entry # None /\ Live(entry.exp, now) /\ admitted <= entry.value
        <5>1. LiveEntry(l.old, l.now)
          BY <1>0, <2>3, <4>2, LiveBefore, SMTT(30) DEF LiveEntry, EntryT, LocalT
        <5>2. l.next = 1 + entry.value /\ entry.value \in Nat
          BY <1>0, <2>1, <2>3, <4>2, <5>1, Zenon DEF EntryT
        <5> QED
          BY <1>0, <4>2, <5>2
      <4> QED
        BY <3>1, <4>1, <4>2
    <3>3. CountInv'
      BY <2>1, <2>2, <2>3, <3>2, WroteCount, Zenon
    <3>4. Finish(h) \/ Compare(h)
      BY <2>3, Zenon DEF Wrote
    <3>5. /\ pc'[h] \in {"idle", "compare"}
          /\ \A g \in Handlers \ {h} : pc'[g] = pc[g] /\ local'[g] = local[g]
      BY <1>0, <3>4, GotoElse, Zenon DEF Finish, Compare
    <3>6. ASSUME NEW g \in Handlers, g # h PROVE CarryOf(g)'
      BY <2>1, <2>2, <3>5, <3>6, Zenon DEF CarryOf, LiveEntry, Live
    <3> QED
      BY <3>3, <3>5, <3>6 DEF CarryOf
  <2>4. CASE Begin(h, l.op, l.id) /\ UNCHANGED <<entry, admitted, held, clash, recycled>>
    <3>1. /\ pc'[h] = "load" /\ local'[h].op = "increment"
          /\ \A g \in Handlers \ {h} : pc'[g] = pc[g] /\ local'[g] = local[g]
      <4> DEFINE m == [op |-> l.op, now |-> now, old |-> None, next |-> 0, id |-> l.id]
      <4>1. l.op = "increment" /\ Control
        BY <1>0, <2>1, Zenon
      <4>2. Goto(h, "load", m)
        BY <2>4, <4>1, Zenon DEF Begin
      <4>3. m.op = "increment"
        BY <4>1, Zenon
      <4> HIDE DEF m
      <4> QED
        BY <4>1, <4>2, <4>3, GotoElse, Zenon
    <3>2. CountInv'
      <4>1. pc[h] # "insert"
        BY <1>3, Zenon DEF Swap, At
      <4> QED
        BY <2>2, <2>4, <3>1, <4>1, CountKept, Zenon
    <3>3. ASSUME NEW g \in Handlers, g # h PROVE CarryOf(g)'
      BY <2>2, <2>4, <3>1, <3>3, CarryKept
    <3> QED
      BY <3>1, <3>2, <3>3 DEF CarryOf
  <2> QED
    BY <1>3, <2>3, <2>4, Zenon DEF Swap
<1>4. ASSUME NEW h \in Handlers, Get(h) PROVE Kept'
  <2> DEFINE m == [local[h] EXCEPT !.old = entry]
  <2>1. Goto(h, "judge", m) /\ pc[h] = "get"
    BY <1>4 DEF Get, At
  <2>2. m.op = "increment" /\ m.old = entry
    BY <1>0, <2>1, Zenon DEF LocalT, CarryOf
  <2> HIDE DEF m
  <2>3. /\ pc'[h] = "judge" /\ local'[h] = m
        /\ \A g \in Handlers \ {h} : pc'[g] = pc[g] /\ local'[g] = local[g]
    BY <1>0, <2>1, GotoElse
  <2>4. CountInv'
    BY <1>4, <2>1, <2>3, CountKept DEF Get
  <2>5. ASSUME NEW g \in Handlers, g # h PROVE CarryOf(g)'
    BY <1>4, <2>3, <2>5, CarryKept, Zenon DEF Get
  <2>6. backend = "db" /\ mutex = h
    BY <2>1, Zenon DEF CarryOf
  <2> QED
    BY <1>4, <2>2, <2>3, <2>4, <2>5, <2>6 DEF CarryOf, Get
<1>5. ASSUME NEW h \in Handlers, Judge(h) PROVE Kept'
  <2> DEFINE old == local[h].old
             value == IF LiveEntry(old, now) THEN old.value ELSE 0
             n == value + 1
             m == [op |-> local[h].op, now |-> now, old |-> None, next |-> n,
                   id |-> local[h].id]
  <2>1. pc[h] = "judge" /\ local[h].op = "increment" /\ backend = "db" /\ mutex = h
    BY <1>5 DEF Judge, At, CarryOf
  <2>2. Goto(h, "drop", m) /\ UNCHANGED <<backend, now, mutex, admitted, entry>>
    BY <1>5, <2>1, Zenon DEF Judge, Returns
  <2>3. /\ pc'[h] = "drop" /\ local'[h].op = "increment" /\ local'[h].next = n
        /\ \A g \in Handlers \ {h} : pc'[g] = pc[g] /\ local'[g] = local[g]
    BY <1>0, <2>1, <2>2, GotoElse, SMTT(30)
  <2>4. \A g \in Handlers : pc[g] # "insert"
    BY <2>1 DEF CarryOf
  <2>5. admitted < n
    <3>1. admitted = 0 \/ (entry # None /\ Live(entry.exp, now) /\ admitted <= entry.value)
      BY <2>4 DEF CountInv
    <3>2. value \in Nat
      BY <1>0 DEF LiveEntry, EntryT, LocalT
    <3>3. admitted <= value
      <4>1. CASE admitted = 0
        BY <3>2, <4>1
      <4>2. CASE admitted # 0
        <5>1. old = entry
          BY <2>1, <4>2 DEF CarryOf
        <5> QED
          BY <3>1, <4>2, <5>1 DEF LiveEntry
      <4> QED
        BY <4>1, <4>2
    <3> HIDE DEF value
    <3> QED
      BY <1>0, <3>2, <3>3
  <2>6. CountInv'
    BY <2>1, <2>2, <2>3, CountKept, Zenon
  <2>7. ASSUME NEW g \in Handlers, g # h PROVE CarryOf(g)'
    BY <2>2, <2>3, <2>7, CarryKept, Zenon
  <2> QED
    BY <2>1, <2>2, <2>3, <2>5, <2>6, <2>7, Zenon DEF CarryOf
<1>6. ASSUME NEW h \in Handlers, Lock(h) PROVE Kept'
  <2> DEFINE m == [local[h] EXCEPT !.now = 0]
  <2>1. /\ pc[h] = "load" /\ local[h].op = "increment" /\ backend = "db"
        /\ mutex = None /\ mutex' = h /\ Goto(h, "get", m)
        /\ UNCHANGED <<backend, entry, now, admitted>>
    BY <1>6 DEF Lock, At
  <2>2. m.op = "increment"
    BY <1>0, <2>1, Zenon DEF LocalT
  <2> HIDE DEF m
  <2>3. /\ pc'[h] = "get" /\ local'[h] = m
        /\ \A g \in Handlers \ {h} : pc'[g] = pc[g] /\ local'[g] = local[g]
    BY <1>0, <2>1, GotoElse, Zenon
  <2>4. CountInv'
    BY <2>1, <2>3, CountKept, Zenon
  <2>5. \A g \in Handlers : pc[g] \notin {"get", "judge", "drop", "insert"}
    BY <1>0, <2>1, Zenon DEF CarryOf
  <2>6. ASSUME NEW g \in Handlers, g # h PROVE CarryOf(g)'
    BY <2>1, <2>3, <2>5, <2>6 DEF CarryOf, LiveEntry, Live
  <2> QED
    BY <2>1, <2>2, <2>3, <2>4, <2>6 DEF CarryOf
<1>7. ASSUME NEW h \in Handlers, ReadRow(h) PROVE FALSE
  BY <1>7, Zenon DEF ReadRow, At, CarryOf
<1>8. ASSUME NEW h \in Handlers, Drop(h) PROVE Kept'
  <2>1. /\ pc[h] = "drop" /\ local[h].op = "increment" /\ mutex = h
        /\ backend = "db" /\ admitted < local[h].next
    BY <1>8, Zenon DEF Drop, At, CarryOf
  <2>2. /\ entry' = None /\ Goto(h, "insert", local[h])
        /\ UNCHANGED <<backend, now, mutex, admitted>>
    BY <1>8, Zenon DEF Drop
  <2>3. /\ pc'[h] = "insert" /\ local'[h] = local[h]
        /\ \A g \in Handlers \ {h} : pc'[g] = pc[g] /\ local'[g] = local[g]
    BY <1>0, <2>2, GotoElse
  <2>4. CountInv'
    BY <2>1, <2>2, <2>3, Zenon DEF CountInv
  <2>5. ASSUME NEW g \in Handlers, g # h PROVE CarryOf(g)'
    BY <2>1, <2>2, <2>3, <2>5, Zenon DEF CarryOf, LiveEntry, Live
  <2> QED
    BY <2>1, <2>2, <2>3, <2>4, <2>5 DEF CarryOf
<1>9. ASSUME NEW h \in Handlers, Insert(h) PROVE Kept'
  <2>1. /\ pc[h] = "insert" /\ local[h].op = "increment" /\ mutex = h
        /\ backend = "db" /\ admitted < local[h].next /\ entry = None
    BY <1>9, Zenon DEF Insert, At, CarryOf
  <2>2. /\ entry' = NewEntry(local[h]) /\ Wrote(h)
        /\ UNCHANGED <<backend, now>>
    BY <1>9, <2>1, Zenon DEF Insert
  <2>3. CountInv'
    BY <2>1, <2>2, WroteCount, Zenon
  <2>4. Finish(h) \/ Compare(h)
    BY <2>2, Zenon DEF Wrote
  <2>5. /\ pc'[h] \in {"idle", "compare"}
        /\ \A g \in Handlers \ {h} : pc'[g] = pc[g] /\ local'[g] = local[g]
    BY <1>0, <2>4, GotoElse DEF Finish, Compare
  <2>6. ASSUME NEW g \in Handlers, g # h PROVE CarryOf(g)'
    BY <2>1, <2>2, <2>5, <2>6, Zenon DEF CarryOf, LiveEntry, Live
  <2> QED
    BY <2>3, <2>5, <2>6 DEF CarryOf
<1>10. ASSUME NEW h \in Handlers, CompareFails(h) PROVE Kept'
  <2>1. Finish(h) /\ pc[h] = "compare" /\ UNCHANGED <<backend, entry, now, mutex, admitted>>
    BY <1>10, Zenon DEF CompareFails, At
  <2>2. /\ pc'[h] = "idle"
        /\ \A g \in Handlers \ {h} : pc'[g] = pc[g] /\ local'[g] = local[g]
    BY <1>0, <2>1, FinishOf
  <2>3. CountInv'
    BY <2>1, <2>2, CountKept, Zenon
  <2>4. ASSUME NEW g \in Handlers, g # h PROVE CarryOf(g)'
    BY <2>1, <2>2, <2>4, CarryKept, Zenon
  <2> QED
    BY <2>2, <2>3, <2>4 DEF CarryOf
<1>11. ASSUME NEW h \in Handlers, CompareSucceeds(h) PROVE Kept'
  <2>1. /\ Finish(h) /\ pc[h] = "compare" /\ UNCHANGED <<backend, now, mutex>>
        /\ entry' = None /\ admitted' = 0
    BY <1>11 DEF CompareSucceeds, At
  <2>2. /\ pc'[h] = "idle"
        /\ \A g \in Handlers \ {h} : pc'[g] = pc[g] /\ local'[g] = local[g]
    BY <1>0, <2>1, FinishOf, Zenon
  <2>3. CountInv'
    BY <2>1, CacheAssumption DEF CountInv
  <2>4. ASSUME NEW g \in Handlers, g # h PROVE CarryOf(g)'
    <3>1. pc[g] \in {"drop", "insert"} => 0 < local[g].next
      BY <1>0 DEF CarryOf, LocalT
    <3> QED
      BY <2>1, <2>2, <2>4, <3>1, Zenon DEF CarryOf, LiveEntry, Live
  <2> QED
    BY <2>2, <2>3, <2>4 DEF CarryOf
<1>12. CASE CleanExpired
  <2>1. /\ entry # None /\ entry.exp < now /\ entry' = None /\ backend = "db"
        /\ UNCHANGED <<backend, now, mutex, pc, local, admitted>>
    BY <1>12, Zenon DEF CleanExpired
  <2>2. \A g \in Handlers : pc[g] # "insert"
    BY <2>1, Zenon DEF CarryOf
  <2>3. admitted = 0
    BY <1>0, <2>1, <2>2 DEF CountInv, Live, EntryT
  <2> QED
    BY <2>1, <2>3 DEF CountInv, CarryOf, LiveEntry, Live
<1>13. CASE Tick
  <2> DEFINE lapses == LiveEntry(entry, now) /\ ~Live(entry.exp, now + 1)
  <2>1. /\ now' = now + 1 /\ admitted' = IF lapses THEN 0 ELSE admitted
        /\ UNCHANGED <<backend, entry, mutex, pc, local>>
    BY <1>13, Zenon DEF Tick
  <2>2. CountInv'
    BY <2>1, CacheAssumption DEF CountInv, LiveEntry, Live
  <2>3. admitted' = 0 \/ admitted' = admitted
    BY <2>1, Zenon
  <2>4. ASSUME NEW g \in Handlers PROVE CarryOf(g)'
    <3>1. pc[g] \in {"drop", "insert"} => 0 < local[g].next
      BY <1>0, SMTT(30) DEF CarryOf, LocalT
    <3> QED
      BY <2>1, <2>3, <3>1, Zenon DEF CarryOf, LiveEntry, Live
  <2> QED
    BY <2>2, <2>4
<1>14. CASE UNCHANGED vars
  BY <1>14 DEF vars, CountInv, CarryOf, LiveEntry, Live
<1> QED
  BY <1>1, <1>2, <1>3, <1>4, <1>5, <1>6, <1>7, <1>8, <1>9, <1>10, <1>11,
     <1>12, <1>13, <1>14 DEF Next, Step

(* A set of handlers is no larger than all of them, and smaller when one   *)
(* is missing.                                                             *)
LEMMA Crowd ==
    ASSUME NEW S \in SUBSET Handlers
    PROVE  /\ IsFiniteSet(S) /\ Cardinality(S) \in Nat /\ Cardinality(Handlers) \in Nat
           /\ Cardinality(S) <= Cardinality(Handlers)
           /\ \A h \in Handlers \ S : Cardinality(S) <= Cardinality(Handlers) - 1
<1>1. IsFiniteSet(Handlers)
  BY CacheAssumption
<1>2. IsFiniteSet(S) /\ Cardinality(S) <= Cardinality(Handlers)
      /\ (Cardinality(S) = Cardinality(Handlers) => S = Handlers)
  BY <1>1, FS_Subset, Zenon
<1>3. Cardinality(S) \in Nat /\ Cardinality(Handlers) \in Nat
  BY <1>1, <1>2, FS_CardinalityType, Zenon
<1>4. \A h \in Handlers \ S : Cardinality(S) # Cardinality(Handlers)
  BY <1>2, Zenon
<1> QED
  BY <1>2, <1>3, <1>4

(* A step of one handler that leaves the counter alone or removes it.      *)
LEMMA RoomKept ==
    ASSUME NEW h \in Handlers, Typed, RoomLeft, entry' = entry \/ entry' = None,
           \A g \in Handlers \ {h} : pc'[g] = pc[g] /\ local'[g] = local[g],
           (MayCount(h)' /\ entry' # None) =>
               (MayCount(h) \/ entry.value < MaxAttempts)
    PROVE  RoomLeft'
<1> SUFFICES ASSUME entry' # None, ~(entry.value < MaxAttempts), entry' = entry
             PROVE  entry.value + Cardinality(Counting') <= MaxAttempts - 1 + Cardinality(Handlers)
  BY Zenon DEF RoomLeft
<1>1. Counting' \subseteq Counting
  <2> SUFFICES ASSUME NEW g \in Handlers, MayCount(g)' PROVE MayCount(g)
    BY Zenon DEF Counting
  <2>1. CASE g = h
    BY <2>1, Zenon
  <2>2. CASE g # h
    BY <2>2, Zenon DEF MayCount
  <2> QED
    BY <2>1, <2>2, Zenon
<1>2. Counting \in SUBSET Handlers /\ Counting' \in SUBSET Handlers
  BY Zenon DEF Counting
<1>3. /\ IsFiniteSet(Counting) /\ Cardinality(Counting) \in Nat
      /\ Cardinality(Counting') \in Nat /\ Cardinality(Handlers) \in Nat
  BY <1>2, Crowd, Zenon
<1>4. Cardinality(Counting') <= Cardinality(Counting)
  BY <1>1, <1>3, FS_Subset, Zenon
<1>5. entry.value + Cardinality(Counting) <= MaxAttempts - 1 + Cardinality(Handlers)
  BY Zenon DEF RoomLeft
<1>6. entry.value \in Nat /\ MaxAttempts \in Nat
  BY CacheAssumption DEF Typed, EntryT
<1> QED
  BY <1>3, <1>4, <1>5, <1>6

(* A step of one handler that raises the counter by one, and is done.      *)
LEMMA RoomUsed ==
    ASSUME NEW h \in Handlers, Typed, RoomLeft, MayCount(h), ~MayCount(h)',
           \A g \in Handlers \ {h} : pc'[g] = pc[g] /\ local'[g] = local[g],
           entry' # None, entry'.value \in Nat,
           entry = None => entry'.value <= 1,
           entry # None => entry'.value <= 1 + entry.value
    PROVE  RoomLeft'
<1>1. Counting' = Counting \ {h} /\ h \in Counting /\ h \in Handlers \ Counting'
  BY Zenon DEF Counting, MayCount
<1>2. Counting \in SUBSET Handlers /\ Counting' \in SUBSET Handlers
  BY Zenon DEF Counting
<1>3. /\ IsFiniteSet(Counting) /\ Cardinality(Counting) \in Nat
      /\ Cardinality(Counting') \in Nat /\ Cardinality(Handlers) \in Nat
      /\ Cardinality(Counting') <= Cardinality(Handlers) - 1
  BY <1>1, <1>2, Crowd, Zenon
<1>4. Cardinality(Counting') = Cardinality(Counting) - 1
  BY <1>1, <1>3, FS_RemoveElement, Zenon
<1>5. MaxAttempts \in Nat \ {0} /\ (entry # None => entry.value \in Nat)
  BY CacheAssumption DEF Typed, EntryT
<1>6. \/ entry = None \/ entry.value < MaxAttempts
      \/ entry.value + Cardinality(Counting) <= MaxAttempts - 1 + Cardinality(Handlers)
  BY Zenon DEF RoomLeft
<1>7. \/ entry'.value < MaxAttempts
      \/ entry'.value + Cardinality(Counting') <= MaxAttempts - 1 + Cardinality(Handlers)
  <2> DEFINE v == entry'.value  w == entry.value
             c == Cardinality(Counting)  d == Cardinality(Counting')
  <2> HIDE DEF v, w, c, d
  <2>1. CASE entry = None
    BY <1>3, <1>5, <2>1 DEF v, d
  <2>2. CASE entry # None /\ w < MaxAttempts
    BY <1>3, <1>5, <2>2 DEF v, w, d
  <2>3. CASE entry # None /\ w + c <= MaxAttempts - 1 + Cardinality(Handlers)
    BY <1>3, <1>4, <1>5, <2>3 DEF v, w, c, d
  <2> QED
    BY <1>6, <2>1, <2>2, <2>3, Zenon DEF w, c
<1> QED
  BY <1>7, Zenon DEF RoomLeft

(* The handlers that do not move still add at most one.                    *)
LEMMA AddsKept ==
    ASSUME NEW h \in Handlers, \A g \in Handlers : AddsOne(g), AddsOne(h)',
           \A g \in Handlers \ {h} : pc'[g] = pc[g] /\ local'[g] = local[g]
    PROVE  \A g \in Handlers : AddsOne(g)'
<1> SUFFICES ASSUME NEW g \in Handlers PROVE AddsOne(g)'
  OBVIOUS
<1>1. CASE g = h
  BY <1>1, Zenon
<1>2. CASE g # h
  BY <1>2, Zenon DEF AddsOne
<1> QED
  BY <1>1, <1>2, Zenon

(* Where each move takes a handler.                                        *)
LEMMA Moves ==
    ASSUME NEW h \in Handlers, Control
    PROVE  /\ Finish(h) => pc'[h] = "idle"
           /\ Compare(h) => pc'[h] = "compare"
           /\ \A op \in {"none", "increment", "claim", "read"}, id \in Nat :
                  Begin(h, op, id) =>
                      /\ pc'[h] = IF op = "read" THEN "get" ELSE "load"
                      /\ pc'[h] \in {"get", "load"}
<1>1. \A label : pc' = [pc EXCEPT ![h] = label] => pc'[h] = label
  BY DEF Control
<1> QED
  BY <1>1, Zenon DEF Finish, Compare, Begin, Goto

(* A handler that moved elsewhere has nothing prepared.                    *)
LEMMA OvershootStep ==
    ASSUME NEW h \in Handlers, Typed, RoomLeft, \A g \in Handlers : AddsOne(g),
           \A g \in Handlers \ {h} : pc'[g] = pc[g] /\ local'[g] = local[g],
           entry' = entry \/ entry' = None, pc'[h] # "swap",
           (MayCount(h)' /\ entry' # None) =>
               (MayCount(h) \/ entry.value < MaxAttempts)
    PROVE  RoomLeft' /\ \A g \in Handlers : AddsOne(g)'
<1>1. RoomLeft'
  BY RoomKept, Zenon
<1>2. AddsOne(h)'
  BY Zenon DEF AddsOne
<1> QED
  BY <1>1, <1>2, AddsKept, Zenon

(* Every step keeps the room left below the bound.                         *)
LEMMA OvershootNext == Typed /\ OvershootInv /\ [Next]_vars => OvershootInv'
<1> DEFINE Kept == RoomLeft /\ \A g \in Handlers : AddsOne(g)
<1> SUFFICES ASSUME Typed, OvershootInv, [Next]_vars, use' = "admin", backend' = "in_memory"
             PROVE  Kept'
  BY Zenon DEF OvershootInv
<1> USE DEF config, ghosts
<1>0. use = "admin" /\ backend = "in_memory"
  BY DEF Next, Step, vars, Arrive, Load, Swap, Get, Judge, Lock, ReadRow, Drop, Insert,
         CompareFails, CompareSucceeds, CleanExpired, Tick
<1>a. RoomLeft /\ (\A g \in Handlers : AddsOne(g)) /\ Control
  BY <1>0, Zenon DEF OvershootInv, Typed
<1>b. \A h \in Handlers : local[h] \in LocalT
  BY <1>a, Zenon DEF Control
<1>c. \A h \in Handlers : /\ local[h].id \in Nat
                          /\ local[h].op \in {"none", "increment", "claim", "read"}
                          /\ local[h].old \in EntryT \cup {None}
  BY <1>b DEF LocalT
<1>1. ASSUME NEW h \in Handlers, Arrive(h) PROVE Kept'
  <2>1. calls + 1 \in Nat
    BY DEF Typed
  <2>2. Begin(h, "read", calls + 1) /\ entry' = entry
    BY <1>0, <1>1, Zenon DEF Arrive
  <2>3. pc'[h] = "get"
    BY <1>a, <2>1, <2>2, Moves, Zenon
  <2>4. \A g \in Handlers \ {h} : pc'[g] = pc[g] /\ local'[g] = local[g]
    BY <1>a, <2>2, GotoElse, Zenon DEF Begin
  <2>5. ~MayCount(h)'
    BY <2>3, Zenon DEF MayCount
  <2> QED
    BY <1>a, <2>2, <2>3, <2>4, <2>5, OvershootStep, Zenon
<1>2. ASSUME NEW h \in Handlers, Load(h) PROVE Kept'
  <2> DEFINE l == local[h]
             live == LiveEntry(entry, l.now)
             next == 1 + IF l.op = "increment" /\ live THEN entry.value ELSE 0
             m == [l EXCEPT !.old = entry, !.next = next]
  <2>1. pc[h] = "load" /\ entry' = entry /\ (Finish(h) \/ Goto(h, "swap", m))
    BY <1>2, Zenon DEF Load, At
  <2>2. MayCount(h)
    BY <2>1, Zenon DEF MayCount
  <2>3. CASE Finish(h)
    BY <1>a, <2>1, <2>2, <2>3, Moves, FinishOf, OvershootStep, Zenon
  <2>4. CASE Goto(h, "swap", m)
    <3>1. pc'[h] = "swap" /\ local'[h] = m
          /\ \A g \in Handlers \ {h} : pc'[g] = pc[g] /\ local'[g] = local[g]
      <4> HIDE DEF m
      <4> QED
        BY <1>a, <2>4, GotoElse, Zenon
    <3>2. m.old = entry /\ m.next = next
      BY <1>b DEF LocalT
    <3>3. next <= 1 + IF entry = None THEN 0 ELSE entry.value
      BY DEF Typed, EntryT, LiveEntry
    <3> HIDE DEF m, next
    <3>4. AddsOne(h)'
      BY <3>1, <3>2, <3>3, Zenon DEF AddsOne
    <3>5. RoomLeft'
      BY <1>a, <2>1, <2>2, <3>1, RoomKept, Zenon
    <3> QED
      BY <1>a, <3>1, <3>4, <3>5, AddsKept, Zenon
  <2> QED
    BY <2>1, <2>3, <2>4, Zenon
<1>3. ASSUME NEW h \in Handlers, Swap(h) PROVE Kept'
  <2>1. pc[h] = "swap" /\ MayCount(h)
    BY <1>3, Zenon DEF Swap, At, MayCount
  <2>2. CASE entry = local[h].old /\ Wrote(h) /\ entry' = NewEntry(local[h])
    <3>1. Finish(h)
      BY <1>0, <2>2, Zenon DEF Wrote
    <3>2. pc'[h] = "idle" /\ \A g \in Handlers \ {h} : pc'[g] = pc[g] /\ local'[g] = local[g]
      BY <1>a, <3>1, FinishOf, Zenon
    <3>3. ~MayCount(h)' /\ AddsOne(h)'
      BY <3>2, Zenon DEF MayCount, AddsOne
    <3>4. entry' # None /\ entry'.value = local[h].next /\ local[h].next \in Nat
      BY <1>b, <2>2, NewEntryTyped DEF LocalT
    <3>5. local[h].next <= 1 + IF entry = None THEN 0 ELSE entry.value
      BY <1>a, <2>1, <2>2, Zenon DEF AddsOne
    <3>6. /\ entry = None => entry'.value <= 1
          /\ entry # None => entry'.value <= 1 + entry.value
      BY <3>4, <3>5
    <3>7. RoomLeft'
      BY <1>a, <2>1, <3>2, <3>3, <3>4, <3>6, RoomUsed, Zenon
    <3> QED
      BY <1>a, <3>2, <3>3, <3>7, AddsKept, Zenon
  <2>3. CASE Begin(h, local[h].op, local[h].id) /\ entry' = entry
    <3>1. pc'[h] # "swap"
      BY <1>a, <1>c, <2>3, Moves, Zenon
    <3>2. \A g \in Handlers \ {h} : pc'[g] = pc[g] /\ local'[g] = local[g]
      BY <1>a, <2>3, GotoElse, Zenon DEF Begin
    <3> QED
      BY <1>a, <2>1, <2>3, <3>1, <3>2, OvershootStep, Zenon
  <2> QED
    BY <1>3, <2>2, <2>3, Zenon DEF Swap
<1>4. ASSUME NEW h \in Handlers, Get(h) PROVE Kept'
  <2> DEFINE m == [local[h] EXCEPT !.old = entry]
  <2>1. Goto(h, "judge", m) /\ entry' = entry
    BY <1>0, <1>4, Zenon DEF Get
  <2>2. m.old = entry
    BY <1>b DEF LocalT
  <2> HIDE DEF m
  <2>3. pc'[h] = "judge" /\ local'[h] = m
        /\ \A g \in Handlers \ {h} : pc'[g] = pc[g] /\ local'[g] = local[g]
    BY <1>a, <2>1, GotoElse, Zenon
  <2>4. MayCount(h)' /\ entry' # None => entry.value < MaxAttempts
    BY <2>1, <2>2, <2>3, Zenon DEF MayCount
  <2> QED
    BY <1>a, <2>1, <2>3, <2>4, OvershootStep, Zenon
<1>5. ASSUME NEW h \in Handlers, Judge(h) PROVE Kept'
  <2> DEFINE old == local[h].old
             value == IF LiveEntry(old, now) THEN old.value ELSE 0
             m == [op |-> local[h].op, now |-> now, old |-> None, next |-> value + 1,
                   id |-> local[h].id]
  <2>1. pc[h] = "judge" /\ Returns(h, value)
        /\ entry' = IF old # None /\ ~Live(old.exp, now) THEN None ELSE entry
    BY <1>0, <1>5, Zenon DEF Judge, At
  <2> HIDE DEF m
  <2>2. \/ Goto(h, "drop", m) \/ Finish(h)
        \/ Compare(h) /\ ~Spent(value)
        \/ Begin(h, "claim", local[h].id) /\ value = 0
    BY <2>1, Zenon DEF Returns, m
  <2>3. \A g \in Handlers \ {h} : pc'[g] = pc[g] /\ local'[g] = local[g]
    BY <1>a, <2>2, GotoElse, Zenon DEF Finish, Compare, Begin
  <2>4. \/ pc'[h] \in {"drop", "idle"}
        \/ pc'[h] = "compare" /\ ~Spent(value)
        \/ pc'[h] = "load" /\ value = 0
    <3>1. Goto(h, "drop", m) => pc'[h] = "drop"
      BY <1>a, GotoElse, Zenon
    <3>2. Begin(h, "claim", local[h].id) => pc'[h] = "load"
      BY <1>a, <1>c, Moves, Zenon
    <3> QED
      BY <1>a, <2>2, <3>1, <3>2, Moves, Zenon
  <2>5. MayCount(h)' /\ entry' # None => MayCount(h)
    <3> SUFFICES ASSUME MayCount(h)', entry' # None, old # None PROVE old.value < MaxAttempts
      BY <2>1, Zenon DEF MayCount
    <3>1. value = old.value
      BY <2>1, Zenon DEF LiveEntry
    <3>2. ~Spent(value) \/ value = 0
      BY <2>4, Zenon DEF MayCount
    <3>3. MaxAttempts \in Nat \ {0} /\ old.value \in Nat
      BY <1>c, CacheAssumption DEF EntryT
    <3> HIDE DEF value, old
    <3> QED
      BY <3>1, <3>2, <3>3 DEF Spent
  <2>6. pc'[h] # "swap" /\ (entry' = entry \/ entry' = None)
    BY <2>1, <2>4, Zenon
  <2> QED
    BY <1>a, <2>3, <2>5, <2>6, OvershootStep, Zenon
<1>6. ASSUME NEW h \in Handlers, CompareFails(h) PROVE Kept'
  <2>1. MayCount(h) /\ Begin(h, "increment", local[h].id) /\ entry' = entry
    BY <1>0, <1>6, Zenon DEF CompareFails, At, MayCount
  <2>2. pc'[h] # "swap"
    BY <1>a, <1>c, <2>1, Moves, Zenon
  <2>3. \A g \in Handlers \ {h} : pc'[g] = pc[g] /\ local'[g] = local[g]
    BY <1>a, <2>1, GotoElse, Zenon DEF Begin
  <2> QED
    BY <1>a, <2>1, <2>2, <2>3, OvershootStep, Zenon
<1>7. ASSUME NEW h \in Handlers, CompareSucceeds(h) PROVE Kept'
  <2>1. Finish(h) /\ entry' = None
    BY <1>0, <1>7 DEF CompareSucceeds
  <2> QED
    BY <1>a, <2>1, Moves, FinishOf, OvershootStep, Zenon
<1>8. CASE Tick \/ UNCHANGED vars
  <2>1. pc' = pc /\ local' = local /\ entry' = entry
    BY <1>8, Zenon DEF Tick, vars
  <2> QED
    BY <1>a, <2>1, Zenon DEF RoomLeft, Counting, MayCount, AddsOne
<1>9. /\ ~CleanExpired
      /\ \A h \in Handlers : ~Lock(h) /\ ~ReadRow(h) /\ ~Drop(h) /\ ~Insert(h)
  BY <1>0 DEF CleanExpired, Lock, ReadRow, Drop, Insert
<1> QED
  BY <1>1, <1>2, <1>3, <1>4, <1>5, <1>6, <1>7, <1>8, <1>9, Zenon DEF Next, Step

(* The invariant holds at the start.                                       *)
LEMMA InitIInv == Init => IInv
<1> SUFFICES ASSUME Init PROVE IInv
  OBVIOUS
<1>1. Control
  BY IdleTyped DEF Init, Control, Labels
<1>2. Typed
  <2>1. oneProcess \in BOOLEAN /\ (backend = "in_memory" => oneProcess)
    BY Zenon DEF Init
  <2>2. clash \in BOOLEAN /\ recycled \in BOOLEAN /\ evicted \in BOOLEAN /\ faulted \in BOOLEAN
    BY Zenon DEF Init
  <2>3. now \in Nat /\ calls \in Nat /\ admitted \in Nat /\ held \in Int
    BY DEF Init
  <2> QED
    BY <1>1, <2>1, <2>2, <2>3, Zenon DEF Init, Typed
<1>3. ClaimInv
  BY DEF Init, ClaimInv, MarkInv, ClaimOf, Idle
<1>4. BudgetInv
  BY CacheAssumption, SMTT(30) DEF Init, BudgetInv, CountInv, CarryOf
<1>5. OvershootInv
  BY Zenon DEF Init, OvershootInv, RoomLeft, AddsOne
<1> QED
  BY <1>2, <1>3, <1>4, <1>5, Zenon DEF IInv

(* The invariant is kept by every step.                                    *)
LEMMA Invariance == Spec => []IInv
<1>1. IInv /\ [Next]_vars => IInv'
  BY TypedNext, ClaimNext, BudgetNext, OvershootNext, Zenon DEF IInv
<1> QED
  BY <1>1, InitIInv, PTL DEF Spec

(* Whatever the number of handlers, calls, attempts and seconds, at most   *)
(* the budget of comparisons is let through in a window (IncrementCache    *)
(* before the comparison, in VerifyOTP and Login), on the in-memory store  *)
(* and on one process over the database, while no statement fails.         *)
THEOREM BudgetAlwaysHolds == Spec => []BudgetHolds
<1>1. ASSUME IInv PROVE BudgetHolds
  <2>1. admitted \in Nat /\ MaxAttempts \in Nat
    BY <1>1, CacheAssumption DEF IInv, Typed
  <2>2. use = "attempts" /\ oneProcess /\ ~faulted => ~(admitted > MaxAttempts)
    BY <1>1, <2>1 DEF IInv, BudgetInv, CountInv
  <2>3. backend = "db" \/ oneProcess
    BY <1>1 DEF IInv, Typed
  <2> HIDE DEF IInv
  <2> QED
    BY <2>2, <2>3, Zenon DEF BudgetHolds
<1> QED
  BY <1>1, Invariance, PTL

(* Whatever the number of handlers, calls, attempts and seconds, the       *)
(* counter that VerifyAdminSecret checks before the comparison and raises  *)
(* after it passes its budget by less than one count for each handler, on   *)
(* the in-memory store.                                                    *)
THEOREM OvershootIsAlwaysBounded == Spec => []OvershootIsBounded
<1>1. ASSUME IInv PROVE OvershootIsBounded
  <2> SUFFICES ASSUME use = "admin", backend = "in_memory", entry # None
               PROVE  entry.value <= MaxAttempts - 1 + Cardinality(Handlers)
    BY Zenon DEF OvershootIsBounded
  <2>1. \/ entry.value < MaxAttempts
        \/ entry.value + Cardinality(Counting) <= MaxAttempts - 1 + Cardinality(Handlers)
    BY <1>1, Zenon DEF IInv, OvershootInv, RoomLeft
  <2>2. Counting \in SUBSET Handlers
    BY Zenon DEF Counting
  <2>3. Cardinality(Counting) \in Nat /\ Cardinality(Handlers) \in Nat
    BY <2>2, Crowd, Zenon
  <2>4. entry.value \in Nat /\ MaxAttempts \in Nat
    BY <1>1, CacheAssumption DEF IInv, Typed, EntryT
  <2> QED
    BY <2>1, <2>3, <2>4
<1> QED
  BY <1>1, Invariance, PTL

(* SetCacheNX has one winner while the winner's mark lasts: on every back  *)
(* end until a mark of the key has expired once, whatever fails and        *)
(* however many processes there are, and on the in-memory store also       *)
(* afterwards, unless GetCache deleted a mark it had not read.             *)
THEOREM ClaimIsAlwaysExclusive == Spec => []ClaimIsExclusive
<1>1. IInv => ClaimIsExclusive
  BY DEF IInv, ClaimInv, MarkInv, ClaimIsExclusive
<1> QED
  BY <1>1, Invariance, PTL

-----------------------------------------------------------------------------
(* The in-memory counter is an indivisible one.                            *)

(* No statement fails on the in-memory store.                              *)
MemoryIsSound == backend = "in_memory" => ~faulted

(* The backend is chosen once, and only the database can fail.             *)
LEMMA MemoryKept == MemoryIsSound /\ [Next]_vars => MemoryIsSound'
<1>1. [Next]_vars => backend' = backend
  BY ZenonT(40), Zenon DEF Next, vars, config, ghosts, Step, Arrive, Load, Swap, Get,
         Judge, Lock, ReadRow, Drop, Insert, CompareFails, CompareSucceeds, CleanExpired, Tick
<1>2. [Next]_vars => backend = "db" \/ (faulted' => faulted)
  BY ZenonT(40), Zenon DEF Next, vars, config, ghosts, Step, Arrive, Load, Swap, Get,
         Judge, Lock, ReadRow, Drop, Insert, CompareFails, CompareSucceeds, CleanExpired, Tick
<1>3. "db" # "in_memory"
  OBVIOUS
<1> QED
  BY <1>1, <1>2, <1>3, Zenon DEF MemoryIsSound

(* Hence none ever did.                                                    *)
LEMMA AlwaysMemory == Spec => []MemoryIsSound
<1>1. Init => MemoryIsSound
  BY Zenon DEF Init, MemoryIsSound
<1> QED
  BY <1>1, MemoryKept, PTL DEF Spec

(* A handler that moves between two places other than the comparison.      *)
LEMMA MoveUnseen ==
    ASSUME NEW h \in Handlers, pc[h] # "compare", pc'[h] # "compare",
           \A g \in Handlers \ {h} : pc'[g] = pc[g], UNCHANGED <<entry, now>>
    PROVE  UNCHANGED Limiter!limiter
<1>1. Comparing' = Comparing
  BY Zenon DEF Comparing, At
<1>2. Counter' = Counter
  BY Zenon DEF Counter
<1> QED
  BY <1>1, <1>2, Zenon DEF Limiter!limiter

(* The winning compare-and-swap is the attempt.                            *)
LEMMA SwapIsAttempt ==
    ASSUME NEW h \in Handlers, Typed, CountsInMemory, CarryOf(h), Swap(h),
           entry = local[h].old, entry' = NewEntry(local[h]), Wrote(h)
    PROVE  Limiter!Attempt(h)
<1> DEFINE l == local[h]
<1>1. /\ local[h] \in LocalT /\ l.now <= now /\ now \in Nat /\ Control
      /\ entry \in EntryT \cup {None}
  BY Zenon DEF Typed, Control
<1>2. l.now \in 0..now /\ l.next \in Nat
  BY <1>1 DEF LocalT
<1>3. now' = now
  BY Zenon DEF Swap
<1>4. l.next = 1 + IF LiveEntry(entry, l.now) THEN entry.value ELSE 0
  BY Zenon DEF CarryOf, Swap, At
<1>5. Counter.value = (IF entry = None THEN 0 ELSE entry.value)
      /\ Counter.exp = (IF entry = None THEN 0 ELSE entry.exp)
  BY DEF Counter
<1>6. LiveEntry(entry, l.now) <=> entry # None /\ entry.exp >= l.now
  BY Zenon DEF LiveEntry, Live, CountsInMemory
<1>7. l.next = 1 + IF Counter.exp >= l.now THEN Counter.value ELSE 0
  BY <1>1, <1>2, <1>4, <1>5, <1>6 DEF EntryT
<1>8. Counter' = [value |-> l.next, exp |-> l.now + TtlSeconds]
  BY <1>1, NewEntryTyped DEF Counter
<1>9. local[h].op = "increment" /\ pc[h] = "swap"
  BY Zenon DEF CarryOf, Swap, At
<1>10. IF l.next <= MaxAttempts THEN Compare(h) ELSE Finish(h)
  BY <1>9, Zenon DEF Wrote, CountsInMemory
<1>11. /\ pc'[h] = IF l.next <= MaxAttempts THEN "compare" ELSE "idle"
       /\ \A g \in Handlers \ {h} : pc'[g] = pc[g]
  BY <1>1, <1>10, GotoElse, Zenon DEF Compare, Finish
<1>12. Comparing' = Comparing \cup (IF l.next <= MaxAttempts THEN {h} ELSE {})
  BY <1>9, <1>11 DEF Comparing, At
<1> HIDE DEF l
<1> QED
  BY <1>2, <1>3, <1>7, <1>8, <1>12, Zenon DEF Limiter!Attempt, Limiter!Slot

(* Every step of a call that counts in memory is a step of the limiter,    *)
(* or none that can be seen.                                               *)
LEMMA NextLimiter ==
    IInv /\ MemoryIsSound /\ [Next]_vars =>
        (CountsInMemory => [Limiter!Next]_(Limiter!limiter))
<1> SUFFICES ASSUME IInv, MemoryIsSound, [Next]_vars, CountsInMemory
             PROVE  Limiter!Next \/ UNCHANGED Limiter!limiter
  OBVIOUS
<1>0. Typed /\ Control /\ backend = "in_memory" /\ use = "attempts"
  BY Zenon DEF IInv, Typed, CountsInMemory
<1>1. \A h \in Handlers : CarryOf(h)
  <2>1. oneProcess /\ ~faulted
    BY <1>0, Zenon DEF Typed, MemoryIsSound
  <2> QED
    BY <1>0, <2>1, Zenon DEF IInv, BudgetInv
<1>2. \A h \in Handlers : pc[h] \notin {"get", "judge", "drop", "insert"}
  <2>1. backend # "db"
    BY <1>0
  <2> QED
    BY <1>1, <2>1, Zenon DEF CarryOf
<1>3. ASSUME NEW h \in Handlers, Arrive(h)
      PROVE  UNCHANGED Limiter!limiter
  <2>1. Begin(h, "increment", calls + 1) /\ pc[h] = "idle" /\ UNCHANGED <<entry, now>>
    BY <1>0, <1>3 DEF Arrive, At
  <2>2. pc'[h] = "load" /\ \A g \in Handlers \ {h} : pc'[g] = pc[g]
    BY <1>0, <2>1, GotoElse DEF Begin
  <2> QED
    BY <2>1, <2>2, MoveUnseen
<1>4. ASSUME NEW h \in Handlers, Load(h)
      PROVE  UNCHANGED Limiter!limiter
  <2>1. pc[h] = "load" /\ UNCHANGED <<entry, now>>
    BY <1>4, Zenon DEF Load, At
  <2>2. \E m : Finish(h) \/ Goto(h, "swap", m)
    BY <1>4, Zenon DEF Load
  <2>3. pc'[h] \in {"idle", "swap"} /\ \A g \in Handlers \ {h} : pc'[g] = pc[g]
    BY <1>0, <2>2, GotoElse, Zenon DEF Finish
  <2> QED
    BY <2>1, <2>3, MoveUnseen
<1>5. ASSUME NEW h \in Handlers, Swap(h)
      PROVE  Limiter!Attempt(h) \/ UNCHANGED Limiter!limiter
  <2>1. CASE entry = local[h].old /\ entry' = NewEntry(local[h]) /\ Wrote(h)
    BY <1>0, <1>1, <1>5, <2>1, SwapIsAttempt, Zenon
  <2>2. CASE Begin(h, local[h].op, local[h].id) /\ UNCHANGED entry
    <3>1. pc[h] = "swap" /\ UNCHANGED <<entry, now>>
      BY <1>5, <2>2, Zenon DEF Swap, At
    <3>2. pc'[h] \in {"get", "load"} /\ \A g \in Handlers \ {h} : pc'[g] = pc[g]
      BY <1>0, <2>2, GotoElse DEF Begin
    <3> QED
      BY <3>1, <3>2, MoveUnseen
  <2> QED
    BY <1>5, <2>1, <2>2, Zenon DEF Swap
<1>6. ASSUME NEW h \in Handlers, CompareFails(h)
      PROVE  Limiter!Fail(h)
  <2>1. pc[h] = "compare" /\ Finish(h) /\ entry' = entry /\ now' = now
    BY <1>0, <1>6 DEF CompareFails, At
  <2>2. pc'[h] = "idle" /\ \A g \in Handlers \ {h} : pc'[g] = pc[g]
    BY <1>0, <2>1, FinishOf, Zenon
  <2>3. h \in Comparing /\ Comparing' = Comparing \ {h}
    BY <2>1, <2>2 DEF Comparing, At
  <2>4. Counter' = Counter
    BY <2>1, Zenon DEF Counter
  <2> QED
    BY <2>1, <2>3, <2>4, Zenon DEF Limiter!Fail
<1>7. ASSUME NEW h \in Handlers, CompareSucceeds(h)
      PROVE  Limiter!Succeed(h)
  <2>1. pc[h] = "compare" /\ Finish(h) /\ entry' = None /\ now' = now
    BY <1>0, <1>7 DEF CompareSucceeds, At
  <2>2. pc'[h] = "idle" /\ \A g \in Handlers \ {h} : pc'[g] = pc[g]
    BY <1>0, <2>1, FinishOf, Zenon
  <2>3. h \in Comparing /\ Comparing' = Comparing \ {h}
    BY <2>1, <2>2 DEF Comparing, At
  <2>4. Counter' = Limiter!NoCount
    BY <2>1, Zenon DEF Counter, Limiter!NoCount
  <2> QED
    BY <2>1, <2>3, <2>4, Zenon DEF Limiter!Succeed
<1>8. ASSUME NEW h \in Handlers, Get(h) \/ Judge(h) \/ Lock(h) \/ ReadRow(h) \/ Drop(h) \/ Insert(h)
      PROVE  FALSE
  <2>1. backend # "db"
    BY <1>0
  <2> QED
    BY <1>2, <1>8, <2>1, Zenon DEF Get, Judge, Lock, ReadRow, Drop, Insert, At
<1>9. ASSUME CleanExpired PROVE FALSE
  BY <1>0, <1>9 DEF CleanExpired
<1>10. ASSUME Tick PROVE Limiter!Tick
  BY <1>10, Zenon DEF Tick, Limiter!Tick, Counter, Comparing, At
<1>11. ASSUME UNCHANGED vars PROVE UNCHANGED Limiter!limiter
  BY <1>11, Zenon DEF vars, Limiter!limiter, Counter, Comparing, At
<1> QED
  BY <1>3, <1>4, <1>5, <1>6, <1>7, <1>8, <1>9, <1>10, <1>11, Zenon
  DEF Next, Step, Limiter!Next

(* On the in-memory store, for every number of handlers, calls, attempts   *)
(* and seconds, IncrementCache implements the indivisible counter: the     *)
(* compare-and-swap loop never loses, doubles or misreports an attempt.    *)
THEOREM AttemptsAreAlwaysAtomic == Spec => AttemptsAreAtomic
<1>1. Init => (CountsInMemory => Limiter!Init)
  <2> SUFFICES ASSUME Init PROVE Limiter!Init
    OBVIOUS
  <2>1. Comparing = {}
    BY DEF Init, Comparing, At
  <2>2. Counter = Limiter!NoCount /\ now = 0
    BY DEF Init, Counter, Limiter!NoCount
  <2> QED
    BY <2>1, <2>2, Zenon DEF Limiter!Init
<1>2. IInv /\ MemoryIsSound /\ [Next]_vars =>
          [CountsInMemory => [Limiter!Next]_(Limiter!limiter)]_vars
  BY NextLimiter
<1> QED
  BY <1>1, <1>2, Invariance, AlwaysMemory, PTL DEF Spec, AttemptsAreAtomic

-----------------------------------------------------------------------------
(* Whoever holds the mutex of a process is inside IncrementCache of the    *)
(* table, between taking it and the end of the insert.                     *)
HolderRuns ==
    mutex # None =>
        /\ backend = "db" /\ local[mutex].op = "increment"
        /\ pc[mutex] \in {"get", "judge", "drop", "insert"}

(* Lock hands the mutex to a handler that runs; the others keep it there.  *)
LEMMA HolderNext == Typed /\ HolderRuns /\ [Next]_vars => HolderRuns'
<1> SUFFICES ASSUME Typed, HolderRuns, [Next]_vars, mutex' # None
             PROVE  HolderRuns'
  BY Zenon DEF HolderRuns
<1> USE DEF config, ghosts
<1> DEFINE Held(h) == /\ backend = "db" /\ local[h].op = "increment"
                      /\ pc[h] \in {"get", "judge", "drop", "insert"}
<1>0. /\ Control /\ \A h \in Handlers : local[h] \in LocalT
      /\ mutex \in Handlers \cup {None} /\ None \notin Handlers
  BY CacheAssumption, Zenon DEF Typed, Control
<1>a. mutex # None => mutex \in Handlers /\ Held(mutex)
  BY <1>0, Zenon DEF HolderRuns
<1>b. backend' = backend
  BY ZenonT(40), Zenon DEF Next, vars, config, ghosts, Step, Arrive, Load, Swap, Get,
         Judge, Lock, ReadRow, Drop, Insert, CompareFails, CompareSucceeds, CleanExpired, Tick
<1>c. ASSUME NEW h \in Handlers, NEW label, NEW l, Goto(h, label, l), mutex' = mutex,
             mutex = h => label \in {"get", "judge", "drop", "insert"} /\ l.op = "increment"
      PROVE  HolderRuns'
  <2>1. /\ pc'[h] = label /\ local'[h] = l
        /\ \A g \in Handlers \ {h} : pc'[g] = pc[g] /\ local'[g] = local[g]
    BY <1>0, <1>c, GotoElse
  <2>2. mutex \in Handlers /\ Held(mutex)
    BY <1>a, <1>c, Zenon
  <2>3. CASE mutex = h
    BY <1>b, <1>c, <2>1, <2>2, <2>3, Zenon DEF HolderRuns
  <2>4. CASE mutex # h
    BY <1>b, <1>c, <2>1, <2>2, <2>4, Zenon DEF HolderRuns
  <2> QED
    BY <2>3, <2>4
<1>1. ASSUME NEW h \in Handlers, mutex # h, mutex' = mutex, \E label, l : Goto(h, label, l)
      PROVE  HolderRuns'
  BY <1>1, <1>c, Zenon
<1>2. ASSUME NEW h \in Handlers,
             Arrive(h) \/ Load(h) \/ Swap(h) \/ ReadRow(h) \/ CompareFails(h) \/ CompareSucceeds(h)
      PROVE  HolderRuns'
  <2>1. pc[h] \in {"idle", "load", "swap", "compare"} /\ mutex' = mutex
    BY <1>2, Zenon DEF Arrive, Load, Swap, ReadRow, CompareFails, CompareSucceeds, At
  <2>2. mutex # h
    BY <1>a, <2>1
  <2>3. \E label, l : Goto(h, label, l)
    BY <1>2, Zenon DEF Arrive, Load, Swap, ReadRow, CompareFails, CompareSucceeds,
           Begin, Finish, Compare, Wrote
  <2> QED
    BY <1>1, <2>1, <2>2, <2>3, Zenon
<1>3. ASSUME NEW h \in Handlers, Get(h)
      PROVE  HolderRuns'
  <2>1. PICK o : Goto(h, "judge", [local[h] EXCEPT !.old = o])
    BY <1>3, Zenon DEF Get
  <2>2. [local[h] EXCEPT !.old = o].op = local[h].op
    BY <1>0 DEF LocalT
  <2>3. mutex' = mutex
    BY <1>3, Zenon DEF Get
  <2> QED
    BY <1>a, <1>c, <2>1, <2>2, <2>3, Zenon
<1>4. ASSUME NEW h \in Handlers, Judge(h)
      PROVE  HolderRuns'
  <2>1. mutex' = mutex
    BY <1>4, Zenon DEF Judge
  <2>2. PICK v : Returns(h, v)
    BY <1>4, Zenon DEF Judge
  <2>3. CASE mutex = h
    <3> DEFINE l == [op |-> local[h].op, now |-> now, old |-> None,
                     next |-> v + 1, id |-> local[h].id]
    <3>1. local[h].op = "increment"
      BY <1>a, <2>1, <2>3, Zenon
    <3>2. Goto(h, "drop", l)
      BY <2>2, <3>1 DEF Returns
    <3>3. l.op = "increment"
      BY <3>1
    <3> HIDE DEF l
    <3> QED
      BY <1>c, <2>1, <3>2, <3>3, Zenon
  <2>4. CASE mutex # h
    <3>1. \E label, l : Goto(h, label, l)
      BY <2>2 DEF Returns, Finish, Compare, Begin
    <3> QED
      BY <1>1, <2>1, <2>4, <3>1, Zenon
  <2> QED
    BY <2>3, <2>4
<1>5. ASSUME NEW h \in Handlers, Lock(h)
      PROVE  HolderRuns'
  <2> DEFINE l == [local[h] EXCEPT !.now = 0]
  <2>1. l.op = "increment"
    BY <1>0, <1>5 DEF LocalT, Lock
  <2>2. Goto(h, "get", l) /\ mutex' = h /\ backend = "db"
    BY <1>5, Zenon DEF Lock
  <2> HIDE DEF l
  <2>3. pc'[h] = "get" /\ local'[h] = l
    BY <1>0, <2>2, GotoElse, Zenon
  <2> QED
    BY <1>b, <2>1, <2>2, <2>3, Zenon DEF HolderRuns
<1>6. ASSUME NEW h \in Handlers, Drop(h)
      PROVE  HolderRuns'
  BY <1>6, <1>a, <1>c, Zenon DEF Drop
<1>7. ASSUME NEW h \in Handlers, Insert(h)
      PROVE  HolderRuns'
  <2>1. mutex # h /\ mutex' = mutex
    BY <1>7, Zenon DEF Insert, Unlock
  <2>2. \E label, l : Goto(h, label, l)
    BY <1>7, Zenon DEF Insert, Wrote, Finish, Compare
  <2> QED
    BY <1>1, <2>1, <2>2, Zenon
<1>8. CASE CleanExpired \/ Tick \/ UNCHANGED vars
  <2>1. UNCHANGED <<mutex, pc, local>>
    BY <1>8, Zenon DEF CleanExpired, Tick, vars
  <2> QED
    BY <1>b, <2>1, Zenon DEF HolderRuns
<1> QED
  BY <1>2, <1>3, <1>4, <1>5, <1>6, <1>7, <1>8, Zenon DEF Next, Step

(* Nobody ever waits for a mutex whose holder has returned, compares a     *)
(* secret or waits itself: incrementMutex is only held by a handler that   *)
(* is between its Lock and the end of its insert, where every step can be  *)
(* taken at once.  For every number of handlers, calls and failures.       *)
THEOREM MutexHolderAlwaysRuns == Spec => []HolderRuns
<1>1. Init => HolderRuns
  BY Zenon DEF Init, HolderRuns
<1>2. IInv => Typed
  BY Zenon DEF IInv
<1> QED
  BY <1>1, <1>2, HolderNext, Invariance, PTL DEF Spec

=============================================================================
