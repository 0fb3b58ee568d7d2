------------------------------- MODULE Locks --------------------------------
(***************************************************************************)
(* Base/SpinLock, Base/Mutex and Base/RWLock with their scoped locks, over *)
(* the Linux and Posix functions: construction, moves and destruction of   *)
(* lock objects while threads construct, move and destroy scoped locks on  *)
(* them.  A lock object holds the address of a lock allocated by its       *)
(* constructor.  A thread that cannot have a lock waits: its step is not   *)
(* enabled.                                                                *)
(*                                                                         *)
(* The spin lock's functions lock the bytes of the handle, not what it     *)
(* points to: a non-zero address is a taken lock (the kernel's queued spin *)
(* lock), so only a moved-from SpinLock, whose handle is zero, is granted. *)
(***************************************************************************)
EXTENDS Integers, FiniteSets

CONSTANTS
  Lock,       \* lock objects
  Native,     \* locks of the operating system, each allocated once
  Guard,      \* scoped locks
  Undefined,  \* ZQ_UNDEFINED_SPINLOCK, ZQ_UNDEFINED_MUTEX, ZQ_UNDEFINED_RWLOCK: zero
  Taken,      \* the word of a zero handle after spin_lock
  Gone        \* an object that is not constructed, or a scoped lock's nullptr

VARIABLES
  kind,       \* which of the three classes
  mLock,      \* the member of each lock object
  freed,      \* how often each native lock was freed; -1: not yet allocated
  readers, writer,  \* the state of each native lock
  guard,      \* of each scoped lock: the object it points to and how it locked it
  disturbed,  \* history: an object was moved or destroyed under a scoped lock
  crashed     \* a null pointer was dereferenced

vars == <<kind, mLock, freed, readers, writer, guard, disturbed, crashed>>

Mode == {"read", "write"}

TypeOK ==
  /\ kind \in {"spin", "mutex", "rw"}
  /\ mLock \in [Lock -> Native \cup {Undefined, Taken, Gone}]
  /\ freed \in [Native -> -1..2]
  /\ readers \in [Native -> Int] /\ writer \in [Native -> BOOLEAN]
  /\ guard \in [Guard -> [on : Lock \cup {Gone}, mode : Mode]]
  /\ disturbed \in BOOLEAN /\ crashed \in BOOLEAN

Nothing == [on |-> Gone, mode |-> "read"]

Init ==
  /\ kind \in {"spin", "mutex", "rw"}
  /\ mLock = [l \in Lock |-> Gone]
  /\ freed = [n \in Native |-> -1]
  /\ readers = [n \in Native |-> 0] /\ writer = [n \in Native |-> FALSE]
  /\ guard = [g \in Guard |-> Nothing]
  /\ disturbed = FALSE /\ crashed = FALSE

-----------------------------------------------------------------------------
GuardsOn(l) == {g \in Guard : guard[g].on = l}
Disturb(ls) == disturbed' = (disturbed \/ \E l \in ls : GuardsOn(l) # {})

Crash ==
  /\ crashed' = TRUE
  /\ UNCHANGED <<kind, mLock, freed, readers, writer, guard, disturbed>>

\* ZqSpinLockInit, ZqMutexInit, ZqRWLockInit.
Construct(l, n) ==
  /\ mLock[l] = Gone /\ freed[n] = -1
  /\ mLock' = [mLock EXCEPT ![l] = n]
  /\ freed' = [freed EXCEPT ![n] = 0]
  /\ UNCHANGED <<kind, readers, writer, guard, disturbed, crashed>>

\* ZqSpinLockDeinit, ZqMutexDeinit, ZqRWLockDeinit; freeing zero does nothing.
Deinit(h) == IF h \in Native THEN [freed EXCEPT ![h] = @ + 1] ELSE freed

\* The destructors.  ~Mutex asserts that TryLock succeeds, which only logs.
Destroy(l) ==
  /\ mLock[l] # Gone
  /\ freed' = Deinit(mLock[l])
  /\ mLock' = [mLock EXCEPT ![l] = Gone]
  /\ Disturb({l})
  /\ UNCHANGED <<kind, readers, writer, guard, crashed>>

\* mLock = other.mLock; other.mLock = UNDEFINED.
CopyHandle(l, other) == [mLock EXCEPT ![l] = mLock[other]]
TakeHandle(l, other) == [mLock EXCEPT ![l] = mLock[other], ![other] = Undefined]

Move(l, other) ==
  /\ mLock[l] = Gone /\ mLock[other] # Gone
  /\ mLock' = TakeHandle(l, other)
  /\ Disturb({other})
  /\ UNCHANGED <<kind, freed, readers, writer, guard, crashed>>

\* operator=: SpinLock tests for a moved-from target, RWLock frees zero, and
\* Mutex tries to lock it first.
AssignMoved(l, other) ==
  /\ mLock[l] # Gone /\ mLock[other] # Gone
  /\ IF kind = "mutex" /\ mLock[l] = Undefined THEN Crash ELSE
       /\ freed' = Deinit(mLock[l])
       /\ mLock' = TakeHandle(l, other)
       /\ Disturb({l, other})
       /\ UNCHANGED <<kind, readers, writer, guard, crashed>>

-----------------------------------------------------------------------------
\* ZqMutexLock and ZqRWLockLock{Read,Write} on what the handle points to.
LockNative(n, mode) ==
  /\ ~writer[n] /\ (mode = "write" => readers[n] = 0)
  /\ writer' = [writer EXCEPT ![n] = (mode = "write")]
  /\ readers' = [readers EXCEPT ![n] = IF mode = "read" THEN @ + 1 ELSE @]
  /\ UNCHANGED <<mLock, crashed>>

\* ScopedLock, ScopedReadLock and ScopedWriteLock: the constructor.
Points(g, l, mode) ==
  /\ guard[g].on = Gone /\ mLock[l] # Gone
  /\ guard' = [guard EXCEPT ![g] = [on |-> l, mode |-> mode]]
  /\ UNCHANGED <<kind, freed, disturbed>>

Hold(g, l, mode) ==
  /\ Points(g, l, mode)
  /\ \/ mLock[l] = Undefined /\ crashed' = TRUE /\ UNCHANGED <<mLock, readers, writer>>
     \/ mLock[l] \in Native /\ LockNative(mLock[l], mode)

HoldSpin(g, l) ==
  /\ Points(g, l, "write")
  /\ mLock[l] = Undefined
  /\ mLock' = [mLock EXCEPT ![l] = Taken]
  /\ UNCHANGED <<readers, writer, crashed>>

\* Its destructor unlocks what the object holds by now.  What happens to a scoped
\* lock whose object is gone, or whose spin lock was replaced, is not followed.
UnlockNative(n, mode) ==
  /\ writer' = [writer EXCEPT ![n] = @ /\ mode # "write"]
  /\ readers' = [readers EXCEPT ![n] = IF mode = "read" THEN @ - 1 ELSE @]

ReleaseSpin(l) ==
  /\ mLock[l] = Taken
  /\ mLock' = [mLock EXCEPT ![l] = Undefined]
  /\ UNCHANGED <<readers, writer, crashed>>

Release(g) ==
  LET l == guard[g].on IN
  /\ l # Gone /\ mLock[l] # Gone
  /\ guard' = [guard EXCEPT ![g] = Nothing]
  /\ \/ kind = "spin" /\ ReleaseSpin(l)
     \/ kind # "spin" /\ mLock[l] \in Native
        /\ UnlockNative(mLock[l], guard[g].mode) /\ UNCHANGED <<mLock, crashed>>
     \/ mLock[l] = Undefined
        /\ crashed' = (kind # "spin") /\ UNCHANGED <<mLock, readers, writer>>
  /\ UNCHANGED <<kind, freed, disturbed>>

\* The move constructor of a scoped lock nulls the other.
KeepGuard(g, other) == [guard EXCEPT ![g] = guard[other]]
TakeGuard(g, other) == [guard EXCEPT ![g] = guard[other], ![other] = Nothing]

MoveGuard(g, other) ==
  /\ guard[g].on = Gone /\ guard[other].on # Gone
  /\ guard' = TakeGuard(g, other)
  /\ UNCHANGED <<kind, mLock, freed, readers, writer, disturbed, crashed>>

\* RWLocked::getRead and getWrite, SpinLocked::get: the scoped lock in the pair
\* is the one constructed, moved there or not.  A mutex is locked for writing.
GetRead(g, l) == kind = "rw" /\ Hold(g, l, "read")
GetWrite(g, l) == kind # "spin" /\ Hold(g, l, "write")
Get(g, l) == kind = "spin" /\ HoldSpin(g, l)

Next ==
  /\ ~crashed
  /\ \/ \E l \in Lock, n \in Native : Construct(l, n)
     \/ \E l \in Lock : Destroy(l)
     \/ \E l, other \in Lock : Move(l, other) \/ AssignMoved(l, other)
     \/ \E g \in Guard, l \in Lock : GetRead(g, l) \/ GetWrite(g, l) \/ Get(g, l)
     \/ \E g \in Guard : Release(g)
     \/ \E g, other \in Guard : MoveGuard(g, other)

Spec == Init /\ [][Next]_vars

-----------------------------------------------------------------------------
\* Unless an object is moved or destroyed under a scoped lock, a writer is alone
\* on its lock, and the native lock is taken exactly as the scoped locks say,
\* through every move of the objects and of the scoped locks (SpinLock.hpp 46-88,
\* Mutex.hpp 49-93, RWLock.hpp 47-116).
GuardsExclude ==
  ~disturbed /\ ~crashed =>
    \A l \in Lock :
      LET on == GuardsOn(l)
          writes == {g \in on : guard[g].mode = "write"}
      IN /\ writes # {} => Cardinality(on) = 1
         /\ mLock[l] \in Native =>
              writer[mLock[l]] = (writes # {}) /\ readers[mLock[l]] = Cardinality(on \ writes)

\* A native lock is freed once, by the one object that holds it, whatever is
\* moved onto what (SpinLock.hpp 37-60, Mutex.hpp 38-65, RWLock.hpp 38-60).
NativeOwnedOnce ==
  \A n \in Native :
    Cardinality({l \in Lock : mLock[l] = n}) = (IF freed[n] = 0 THEN 1 ELSE 0) /\ freed[n] < 2
=============================================================================
