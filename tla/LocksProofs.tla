---------------------------- MODULE LocksProofs -----------------------------
(***************************************************************************)
(* Proofs about Locks, for any sets of lock objects, native locks and      *)
(* scoped locks.                                                           *)
(***************************************************************************)
EXTENDS MCCore, Integers, FiniteSetTheorems, TLAPS

\* Objects that hold a native lock hold it alone, until it is freed.
OwnInv ==
  /\ mLock \in [Lock -> Native \cup {Undefined, Taken, Gone}]
  /\ freed \in [Native -> {-1, 0, 1}]
  /\ \A l, k \in Lock : mLock[l] \in Native /\ mLock[l] = mLock[k] => l = k
  /\ \A n \in Native : freed[n] = 0 <=> \E l \in Lock : mLock[l] = n

\* The scoped locks on an object, by how they locked it.
Reads(l) == {g \in Guard : guard[g].on = l /\ guard[g].mode = "read"}
Writes(l) == {g \in Guard : guard[g].on = l /\ guard[g].mode = "write"}

\* The scoped locks on an object exclude each other, and the native lock that
\* it holds, or the word of a spin lock, is taken as they say.
LockOK(l) ==
  /\ IsFiniteSet(Reads(l))
  /\ Writes(l) # {} => Reads(l) = {} /\ \E g \in Guard : Writes(l) = {g}
  /\ mLock[l] \in Native =>
       (writer[mLock[l]] <=> Writes(l) # {}) /\ readers[mLock[l]] = Cardinality(Reads(l))
  /\ Reads(l) \cup Writes(l) # {} =>
       IF kind = "spin" THEN mLock[l] = Taken /\ Reads(l) = {} ELSE mLock[l] \in Native

\* What GuardsExclude needs: as long as no object was moved or destroyed under a
\* scoped lock, every object is right and a native lock not yet allocated is free.
GuardInv ==
  /\ OwnInv
  /\ kind \in {"spin", "mutex", "rw"}
  /\ readers \in [Native -> Int] /\ writer \in [Native -> BOOLEAN]
  /\ guard \in [Guard -> [on : Lock \cup {Gone}, mode : L!Mode]]
  /\ disturbed \in BOOLEAN /\ lockCrash \in BOOLEAN
  /\ ~disturbed /\ ~lockCrash =>
       /\ \A l \in Lock : LockOK(l)
       /\ \A n \in Native : freed[n] = -1 => ~writer[n] /\ readers[n] = 0

-----------------------------------------------------------------------------
\* The Cardinality that Locks uses is the one the library's theorems are about.
LEMMA SameCardinality == ASSUME NEW X PROVE L!Cardinality(X) = Cardinality(X)
  BY DEF L!Cardinality, Cardinality

\* mLock = other.mLock; other.mLock = UNDEFINED: the handle has one holder again.
LEMMA TakeHandleOwned ==
  ASSUME OwnInv, NEW l \in Lock, NEW other \in Lock, mLock[other] # Gone,
         mLock' = L!TakeHandle(l, other),
         freed' = L!Deinit(mLock[l])
  PROVE  OwnInv'
  <1> USE LockAssumption DEF OwnInv, L!TakeHandle, L!Deinit
  <1>1. mLock' \in [Lock -> Native \cup {Undefined, Taken, Gone}]
    OBVIOUS
  <1>2. freed' \in [Native -> {-1, 0, 1}]
    OBVIOUS
  <1>3. \A a, b \in Lock : mLock'[a] \in Native /\ mLock'[a] = mLock'[b] => a = b
    OBVIOUS
  <1>4. ASSUME NEW n \in Native PROVE freed'[n] = 0 <=> \E a \in Lock : mLock'[a] = n
    OBVIOUS
  <1> QED
    BY <1>1, <1>2, <1>3, <1>4

\* Every step keeps the native locks owned.
LEMMA OwnStep == OwnInv /\ [L!Next]_L!vars => OwnInv'
  <1> SUFFICES ASSUME OwnInv, [L!Next]_L!vars PROVE OwnInv'
    OBVIOUS
  <1> USE LockAssumption
  <1>1. ASSUME NEW l \in Lock, NEW n \in Native, L!Construct(l, n) PROVE OwnInv'
    BY <1>1 DEF L!Construct, OwnInv
  <1>2. ASSUME NEW l \in Lock, L!Destroy(l) PROVE OwnInv'
    BY <1>2 DEF L!Destroy, L!Deinit, OwnInv
  <1>3. ASSUME NEW l \in Lock, NEW other \in Lock, L!Move(l, other) PROVE OwnInv'
    BY <1>3, TakeHandleOwned DEF L!Move, L!Deinit
  <1>4. ASSUME NEW l \in Lock, NEW other \in Lock, L!AssignMoved(l, other) PROVE OwnInv'
    <2>1. CASE L!Crash
      BY <2>1 DEF L!Crash, OwnInv
    <2>2. CASE ~L!Crash
      BY <1>4, <2>2, TakeHandleOwned DEF L!AssignMoved
    <2> QED
      BY <2>1, <2>2
  <1>5. ASSUME NEW g \in Guard, NEW l \in Lock, L!GetRead(g, l) \/ L!GetWrite(g, l) \/ L!Get(g, l)
        PROVE  OwnInv'
    BY <1>5 DEF L!GetRead, L!GetWrite, L!Get, L!Hold, L!HoldSpin, L!Points, L!LockNative, OwnInv
  <1>6. ASSUME NEW g \in Guard, L!Release(g) PROVE OwnInv'
    BY <1>6 DEF L!Release, L!ReleaseSpin, OwnInv
  <1>7. ASSUME NEW g \in Guard, NEW other \in Guard, L!MoveGuard(g, other) PROVE OwnInv'
    BY <1>7 DEF L!MoveGuard, OwnInv
  <1>8. CASE UNCHANGED L!vars
    BY <1>8 DEF L!vars, OwnInv
  <1> QED
    BY <1>1, <1>2, <1>3, <1>4, <1>5, <1>6, <1>7, <1>8 DEF L!Next

\* No object holds a native lock before the first is constructed.
LEMMA OwnInit == L!Init => OwnInv
  BY LockAssumption DEF L!Init, OwnInv

\* A native lock is freed once, by the one object that holds it, whatever is
\* moved onto what.
THEOREM NativeAlwaysOwnedOnce == L!Spec => []NativeOwnedOnce
  <1>1. OwnInv => NativeOwnedOnce
    <2> SUFFICES ASSUME OwnInv, NEW n \in Native
                 PROVE  /\ Cardinality({l \in Lock : mLock[l] = n}) = (IF freed[n] = 0 THEN 1 ELSE 0)
                        /\ freed[n] < 2
      BY SameCardinality DEF NativeOwnedOnce, L!NativeOwnedOnce
    <2>1. freed[n] < 2
      BY DEF OwnInv
    <2>2. CASE freed[n] = 0
      <3>1. PICK l \in Lock : mLock[l] = n
        BY <2>2 DEF OwnInv
      <3>2. {k \in Lock : mLock[k] = n} = {l}
        BY <3>1 DEF OwnInv
      <3> QED
        BY <2>1, <2>2, <3>2, FS_Singleton
    <2>3. CASE freed[n] # 0
      <3>1. {k \in Lock : mLock[k] = n} = {}
        BY <2>3 DEF OwnInv
      <3> QED
        BY <2>1, <2>3, <3>1, FS_EmptySet
    <2> QED
      BY <2>2, <2>3
  <1> QED
    BY <1>1, OwnInit, OwnStep, PTL DEF L!Spec

-----------------------------------------------------------------------------
\* An object's scoped locks are told by the guard array alone, so a step that
\* leaves them and the object's lock as they are leaves LockOK.
LEMMA LockOKUnchanged ==
  ASSUME NEW l \in Lock, LockOK(l),
         UNCHANGED <<kind, guard>>, mLock'[l] = mLock[l],
         mLock[l] \in Native => writer'[mLock[l]] = writer[mLock[l]] /\ readers'[mLock[l]] = readers[mLock[l]]
  PROVE  LockOK(l)'
  <1>1. Reads(l)' = Reads(l) /\ Writes(l)' = Writes(l)
    BY DEF Reads, Writes
  <1> QED
    BY <1>1 DEF LockOK

\* An object that gets a free native lock, or none, has no scoped lock on it.
LEMMA LockOKNew ==
  ASSUME NEW l \in Lock, LockOK(l), Reads(l) \cup Writes(l) = {},
         UNCHANGED <<kind, guard>>,
         mLock'[l] \in Native => ~writer'[mLock'[l]] /\ readers'[mLock'[l]] = 0
  PROVE  LockOK(l)'
  <1>1. Reads(l)' = {} /\ Writes(l)' = {}
    BY DEF Reads, Writes
  <1> QED
    BY <1>1, FS_EmptySet DEF LockOK

\* Objects without scoped locks may be moved onto each other or destroyed.
LEMMA MoveGuardInv ==
  ASSUME GuardInv, OwnInv', NEW moved \in SUBSET Lock, L!Disturb(moved),
         UNCHANGED <<kind, readers, writer, guard, lockCrash>>,
         mLock' \in [Lock -> Native \cup {Undefined, Taken, Gone}],
         \A n \in Native : freed'[n] = -1 <=> freed[n] = -1,
         \A l \in Lock \ moved : \/ mLock'[l] = mLock[l]
                                 \/ mLock[l] = Gone /\ \E k \in moved : mLock'[l] = mLock[k],
         \A l \in moved : \/ mLock'[l] \notin Native
                          \/ \E k \in moved : mLock'[l] = mLock[k]
  PROVE  GuardInv'
  <1> USE LockAssumption
  <1>1. disturbed' \in BOOLEAN /\ (disturbed => disturbed')
        /\ \A l \in moved : L!GuardsOn(l) # {} => disturbed'
    BY DEF L!Disturb, GuardInv
  <1>2. CASE disturbed' \/ lockCrash
    BY <1>1, <1>2 DEF GuardInv
  <1>3. CASE ~disturbed' /\ ~lockCrash
    <2>1. \A l \in Lock : LockOK(l)
      BY <1>1, <1>3 DEF GuardInv
    <2>2. \A l \in moved : Reads(l) \cup Writes(l) = {}
      BY <1>1, <1>3 DEF Reads, Writes, L!GuardsOn
    <2>3. \A l \in moved : mLock[l] \in Native => ~writer[mLock[l]] /\ readers[mLock[l]] = 0
      BY <2>1, <2>2, FS_EmptySet DEF LockOK
    <2>4. ASSUME NEW l \in Lock, mLock[l] = Gone PROVE Reads(l) \cup Writes(l) = {}
      BY <2>1, <2>4 DEF LockOK
    <2>5. ASSUME NEW l \in Lock PROVE LockOK(l)'
      <3>1. CASE l \in moved
        BY <2>1, <2>2, <2>3, <3>1, LockOKNew
      <3>2. CASE l \notin moved /\ mLock'[l] = mLock[l]
        BY <2>1, <3>2, LockOKUnchanged
      <3>3. CASE l \notin moved /\ mLock'[l] # mLock[l]
        BY <2>1, <2>3, <2>4, <3>3, LockOKNew
      <3> QED
        BY <3>1, <3>2, <3>3
    <2> QED
      BY <1>1, <1>3, <2>5 DEF GuardInv
  <1> QED
    BY <1>1, <1>2, <1>3 DEF GuardInv

\* The constructor of a scoped lock.
LEMMA HoldInv ==
  ASSUME GuardInv, OwnInv', NEW g \in Guard, NEW l \in Lock, NEW mode \in {"read", "write"},
         L!Points(g, l, mode),
         \/ kind # "spin" /\ mLock[l] \in Native /\ L!LockNative(mLock[l], mode)
         \/ kind = "spin" /\ mode = "write" /\ L!HoldSpin(g, l)
  PROVE  GuardInv'
  <1> USE LockAssumption DEF L!Points
  <1>1. /\ guard' \in [Guard -> [on : Lock \cup {Gone}, mode : L!Mode]]
        /\ readers' \in [Native -> Int] /\ writer' \in [Native -> BOOLEAN]
        /\ UNCHANGED <<kind, disturbed, lockCrash, freed>>
    <2>1. guard' \in [Guard -> [on : Lock \cup {Gone}, mode : L!Mode]]
      BY DEF GuardInv, L!Mode
    <2>2. writer' \in [Native -> BOOLEAN]
      <3>1. (mode = "write") \in BOOLEAN
        OBVIOUS
      <3> QED
        BY <3>1 DEF GuardInv, L!LockNative, L!HoldSpin
    <2>3. readers' \in [Native -> Int] /\ UNCHANGED <<kind, disturbed, lockCrash, freed>>
      BY DEF GuardInv, L!LockNative, L!HoldSpin
    <2> QED
      BY <2>1, <2>2, <2>3
  <1>2. CASE disturbed \/ lockCrash
    BY <1>1, <1>2 DEF GuardInv
  <1>3. CASE ~disturbed /\ ~lockCrash
    <2>1. \A k \in Lock : LockOK(k)
      BY <1>3 DEF GuardInv
    <2>2. ASSUME NEW k \in Lock \ {l} PROVE Reads(k)' = Reads(k) /\ Writes(k)' = Writes(k)
      BY DEF Reads, Writes, GuardInv
    <2>3. IF mode = "read" THEN Reads(l)' = Reads(l) \cup {g} /\ Writes(l)' = Writes(l)
                           ELSE Writes(l)' = Writes(l) \cup {g} /\ Reads(l)' = Reads(l)
      BY DEF Reads, Writes, GuardInv
    <2>4. g \notin Reads(l) \cup Writes(l)
      BY DEF Reads, Writes
    <2>5. ASSUME NEW k \in Lock \ {l} PROVE LockOK(k)'
      <3>1. /\ mLock'[k] = mLock[k]
            /\ mLock[k] \in Native =>
                 writer'[mLock[k]] = writer[mLock[k]] /\ readers'[mLock[k]] = readers[mLock[k]]
        BY DEF GuardInv, OwnInv, L!LockNative, L!HoldSpin
      <3> QED
        BY <1>1, <2>1, <2>2, <3>1 DEF LockOK
    <2>6. LockOK(l)'
      <3>1. CASE kind = "spin"
        <4>1. Reads(l) = {} /\ Writes(l) = {} /\ mLock'[l] = Taken
          BY <2>1, <3>1 DEF LockOK, L!HoldSpin, GuardInv, OwnInv
        <4>2. mode = "write" /\ kind' = "spin"
          BY <1>1, <3>1
        <4>3. Writes(l)' = {g} /\ Reads(l)' = {}
          BY <2>3, <4>1, <4>2
        <4>4. IsFiniteSet({}) /\ Taken \notin Native
          BY FS_EmptySet
        <4> QED
          BY <4>1, <4>2, <4>3, <4>4 DEF LockOK
      <3>2. CASE kind # "spin" /\ mode = "read"
        <4>1. Writes(l) = {} /\ UNCHANGED mLock /\ ~writer'[mLock[l]]
              /\ mLock[l] \in Native /\ readers'[mLock[l]] = readers[mLock[l]] + 1
          BY <2>1, <3>2 DEF LockOK, L!LockNative, GuardInv
        <4>2. IsFiniteSet(Reads(l)) /\ readers[mLock[l]] = Cardinality(Reads(l))
          BY <2>1, <4>1 DEF LockOK
        <4>3. IsFiniteSet(Reads(l)') /\ Cardinality(Reads(l)') = Cardinality(Reads(l)) + 1
          BY <2>3, <2>4, <3>2, <4>2, FS_AddElement
        <4>4. /\ Writes(l)' = {} /\ readers'[mLock'[l]] = Cardinality(Reads(l)')
              /\ mLock'[l] \in Native /\ ~writer'[mLock'[l]] /\ kind' # "spin"
          BY <1>1, <2>3, <3>2, <4>1, <4>2, <4>3
        <4> QED
          BY <4>3, <4>4 DEF LockOK
      <3>3. CASE kind # "spin" /\ mode = "write"
        <4>1. /\ mLock[l] \in Native /\ UNCHANGED mLock /\ ~writer[mLock[l]] /\ readers[mLock[l]] = 0
              /\ writer'[mLock[l]] /\ readers'[mLock[l]] = 0
          BY <3>3 DEF L!LockNative, GuardInv
        <4>2. Writes(l) = {} /\ IsFiniteSet(Reads(l)) /\ Cardinality(Reads(l)) = 0
          BY <2>1, <4>1 DEF LockOK
        <4>3. Reads(l) = {}
          BY <4>2, FS_EmptySet
        <4>4. /\ Writes(l)' = {g} /\ Reads(l)' = {} /\ readers'[mLock'[l]] = 0
              /\ mLock'[l] \in Native /\ writer'[mLock'[l]] /\ kind' # "spin"
          BY <1>1, <2>3, <3>3, <4>1, <4>2, <4>3
        <4> QED
          BY <4>4, FS_EmptySet DEF LockOK
      <3> QED
        BY <3>1, <3>2, <3>3
    <2>7. \A n \in Native : freed'[n] = -1 => ~writer'[n] /\ readers'[n] = 0
      BY <1>1, <1>3 DEF GuardInv, OwnInv, L!LockNative, L!HoldSpin
    <2> QED
      BY <1>1, <2>5, <2>6, <2>7 DEF GuardInv
  <1> QED
    BY <1>1, <1>2, <1>3 DEF GuardInv

\* The destructor of a scoped lock.
LEMMA ReleaseInv ==
  ASSUME GuardInv, OwnInv', NEW g \in Guard, L!Release(g), lockCrash = FALSE
  PROVE  GuardInv'
  <1> USE LockAssumption
  <1>1. PICK l \in Lock : guard[g].on = l /\ guard[g].mode \in {"read", "write"}
    BY DEF L!Release, GuardInv, L!Mode
  <1>2. /\ guard' = [guard EXCEPT ![g] = L!Nothing]
        /\ guard' \in [Guard -> [on : Lock \cup {Gone}, mode : L!Mode]]
        /\ UNCHANGED <<kind, freed, disturbed>>
    BY DEF GuardInv, L!Mode, L!Release, L!Nothing
  <1>3. CASE kind = "spin" /\ L!ReleaseSpin(l)
    <2>1. UNCHANGED <<readers, writer, lockCrash>> /\ mLock' = [mLock EXCEPT ![l] = Undefined] /\ mLock[l] = Taken
      BY <1>3 DEF L!ReleaseSpin
    <2>2. CASE disturbed
      BY <1>2, <2>1, <2>2 DEF GuardInv
    <2>3. CASE ~disturbed
      <3>1. \A k \in Lock : LockOK(k)
        BY <2>3 DEF GuardInv
      <3>2. ASSUME NEW k \in Lock \ {l} PROVE LockOK(k)'
        <4>1. Reads(k)' = Reads(k) /\ Writes(k)' = Writes(k)
          BY <1>1, <1>2 DEF Reads, Writes, GuardInv, L!Nothing
        <4>2. mLock'[k] = mLock[k]
          BY <2>1 DEF GuardInv, OwnInv
        <4> QED
          BY <1>2, <2>1, <3>1, <4>1, <4>2 DEF LockOK
      <3>3. LockOK(l)'
        <4>1. Reads(l) = {} /\ \E h \in Guard : Writes(l) = {h}
          BY <1>1, <1>3, <3>1 DEF LockOK, Reads, Writes
        <4>2. g \in Writes(l)
          BY <1>1, <4>1 DEF Reads, Writes
        <4>3. Writes(l) = {g}
          BY <4>1, <4>2
        <4>4. Reads(l)' = {} /\ Writes(l)' = {}
          BY <1>1, <1>2, <4>1, <4>3 DEF Reads, Writes, GuardInv, L!Nothing
        <4>5. mLock'[l] \notin Native
          BY <1>1, <2>1 DEF GuardInv, OwnInv
        <4> QED
          BY <4>4, <4>5, FS_EmptySet DEF LockOK
      <3> QED
        BY <1>2, <2>1, <2>3, <3>2, <3>3 DEF GuardInv
    <2> QED
      BY <1>2, <2>1, <2>2, <2>3 DEF GuardInv
  <1>4. CASE /\ kind # "spin" /\ mLock[l] \in Native
             /\ L!UnlockNative(mLock[l], guard[g].mode) /\ UNCHANGED <<mLock, lockCrash>>
    <2> DEFINE n == mLock[l]
    <2>1. readers' \in [Native -> Int] /\ writer' \in [Native -> BOOLEAN]
      BY <1>4 DEF L!UnlockNative, GuardInv
    <2>2. CASE disturbed
      BY <1>2, <1>4, <2>1, <2>2 DEF GuardInv
    <2>3. CASE ~disturbed
      <3>1. \A k \in Lock : LockOK(k)
        BY <2>3 DEF GuardInv
      <3>2. ASSUME NEW k \in Lock \ {l} PROVE LockOK(k)'
        <4>1. Reads(k)' = Reads(k) /\ Writes(k)' = Writes(k)
          BY <1>1, <1>2 DEF Reads, Writes, GuardInv, L!Nothing
        <4>2. mLock'[k] = mLock[k] /\ mLock[k] # n
          BY <1>1, <1>4 DEF GuardInv, OwnInv
        <4>3. mLock[k] \in Native =>
                 writer'[mLock[k]] = writer[mLock[k]] /\ readers'[mLock[k]] = readers[mLock[k]]
          BY <1>4, <4>2 DEF GuardInv, L!UnlockNative
        <4> QED
          BY <1>2, <3>1, <4>1, <4>2, <4>3 DEF LockOK
      <3>3. LockOK(l)'
        <4>1. CASE guard[g].mode = "write"
          <5>1. g \in Writes(l)
            BY <1>1, <4>1 DEF Writes
          <5>2. Writes(l) = {g} /\ Reads(l) = {} /\ readers[n] = Cardinality(Reads(l))
            BY <1>1, <1>4, <3>1, <5>1 DEF LockOK
          <5>3. Reads(l)' = {} /\ Writes(l)' = {}
            BY <1>1, <1>2, <5>2 DEF Reads, Writes, GuardInv, L!Nothing
          <5>4. ~writer'[mLock'[l]] /\ readers'[mLock'[l]] = 0
            BY <1>4, <4>1, <5>2, FS_EmptySet DEF GuardInv, L!UnlockNative
          <5> QED
            BY <5>3, <5>4, FS_EmptySet DEF LockOK
        <4>2. CASE guard[g].mode = "read"
          <5>1. g \in Reads(l)
            BY <1>1, <4>2 DEF Reads
          <5>2. Writes(l) = {} /\ readers[n] = Cardinality(Reads(l)) /\ ~writer[n] /\ IsFiniteSet(Reads(l))
            BY <1>1, <1>4, <3>1, <5>1 DEF LockOK
          <5>3. Reads(l)' = Reads(l) \ {g} /\ Writes(l)' = {}
            BY <1>1, <1>2, <5>2 DEF Reads, Writes, GuardInv, L!Nothing
          <5>4. IsFiniteSet(Reads(l)') /\ Cardinality(Reads(l)') = Cardinality(Reads(l)) - 1
            BY <5>1, <5>2, <5>3, FS_RemoveElement
          <5>5. ~writer'[mLock'[l]] /\ readers'[mLock'[l]] = readers[n] - 1 /\ mLock'[l] \in Native
            BY <1>4, <4>2, <5>2 DEF GuardInv, L!UnlockNative
          <5> QED
            BY <1>2, <1>4, <5>2, <5>3, <5>4, <5>5 DEF LockOK
        <4> QED
          BY <1>1, <4>1, <4>2
      <3>4. \A m \in Native : freed'[m] = -1 => ~writer'[m] /\ readers'[m] = 0
        <4>1. freed[n] # -1
          BY <1>1, <1>4 DEF GuardInv, OwnInv
        <4> QED
          BY <1>2, <1>4, <2>3, <4>1 DEF GuardInv, L!UnlockNative
      <3> QED
        BY <1>2, <1>4, <2>1, <2>3, <3>2, <3>3, <3>4 DEF GuardInv
    <2> QED
      BY <2>2, <2>3 DEF GuardInv
  <1>5. CASE mLock[l] = Undefined /\ lockCrash' = (kind # "spin") /\ UNCHANGED <<mLock, readers, writer>>
    <2>1. lockCrash' \in BOOLEAN
      BY <1>5, Zenon
    <2>2. CASE disturbed
      BY <1>2, <1>5, <2>1, <2>2 DEF GuardInv
    <2>3. CASE ~disturbed
      <3>1. LockOK(l) /\ g \in Reads(l) \cup Writes(l)
        BY <1>1, <2>3 DEF GuardInv, Reads, Writes
      <3> QED
        BY <1>5, <3>1 DEF LockOK
    <2> QED
      BY <2>2, <2>3 DEF GuardInv
  <1> QED
    BY <1>1, <1>3, <1>4, <1>5 DEF L!Release

\* The move constructor of a scoped lock: the new one takes the other's place.
LEMMA MovedInv ==
  ASSUME GuardInv, OwnInv', NEW g \in Guard, NEW other \in Guard, L!MoveGuard(g, other)
  PROVE  GuardInv'
  <1> USE LockAssumption
  <1>1. PICK l \in Lock : guard[other].on = l
    BY DEF L!MoveGuard, GuardInv
  <1>2. /\ guard' = [guard EXCEPT ![g] = guard[other], ![other] = L!Nothing]
        /\ guard[g].on = Gone /\ g # other
        /\ UNCHANGED <<kind, mLock, freed, readers, writer, disturbed, lockCrash>>
    BY <1>1 DEF L!MoveGuard, L!TakeGuard
  <1>3. guard' \in [Guard -> [on : Lock \cup {Gone}, mode : L!Mode]]
    BY <1>2 DEF GuardInv, L!Mode, L!Nothing
  <1>4. CASE disturbed \/ lockCrash
    BY <1>2, <1>3, <1>4 DEF GuardInv
  <1>5. CASE ~disturbed /\ ~lockCrash
    <2>1. \A k \in Lock : LockOK(k)
      BY <1>5 DEF GuardInv
    <2>2. ASSUME NEW k \in Lock \ {l} PROVE LockOK(k)'
      <3>1. Reads(k)' = Reads(k) /\ Writes(k)' = Writes(k)
        BY <1>1, <1>2 DEF Reads, Writes, GuardInv, L!Nothing
      <3> QED
        BY <1>2, <2>1, <3>1 DEF LockOK
    <2>3. LockOK(l)'
      <3>1. g \notin Reads(l) \cup Writes(l)
        BY <1>2 DEF Reads, Writes
      <3>2. CASE guard[other].mode = "write"
        <4>1. Writes(l) = {other} /\ Reads(l) = {}
          <5>1. other \in Writes(l)
            BY <1>1, <3>2 DEF Writes
          <5> QED
            BY <2>1, <5>1 DEF LockOK
        <4>2. Writes(l)' = {g} /\ Reads(l)' = {}
          BY <1>1, <1>2, <3>2, <4>1 DEF Reads, Writes, GuardInv, L!Nothing
        <4> QED
          BY <1>2, <2>1, <4>1, <4>2 DEF LockOK
      <3>3. CASE guard[other].mode = "read"
        <4>1. other \in Reads(l)
          BY <1>1, <3>3 DEF Reads
        <4>2. Writes(l) = {} /\ IsFiniteSet(Reads(l))
          BY <2>1, <4>1 DEF LockOK
        <4>3. Writes(l)' = {} /\ Reads(l)' = (Reads(l) \ {other}) \cup {g}
          BY <1>1, <1>2, <3>1, <3>3, <4>2 DEF Reads, Writes, GuardInv, L!Nothing
        <4>4. /\ IsFiniteSet(Reads(l) \ {other})
              /\ Cardinality(Reads(l) \ {other}) = Cardinality(Reads(l)) - 1
              /\ Cardinality(Reads(l)) \in Nat
          BY <4>1, <4>2, FS_RemoveElement, FS_CardinalityType
        <4>5. IsFiniteSet(Reads(l)') /\ Cardinality(Reads(l)') = Cardinality(Reads(l))
          <5>1. g \notin Reads(l) \ {other}
            BY <3>1
          <5>2. /\ IsFiniteSet((Reads(l) \ {other}) \cup {g})
                /\ Cardinality((Reads(l) \ {other}) \cup {g}) = Cardinality(Reads(l) \ {other}) + 1
            BY <4>4, <5>1, FS_AddElement
          <5> QED
            BY <4>3, <4>4, <5>2
        <4> QED
          BY <1>2, <2>1, <4>1, <4>2, <4>3, <4>5 DEF LockOK
      <3> QED
        BY <3>2, <3>3 DEF GuardInv, L!Mode
    <2> QED
      BY <1>2, <1>3, <1>5, <2>2, <2>3 DEF GuardInv
  <1> QED
    BY <1>4, <1>5

\* Every step of Locks keeps the native locks and the scoped locks in agreement.
LEMMA GuardStep == GuardInv /\ [L!Next]_L!vars => GuardInv'
  <1> SUFFICES ASSUME GuardInv, [L!Next]_L!vars PROVE GuardInv'
    OBVIOUS
  <1> USE LockAssumption
  <1>1. OwnInv'
    BY OwnStep DEF GuardInv
  <1>2. ASSUME NEW l \in Lock, NEW n \in Native, L!Construct(l, n) PROVE GuardInv'
    <2>1. /\ mLock[l] = Gone /\ freed[n] = -1 /\ mLock' = [mLock EXCEPT ![l] = n]
          /\ freed' = [freed EXCEPT ![n] = 0]
          /\ UNCHANGED <<kind, readers, writer, guard, disturbed, lockCrash>>
      BY <1>2 DEF L!Construct
    <2>2. CASE disturbed \/ lockCrash
      BY <1>1, <2>1, <2>2 DEF GuardInv
    <2>3. CASE ~disturbed /\ ~lockCrash
      <3>1. Reads(l) \cup Writes(l) = {} /\ mLock'[l] = n /\ ~writer[n] /\ readers[n] = 0
        BY <2>1, <2>3 DEF GuardInv, LockOK, OwnInv
      <3>2. LockOK(l)'
        BY <2>1, <2>3, <3>1, LockOKNew DEF GuardInv
      <3>3. ASSUME NEW k \in Lock \ {l} PROVE LockOK(k)'
        BY <2>1, <2>3, LockOKUnchanged DEF GuardInv, OwnInv
      <3>4. \A m \in Native : freed'[m] = -1 => ~writer'[m] /\ readers'[m] = 0
        BY <2>1, <2>3 DEF GuardInv, OwnInv
      <3> QED
        BY <1>1, <2>1, <3>2, <3>3, <3>4 DEF GuardInv
    <2> QED
      BY <2>2, <2>3
  <1>3. ASSUME NEW l \in Lock, L!Destroy(l) PROVE GuardInv'
    <2>1. /\ L!Disturb({l}) /\ UNCHANGED <<kind, readers, writer, guard, lockCrash>>
          /\ mLock' = [mLock EXCEPT ![l] = Gone] /\ freed' = L!Deinit(mLock[l])
      BY <1>3 DEF L!Destroy
    <2>2. \A n \in Native : freed'[n] = -1 <=> freed[n] = -1
      BY <2>1 DEF L!Deinit, GuardInv, OwnInv
    <2>3. /\ mLock' \in [Lock -> Native \cup {Undefined, Taken, Gone}]
          /\ mLock'[l] \notin Native /\ \A k \in Lock \ {l} : mLock'[k] = mLock[k]
      BY <2>1 DEF GuardInv, OwnInv
    <2> QED
      BY <1>1, <2>1, <2>2, <2>3, MoveGuardInv
  <1>4. ASSUME NEW l \in Lock, NEW other \in Lock, L!Move(l, other) PROVE GuardInv'
    <2>1. /\ L!Disturb({other}) /\ UNCHANGED <<kind, readers, writer, guard, lockCrash, freed>>
          /\ mLock[l] = Gone /\ l # other
          /\ mLock' = [mLock EXCEPT ![l] = mLock[other], ![other] = Undefined]
      BY <1>4 DEF L!Move, L!TakeHandle
    <2>2. /\ mLock' \in [Lock -> Native \cup {Undefined, Taken, Gone}]
          /\ mLock'[other] \notin Native /\ mLock'[l] = mLock[other]
          /\ \A k \in Lock \ {l, other} : mLock'[k] = mLock[k]
      BY <2>1 DEF GuardInv, OwnInv
    <2> QED
      BY <1>1, <2>1, <2>2, MoveGuardInv
  <1>5. ASSUME NEW l \in Lock, NEW other \in Lock, L!AssignMoved(l, other) PROVE GuardInv'
    <2>1. CASE L!Crash
      <3>1. lockCrash' \in BOOLEAN /\ lockCrash'
        BY <2>1, Zenon DEF L!Crash
      <3> QED
        BY <1>1, <2>1, <3>1 DEF L!Crash, GuardInv
    <2>2. CASE ~L!Crash
      <3>1. /\ L!Disturb({l, other}) /\ UNCHANGED <<kind, readers, writer, guard, lockCrash>>
            /\ mLock' = [mLock EXCEPT ![l] = mLock[other], ![other] = Undefined]
            /\ freed' = L!Deinit(mLock[l])
        BY <1>5, <2>2 DEF L!AssignMoved, L!TakeHandle
      <3>2. \A n \in Native : freed'[n] = -1 <=> freed[n] = -1
        BY <3>1 DEF L!Deinit, GuardInv, OwnInv
      <3>3. /\ mLock' \in [Lock -> Native \cup {Undefined, Taken, Gone}]
            /\ mLock'[other] \notin Native /\ (l # other => mLock'[l] = mLock[other])
            /\ \A k \in Lock \ {l, other} : mLock'[k] = mLock[k]
        BY <3>1 DEF GuardInv, OwnInv
      <3> QED
        BY <1>1, <3>1, <3>2, <3>3, MoveGuardInv
    <2> QED
      BY <2>1, <2>2
  <1>6. ASSUME NEW g \in Guard, NEW l \in Lock, NEW mode \in {"read", "write"}, L!Hold(g, l, mode), kind # "spin"
        PROVE  GuardInv'
    <2>1. CASE mLock[l] \in Native /\ L!LockNative(mLock[l], mode)
      BY <1>1, <1>6, <2>1, HoldInv DEF L!Hold
    <2>2. CASE lockCrash' = TRUE /\ UNCHANGED <<mLock, readers, writer>>
      <3>1. lockCrash' \in BOOLEAN /\ lockCrash'
        BY <2>2, Zenon
      <3>2. guard' \in [Guard -> [on : Lock \cup {Gone}, mode : L!Mode]] /\ UNCHANGED <<kind, freed, disturbed>>
        BY <1>6 DEF GuardInv, L!Mode, L!Hold, L!Points
      <3> QED
        BY <1>1, <2>2, <3>1, <3>2 DEF GuardInv
    <2> QED
      BY <1>6, <2>1, <2>2 DEF L!Hold
  <1>7. ASSUME NEW g \in Guard, NEW l \in Lock, L!GetRead(g, l) \/ L!GetWrite(g, l) \/ L!Get(g, l)
        PROVE  GuardInv'
    <2>1. CASE L!Get(g, l)
      BY <1>1, <2>1, HoldInv DEF L!Get, L!HoldSpin
    <2> QED
      BY <1>6, <1>7, <2>1 DEF L!GetRead, L!GetWrite
  <1>8. CASE UNCHANGED L!vars
    <2>1. \A l \in Lock : LockOK(l) => LockOK(l)'
      BY <1>8, LockOKUnchanged DEF L!vars
    <2> QED
      BY <1>1, <1>8, <2>1 DEF L!vars, GuardInv
  <1> QED
    BY <1>1, <1>2, <1>3, <1>4, <1>5, <1>7, <1>8, ReleaseInv, MovedInv DEF L!Next, GuardInv

\* Unless an object is moved or destroyed under a scoped lock, a writer is alone
\* on its lock, and the native lock is taken exactly as the scoped locks say.
THEOREM GuardsAlwaysExclude == L!Spec => []GuardsExclude
  <1>1. L!Init => GuardInv
    <2> SUFFICES ASSUME L!Init PROVE GuardInv
      OBVIOUS
    <2>1. disturbed \in BOOLEAN /\ lockCrash \in BOOLEAN
      BY Zenon DEF L!Init
    <2>2. writer \in [Native -> BOOLEAN] /\ \A n \in Native : ~writer[n] /\ readers[n] = 0
      BY DEF L!Init
    <2>3. \A l \in Lock : LockOK(l)
      <3>1. \A l \in Lock : Reads(l) = {} /\ Writes(l) = {} /\ mLock[l] \notin Native
        BY LockAssumption DEF L!Init, L!Nothing, Reads, Writes
      <3> QED
        BY <3>1, FS_EmptySet DEF LockOK
    <2> QED
      BY <2>1, <2>2, <2>3, OwnInit DEF L!Init, L!Nothing, L!Mode, GuardInv
  <1>2. GuardInv => GuardsExclude
    <2> SUFFICES ASSUME GuardInv, ~disturbed, ~lockCrash, NEW l \in Lock
                 PROVE  LET on == L!GuardsOn(l)
                            writes == {g \in on : guard[g].mode = "write"}
                        IN /\ writes # {} => Cardinality(on) = 1
                           /\ mLock[l] \in Native =>
                                /\ writer[mLock[l]] = (writes # {})
                                /\ readers[mLock[l]] = Cardinality(on \ writes)
      BY SameCardinality, Zenon DEF GuardsExclude, L!GuardsExclude
    <2>1. LockOK(l) /\ writer \in [Native -> BOOLEAN]
      BY DEF GuardInv
    <2>2. L!GuardsOn(l) = Reads(l) \cup Writes(l)
      BY DEF L!GuardsOn, Reads, Writes, GuardInv, L!Mode
    <2>3. {g \in L!GuardsOn(l) : guard[g].mode = "write"} = Writes(l)
      BY DEF L!GuardsOn, Writes
    <2>4. (Reads(l) \cup Writes(l)) \ Writes(l) = Reads(l)
      BY DEF Reads, Writes
    <2>5. Writes(l) # {} => Cardinality(Reads(l) \cup Writes(l)) = 1
      <3>1. ASSUME Writes(l) # {} PROVE Cardinality(Reads(l) \cup Writes(l)) = 1
        <4>1. PICK g \in Guard : Writes(l) = {g} /\ Reads(l) = {}
          BY <2>1, <3>1 DEF LockOK
        <4>2. Reads(l) \cup Writes(l) = {g}
          BY <4>1
        <4> QED
          BY <4>2, FS_Singleton
      <3> QED
        BY <3>1
    <2>6. mLock[l] \in Native => writer[mLock[l]] = (Writes(l) # {})
      BY <2>1 DEF LockOK
    <2>7. mLock[l] \in Native => readers[mLock[l]] = Cardinality(Reads(l))
      BY <2>1 DEF LockOK
    <2> QED
      BY <2>2, <2>3, <2>4, <2>5, <2>6, <2>7
  <1> QED
    BY <1>1, <1>2, GuardStep, PTL DEF L!Spec
=============================================================================
