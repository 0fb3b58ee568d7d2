--------------------------- MODULE PlatformProofs ---------------------------
(***************************************************************************)
(* Proofs about SystemCallHook, IOService and UserMemory, for any number   *)
(* of threads, hooks, clients, contexts and map objects and any size of a  *)
(* page.  Each part has its inductive invariant: HookInv, GateInv and      *)
(* MapsInv.                                                                *)
(***************************************************************************)
EXTENDS MCCore, Integers, Sequences, FiniteSets, SequenceTheorems, FiniteSetTheorems, TLAPS

\* The hook is stored before the probe that calls it is registered.
HookInv ==
  /\ S!TypeOK /\ S!HookFound
  /\ initing # NULL => syscall_hook # NULL

\* A system call finds a hook.
THEOREM HookAlwaysFound == S!Spec => []HookFound
  <1> USE HookAssumption DEF HookInv, S!TypeOK, S!HookFound
  <1>1. S!Init => HookInv
    <2> SUFFICES ASSUME S!Init PROVE HookInv
      OBVIOUS
    <2>1. /\ hookCrash \in BOOLEAN /\ ~hookCrash
          /\ probed \in BOOLEAN /\ ~probed /\ initing = NULL
      BY Zenon DEF S!Init
    <2>2. \A t \in Thread : ran[t].kernel
      BY DEF S!Init
    <2>3. ran \in [Thread -> [hook : Hook \cup {NULL}, kernel : BOOLEAN]]
      BY DEF S!Init
    <2> QED
      BY <2>1, <2>2, <2>3 DEF S!Init
  <1>2. HookInv /\ [S!Next]_S!vars => HookInv'
    <2> SUFFICES ASSUME HookInv, [S!Next]_S!vars PROVE HookInv'
      OBVIOUS
    <2>1. ASSUME NEW h \in Hook, S!SetHook(h) PROVE HookInv'
      BY <2>1 DEF S!SetHook, S!StoredHook
    <2>2. ASSUME NEW ok \in BOOLEAN, S!RegisterProbe(ok) PROVE HookInv'
      <3>1. probed' \in BOOLEAN
        BY <2>2 DEF S!RegisterProbe
      <3>2. /\ syscall_hook # NULL /\ initing' = NULL
            /\ UNCHANGED <<syscall_hook, inits, seen, ran, hookCrash>>
        BY <2>2 DEF S!RegisterProbe
      <3>3. S!HookFound'
        BY <3>1, <3>2
      <3> QED
        BY <3>1, <3>2, <3>3
    <2>3. ASSUME NEW t \in Thread, S!Call(t) PROVE HookInv'
      <3>1. CASE probed
        <4>1. hookCrash' \in BOOLEAN /\ ~hookCrash'
          BY <2>3, <3>1, Zenon DEF S!Call
        <4> QED
          BY <2>3, <3>1, <4>1 DEF S!Call
      <3>2. CASE ~probed
        <4>1. ran' = [ran EXCEPT ![t] = [hook |-> NULL, kernel |-> TRUE]]
          BY <2>3, <3>2 DEF S!Call
        <4>2. ran' \in [Thread -> [hook : Hook \cup {NULL}, kernel : BOOLEAN]]
          BY <4>1
        <4>3. \A u \in Thread : ran'[u].kernel \/ ran'[u].hook # NULL
          BY <4>1
        <4> QED
          BY <2>3, <3>2, <4>2, <4>3 DEF S!Call
      <3> QED
        BY <3>1, <3>2
    <2>4. ASSUME NEW t \in Thread, NEW wants \in BOOLEAN, S!PreHandler(t, wants) PROVE HookInv'
      BY <2>4 DEF S!PreHandler
    <2>5. CASE UNCHANGED S!vars
      BY <2>5 DEF S!vars
    <2> QED
      BY <2>1, <2>2, <2>3, <2>4, <2>5 DEF S!Next
  <1>3. HookInv => HookFound
    BY DEF HookFound
  <1> QED
    BY <1>1, <1>2, <1>3, PTL DEF S!Spec
-----------------------------------------------------------------------------
(* IOService.                                                              *)

\* The thread whose swap took the gate.
TookGate(t) == pc[t] \in {"conclude", "release"}

\* What GateReleasedOnce needs: one thread takes the gate that start made, and
\* what was done to the gate is told by where that thread is.
GateInv ==
  /\ I!TypeOK
  /\ \A t, u \in Thread : TookGate(t) /\ TookGate(u) => t = u
  /\ iokit_cmdgate => starting \in I!GateMade
  /\ iokit_cmdgate \/ starting \notin I!GateMade =>
       gate.concluded = 0 /\ gate.released = 0 /\ \A t \in Thread : ~TookGate(t)
  /\ \A t \in Thread :
       /\ pc[t] = "conclude" => gate.concluded = 0 /\ gate.released = 0
       /\ pc[t] = "release" => gate.concluded = 1 /\ gate.released = 0
  /\ starting \in I!GateMade /\ ~iokit_cmdgate /\ (\A t \in Thread : ~TookGate(t)) =>
       gate.concluded = 1 /\ gate.released = 1

\* However IOKit's threads interleave with each other and with start, the gate is
\* concluded and then released, each once, and none that was taken is left.
THEOREM GateAlwaysReleasedOnce == I!Spec => []GateReleasedOnce
  <1> USE ServiceAssumption DEF GateInv, TookGate, I!TypeOK, I!Tearing, I!GateMade, I!Starting
  <1>1. I!Init => GateInv
    <2> SUFFICES ASSUME I!Init PROVE GateInv
      OBVIOUS
    <2>1. /\ iokit_cmdgate \in BOOLEAN /\ ~iokit_cmdgate /\ deferred \in BOOLEAN
          /\ initialized \in BOOLEAN /\ awake \in BOOLEAN
      BY Zenon DEF I!Init
    <2> QED
      BY <2>1 DEF I!Init
  <1>2. GateInv /\ [I!Next]_I!vars => GateInv'
    <2> SUFFICES ASSUME GateInv, [I!Next]_I!vars PROVE GateInv'
      OBVIOUS
    <2> USE DEF I!Goto, I!Enter, I!Return
    <2>1. ASSUME NEW ok \in BOOLEAN, I!Start(ok) PROVE GateInv'
      BY <2>1 DEF I!Start
    <2>2. CASE I!StartLoads
      BY <2>2 DEF I!StartLoads
    <2>3. CASE I!MakeGate
      <3>1. iokit_cmdgate' \in BOOLEAN /\ iokit_cmdgate'
        BY <2>3, Zenon DEF I!MakeGate
      <3> QED
        BY <2>3, <3>1 DEF I!MakeGate
    <2>4. CASE I!AddGate
      BY <2>4 DEF I!AddGate
    <2>5. CASE I!StartPower
      BY <2>5 DEF I!StartPower
    <2>6. CASE I!Open
      BY <2>6 DEF I!Open
    <2>7. CASE I!Close
      BY <2>7 DEF I!Close
    <2>8. CASE I!Free
      BY <2>8 DEF I!Free
    <2>9. ASSUME NEW t \in Thread, I!Terminate(t) PROVE GateInv'
      BY <2>9 DEF I!Terminate
    <2>10. ASSUME NEW t \in Thread, I!ReadAgain(t) PROVE GateInv'
      BY <2>10 DEF I!ReadAgain
    <2>11. ASSUME NEW t \in Thread, I!RunAction(t) PROVE GateInv'
      <3>1. awake' \in BOOLEAN
        BY <2>11, Zenon DEF I!RunAction
      <3> QED
        BY <2>11, <3>1 DEF I!RunAction
    <2>12. ASSUME NEW t \in Thread, I!TestClients(t) PROVE GateInv'
      BY <2>12 DEF I!TestClients
    <2>13. ASSUME NEW t \in Thread, I!DidTerminate(t) PROVE GateInv'
      <3>1. deferred' \in BOOLEAN
        BY <2>13, Zenon DEF I!DidTerminate
      <3> QED
        BY <2>13, <3>1 DEF I!DidTerminate
    <2>14. ASSUME NEW t \in Thread, I!Stop(t) PROVE GateInv'
      BY <2>14 DEF I!Stop
    <2>15. ASSUME NEW t \in Thread, I!ReadGate(t) PROVE GateInv'
      BY <2>15 DEF I!ReadGate
    <2>16. ASSUME NEW t \in Thread, I!SwapGate(t) PROVE GateInv'
      <3>1. iokit_cmdgate' \in BOOLEAN /\ ~iokit_cmdgate'
        BY <2>16, Zenon DEF I!SwapGate
      <3> QED
        BY <2>16, <3>1 DEF I!SwapGate, I!SwapSucceeds
    <2>17. ASSUME NEW t \in Thread, I!Conclude(t) PROVE GateInv'
      BY <2>17 DEF I!Conclude
    <2>18. ASSUME NEW t \in Thread, I!Release(t) PROVE GateInv'
      BY <2>18 DEF I!Release
    <2>19. ASSUME NEW t \in Thread, I!PowerOff(t) PROVE GateInv'
      <3>1. initialized' \in BOOLEAN
        BY <2>19, Zenon DEF I!PowerOff
      <3> QED
        BY <2>19, <3>1 DEF I!PowerOff
    <2>20. ASSUME NEW t \in Thread, NEW on \in BOOLEAN, I!SetPowerState(t, on) PROVE GateInv'
      BY <2>20 DEF I!SetPowerState
    <2>21. CASE UNCHANGED I!vars
      BY <2>21 DEF I!vars
    <2> QED
      BY <2>1, <2>2, <2>3, <2>4, <2>5, <2>6, <2>7, <2>8, <2>9, <2>10, <2>11, <2>12, <2>13, <2>14,
         <2>15, <2>16, <2>17, <2>18, <2>19, <2>20, <2>21, Zenon
         DEF I!Next
  <1>3. GateInv => GateReleasedOnce
    BY DEF GateReleasedOnce, I!GateReleasedOnce
  <1> QED
    BY <1>1, <1>2, <1>3, PTL DEF I!Spec
-----------------------------------------------------------------------------
(* UserMemory.                                                             *)

\* The records of the contexts, whose counts may be no natural numbers.
MapsType ==
  /\ mMaybe \in [Holder -> Context \cup {Empty, Gone}]
  /\ context \in [Context -> [to : {"none", "kernel", "user", "allocated"}, range : Nat \X Nat, pagesArraySize : Int]]
  /\ pins \in [Context -> Int] /\ frees \in [Context -> Nat]
  /\ DOMAIN faulted = Context
  /\ fate \in [Context -> U!Fates]

\* What holds of one context, by its fate.
MapOK(c) ==
  /\ fate[c] = "unused" => U!HoldersOf(c) = {} /\ pins[c] = 0 /\ frees[c] = 0 /\ faulted[c] = <<>>
  /\ fate[c] = "failed" => U!HoldersOf(c) = {} /\ pins[c] = 0 /\ frees[c] = 0
  /\ fate[c] = "regular" =>
       \/ (\E h \in Holder : U!HoldersOf(c) = {h}) /\ pins[c] = context[c].pagesArraySize /\ frees[c] = 0
       \/ U!HoldersOf(c) = {} /\ pins[c] = 0 /\ frees[c] = 1
  /\ \A i \in DOMAIN faulted[c] : faulted[c][i] \in {U!NoPage, U!Page(context[c].range[1] + i * PageSize)}

MapsInv == MapsType /\ \A c \in Context : MapOK(c)

\* A quotient is determined by its bounds.
LEMMA PageIs ==
  ASSUME NEW x \in Int, NEW q \in Int, q * PageSize <= x, x < (q + 1) * PageSize
  PROVE  U!Page(x) = q
  <1> DEFINE p == U!Page(x)
  <1>1. /\ p \in Int /\ p * PageSize <= x /\ x < (p + 1) * PageSize
    BY MemoryAssumption DEF U!Page
  <1> HIDE DEF p
  <1>2. ~(p < q)
    <2> SUFFICES ASSUME p + 1 <= q PROVE FALSE
      BY <1>1
    <2>1. (p + 1) * PageSize <= q * PageSize
      BY <1>1, MemoryAssumption
    <2> QED
      BY <1>1, <2>1, MemoryAssumption
  <1>3. ~(q < p)
    <2> SUFFICES ASSUME q + 1 <= p PROVE FALSE
      BY <1>1
    <2>1. (q + 1) * PageSize <= p * PageSize
      BY <1>1, MemoryAssumption
    <2> QED
      BY <1>1, <2>1, MemoryAssumption
  <1> QED
    BY <1>1, <1>2, <1>3 DEF p

\* The page of an address contains it.
LEMMA PageBounds ==
  ASSUME NEW x \in Int
  PROVE  U!Page(x) \in Int /\ U!Page(x) * PageSize <= x /\ x < (U!Page(x) + 1) * PageSize
  BY MemoryAssumption DEF U!Page

\* Whole pages added to an address are added to its page.
LEMMA PageOfSum ==
  ASSUME NEW x \in Int, NEW k \in Int
  PROVE  U!Page(x + k * PageSize) = U!Page(x) + k
  <1>1. PICK p \in Int : p = U!Page(x) /\ p * PageSize <= x /\ x < (p + 1) * PageSize
    BY PageBounds
  <1>2. /\ (p + k) * PageSize = p * PageSize + k * PageSize
        /\ ((p + k) + 1) * PageSize = (p + 1) * PageSize + k * PageSize
    BY MemoryAssumption
  <1>3. /\ x + k * PageSize \in Int /\ p + k \in Int
        /\ (p + k) * PageSize <= x + k * PageSize /\ x + k * PageSize < ((p + k) + 1) * PageSize
    BY <1>1, <1>2, MemoryAssumption
  <1>4. U!Page(x + k * PageSize) = p + k
    BY <1>3, PageIs
  <1> QED
    BY <1>1, <1>4

\* A context that a step leaves alone is still treated by its fate.
LEMMA MapKept ==
  ASSUME NEW c \in Context, MapOK(c),
         \A h \in Holder : mMaybe'[h] = c <=> mMaybe[h] = c,
         fate'[c] = fate[c], pins'[c] = pins[c], frees'[c] = frees[c],
         faulted'[c] = faulted[c], context'[c] = context[c]
  PROVE  MapOK(c)'
  <1>1. U!HoldersOf(c)' = U!HoldersOf(c)
    BY DEF U!HoldersOf
  <1>2. \A i : U!Page(context[c].range[1] + i * PageSize)' = U!Page(context[c].range[1] + i * PageSize)
    BY DEF U!Page
  <1> QED
    BY <1>1, <1>2 DEF MapOK

\* The Creates: the context is new, and is regular only in an object.
LEMMA KeepKeeps ==
  ASSUME MapsInv, NEW h \in Holder, NEW c \in Context,
         NEW new \in [to : {"kernel", "user", "allocated"}, range : Nat \X Nat, pagesArraySize : Int],
         NEW result \in [pinned : Int, ok : BOOLEAN, fate : U!Fates],
         U!Keep(h, c, new, result),
         result.fate # "unused",
         result.fate = "failed" => result.pinned = 0 /\ result.ok = FALSE,
         result.fate = "regular" => result.ok = TRUE /\ result.pinned = new.pagesArraySize
  PROVE  MapsInv'
  <1> USE DEF MapsInv, MapsType
  <1>1. /\ mMaybe[h] = Gone /\ fate[c] = "unused"
        /\ context' = [context EXCEPT ![c] = new] /\ pins' = [pins EXCEPT ![c] = result.pinned]
        /\ fate' = [fate EXCEPT ![c] = result.fate]
        /\ mMaybe' = IF result.ok THEN [mMaybe EXCEPT ![h] = c] ELSE mMaybe
        /\ frees' = frees /\ faulted' = faulted
    BY DEF U!Keep
  <1>2. MapsType'
    <2>1. mMaybe' \in [Holder -> Context \cup {Empty, Gone}]
      BY <1>1
    <2>2. context' \in [Context -> [to : {"none", "kernel", "user", "allocated"}, range : Nat \X Nat, pagesArraySize : Int]]
      <3>1. new \in [to : {"none", "kernel", "user", "allocated"}, range : Nat \X Nat, pagesArraySize : Int]
        OBVIOUS
      <3> QED
        BY <1>1, <3>1
    <2>3. fate' \in [Context -> U!Fates] /\ pins' \in [Context -> Int]
      BY <1>1
    <2>4. U!Fates' = U!Fates
      BY DEF U!Fates
    <2> QED
      BY <1>1, <2>1, <2>2, <2>3, <2>4
  <1>3. ASSUME NEW d \in Context, d # c PROVE MapOK(d)'
    <2>1. \A o \in Holder : mMaybe'[o] = d <=> mMaybe[o] = d
      BY <1>1, <1>3, MemoryAssumption
    <2>2. /\ fate'[d] = fate[d] /\ pins'[d] = pins[d] /\ frees'[d] = frees[d]
          /\ faulted'[d] = faulted[d] /\ context'[d] = context[d]
      BY <1>1, <1>3
    <2>3. MapOK(d)
      OBVIOUS
    <2> QED
      BY <2>1, <2>2, <2>3, MapKept
  <1>4. MapOK(c)'
    <2>1. /\ U!HoldersOf(c) = {} /\ frees[c] = 0 /\ faulted[c] = <<>>
      BY <1>1 DEF MapOK
    <2>2. /\ fate'[c] = result.fate /\ pins'[c] = result.pinned /\ frees'[c] = 0
          /\ faulted'[c] = <<>> /\ context'[c] = new
      BY <1>1, <2>1
    <2>3. result.ok = TRUE => U!HoldersOf(c)' = {h}
      BY <1>1, <2>1 DEF U!HoldersOf
    <2>4. result.ok = FALSE => U!HoldersOf(c)' = {}
      BY <1>1, <2>1 DEF U!HoldersOf
    <2>6. DOMAIN (faulted'[c]) = {}
      BY <2>2
    <2>7. fate'[c] = "failed" => U!HoldersOf(c)' = {} /\ pins'[c] = 0 /\ frees'[c] = 0
      BY <2>2, <2>4
    <2>8. fate'[c] = "regular" =>
            U!HoldersOf(c)' = {h} /\ pins'[c] = context'[c].pagesArraySize /\ frees'[c] = 0
      BY <2>2, <2>3
    <2> QED
      BY <2>2, <2>6, <2>7, <2>8 DEF MapOK
  <1> QED
    BY <1>2, <1>3, <1>4

\* The release of the context of an object that ends.
LEMMA UnmapKeeps ==
  ASSUME MapsInv, NEW h \in Holder, mMaybe[h] \in Context,
         mMaybe' = [mMaybe EXCEPT ![h] = Gone], U!Unmap(mMaybe[h]), UNCHANGED <<context, fate>>
  PROVE  MapsInv'
  <1> USE DEF MapsInv, MapsType
  <1>1. PICK c \in Context : c = mMaybe[h]
    OBVIOUS
  <1>2. /\ pins' = [pins EXCEPT ![c] = pins[c] - context[c].pagesArraySize]
        /\ frees' = [frees EXCEPT ![c] = frees[c] + 1]
        /\ faulted' = [faulted EXCEPT ![c] = <<>>]
    BY <1>1 DEF U!Unmap, U!PutPages
  <1>3. MapsType'
    <2>1. U!Fates' = U!Fates
      BY DEF U!Fates
    <2>2. context[c].pagesArraySize \in Int
      OBVIOUS
    <2>3. pins' \in [Context -> Int] /\ frees' \in [Context -> Nat]
      BY <1>2, <2>2
    <2>4. mMaybe' \in [Holder -> Context \cup {Empty, Gone}] /\ DOMAIN faulted' = Context
      BY <1>2
    <2> QED
      BY <2>1, <2>3, <2>4
  <1>4. ASSUME NEW d \in Context, d # c PROVE MapOK(d)'
    <2>1. \A o \in Holder : mMaybe'[o] = d <=> mMaybe[o] = d
      BY <1>1, <1>4, MemoryAssumption
    <2>2. /\ fate'[d] = fate[d] /\ pins'[d] = pins[d] /\ frees'[d] = frees[d]
          /\ faulted'[d] = faulted[d] /\ context'[d] = context[d]
      BY <1>2, <1>4
    <2>3. MapOK(d)
      OBVIOUS
    <2> QED
      BY <2>1, <2>2, <2>3, MapKept
  <1>5. MapOK(c)'
    <2>1. h \in U!HoldersOf(c)
      BY <1>1 DEF U!HoldersOf
    <2>2. fate[c] # "unused" /\ fate[c] # "failed"
      BY <2>1 DEF MapOK
    <2>3. fate[c] = "regular" =>
            /\ \E o \in Holder : U!HoldersOf(c) = {o}
            /\ pins[c] = context[c].pagesArraySize /\ frees[c] = 0
      BY <2>1 DEF MapOK
    <2>4. fate[c] = "regular" => U!HoldersOf(c) = {h}
      BY <2>1, <2>3
    <2>5. fate[c] = "regular" => U!HoldersOf(c)' = {}
      BY <1>1, <2>4, MemoryAssumption DEF U!HoldersOf
    <2>6. fate[c] = "regular" => pins'[c] = 0 /\ frees'[c] = 1
      BY <1>2, <2>3
    <2>7. DOMAIN (faulted'[c]) = {}
      BY <1>2
    <2> QED
      BY <2>2, <2>5, <2>6, <2>7 DEF MapOK
  <1> QED
    BY <1>3, <1>4, <1>5

\* A fault gives the page of its byte, or none.
LEMMA FaultKeeps ==
  ASSUME MapsInv, NEW c \in Context, NEW offset \in Nat, NEW known \in BOOLEAN, U!Fault(c, offset, known)
  PROVE  MapsInv'
  <1> USE DEF MapsInv, MapsType
  <1>1. PICK p \in Int : p = U!Page(offset)
    BY PageBounds
  <1>2. PICK a \in Nat : a = context[c].range[1]
    OBVIOUS
  <1>3. PICK given : given = U!VmaFault(context[c].range, offset, known)
    OBVIOUS
  <1>4. given \in {U!NoPage, U!Page(a + p * PageSize)}
    <2>1. PICK q \in Int : q = U!Page(a)
      BY PageBounds
    <2>2. given \in {U!NoPage, U!Page(offset + q * PageSize)}
      BY <1>2, <1>3, <2>1 DEF U!VmaFault
    <2>3. U!Page(offset + q * PageSize) = p + q
      BY <1>1, PageOfSum
    <2>4. U!Page(a + p * PageSize) = q + p
      BY <2>1, PageOfSum
    <2> QED
      BY <2>2, <2>3, <2>4
  <1>5. /\ faulted' = [faulted EXCEPT ![c] = [i \in DOMAIN faulted[c] \cup {p} |->
                                             IF i = p THEN given ELSE faulted[c][i]]]
        /\ UNCHANGED <<mMaybe, context, pins, frees, fate>>
    BY <1>1, <1>3 DEF U!Fault
  <1>6. fate[c] = "regular"
    BY DEF U!Fault, U!Touches
  <1>7. MapsType'
    <2>1. U!Fates' = U!Fates
      BY DEF U!Fates
    <2> QED
      BY <1>5, <2>1
  <1>8. ASSUME NEW d \in Context, d # c PROVE MapOK(d)'
    <2>1. faulted'[d] = faulted[d]
      BY <1>5, <1>8
    <2>2. MapOK(d)
      OBVIOUS
    <2> QED
      BY <1>5, <2>1, <2>2, MapKept
  <1>9. MapOK(c)'
    <2>1. \A i \in DOMAIN faulted[c] : faulted[c][i] \in {U!NoPage, U!Page(a + i * PageSize)}
      BY <1>2 DEF MapOK
    <2>2. faulted'[c] = [i \in DOMAIN faulted[c] \cup {p} |-> IF i = p THEN given ELSE faulted[c][i]]
      BY <1>5
    <2>3. \A i \in DOMAIN (faulted'[c]) : faulted'[c][i] \in {U!NoPage, U!Page(a + i * PageSize)}
      BY <1>4, <2>1, <2>2
    <2>4. U!HoldersOf(c)' = U!HoldersOf(c)
      BY <1>5 DEF U!HoldersOf
    <2>5. U!NoPage' = U!NoPage /\ \A i : U!Page(context[c].range[1] + i * PageSize)' = U!Page(a + i * PageSize)
      BY <1>2, <1>5 DEF U!Page, U!NoPage
    <2>6. \A i \in DOMAIN (faulted'[c]) :
            faulted'[c][i] \in {U!NoPage', U!Page(context[c].range[1] + i * PageSize)'}
      BY <2>3, <2>5
    <2>7. fate'[c] = "regular" /\ pins'[c] = pins[c] /\ frees'[c] = frees[c] /\ context'[c] = context[c]
      BY <1>5, <1>6
    <2>8. \/ (\E h \in Holder : U!HoldersOf(c)' = {h}) /\ pins'[c] = context'[c].pagesArraySize /\ frees'[c] = 0
          \/ U!HoldersOf(c)' = {} /\ pins'[c] = 0 /\ frees'[c] = 1
      BY <1>6, <2>4, <2>7 DEF MapOK
    <2> QED
      BY <2>6, <2>7, <2>8 DEF MapOK
  <1> QED
    BY <1>7, <1>8, <1>9

\* A move construction and a move assignment.
LEMMA MovesKeep ==
  ASSUME MapsInv, NEW h \in Holder, NEW other \in Holder, U!Move(h, other) \/ U!AssignMoved(h, other)
  PROVE  MapsInv'
  <1> USE DEF MapsInv, MapsType
  <1>0. U!Fates' = U!Fates
    BY DEF U!Fates
  <1>1. CASE U!Move(h, other)
    <2>1. /\ mMaybe[h] = Gone /\ mMaybe[other] \in Context
          /\ mMaybe' = [mMaybe EXCEPT ![h] = mMaybe[other], ![other] = Empty]
          /\ UNCHANGED <<context, pins, frees, faulted, fate>>
      BY <1>1 DEF U!Move, U!TakeOver, U!IsMap
    <2>2. MapsType' /\ h # other
      BY <1>0, <2>1, MemoryAssumption
    <2>3. ASSUME NEW d \in Context, mMaybe[other] # d PROVE MapOK(d)'
      <3>1. \A o \in Holder : mMaybe'[o] = d <=> mMaybe[o] = d
        BY <2>1, <2>2, <2>3, MemoryAssumption
      <3>2. MapOK(d)
        OBVIOUS
      <3> QED
        BY <2>1, <3>1, <3>2, MapKept
    <2>4. ASSUME NEW d \in Context, mMaybe[other] = d PROVE MapOK(d)'
      <3>1. other \in U!HoldersOf(d)
        BY <2>4 DEF U!HoldersOf
      <3>2. \A o \in Holder : U!HoldersOf(d) = {o} => U!HoldersOf(d)' = {h}
        <4> SUFFICES ASSUME U!HoldersOf(d) = {other} PROVE U!HoldersOf(d)' = {h}
          BY <3>1
        <4>1. \A o \in Holder : mMaybe[o] = d => o = other
          BY DEF U!HoldersOf
        <4>2. \A o \in Holder : mMaybe'[o] = d <=> o = h
          BY <2>1, <2>2, <2>4, <4>1, MemoryAssumption
        <4> QED
          BY <4>2 DEF U!HoldersOf
      <3>3. \A i : U!Page(context[d].range[1] + i * PageSize)' = U!Page(context[d].range[1] + i * PageSize)
        BY <2>1 DEF U!Page
      <3>4. MapOK(d) /\ U!HoldersOf(d) # {}
        BY <3>1
      <3> QED
        BY <2>1, <3>2, <3>3, <3>4 DEF MapOK
    <2> QED
      BY <2>2, <2>3, <2>4
  <1>2. CASE U!AssignMoved(h, other)
    <2>1. /\ mMaybe[other] \in Context
          /\ mMaybe' = [mMaybe EXCEPT ![h] = mMaybe[other]]
          /\ fate' = [c \in Context |-> IF c = mMaybe[other] THEN "copied"
                                        ELSE IF c = mMaybe[h] THEN "overwritten" ELSE fate[c]]
          /\ UNCHANGED <<context, pins, frees, faulted>>
      BY <1>2 DEF U!AssignMoved, U!Share, U!IsMap
    <2>2. MapsType'
      <3>1. fate' \in [Context -> U!Fates]
        BY <2>1 DEF U!Fates
      <3>2. mMaybe' \in [Holder -> Context \cup {Empty, Gone}]
        BY <2>1
      <3> QED
        BY <1>0, <2>1, <3>1, <3>2
    <2>3. ASSUME NEW d \in Context, mMaybe[other] # d, mMaybe[h] # d PROVE MapOK(d)'
      <3>1. \A o \in Holder : mMaybe'[o] = d <=> mMaybe[o] = d
        BY <2>1, <2>3
      <3>2. fate'[d] = fate[d]
        BY <2>1, <2>3
      <3>3. MapOK(d)
        OBVIOUS
      <3> QED
        BY <2>1, <3>1, <3>2, <3>3, MapKept
    <2>4. ASSUME NEW d \in Context, mMaybe[other] = d \/ mMaybe[h] = d PROVE MapOK(d)'
      <3>1. fate'[d] \in {"copied", "overwritten"}
        BY <2>1, <2>4
      <3>2. \A i : U!Page(context[d].range[1] + i * PageSize)' = U!Page(context[d].range[1] + i * PageSize)
        BY <2>1 DEF U!Page
      <3>3. \A i \in DOMAIN (faulted'[d]) :
              faulted'[d][i] \in {U!NoPage, U!Page(context[d].range[1] + i * PageSize)'}
        BY <2>1, <3>2 DEF MapOK
      <3> QED
        BY <3>1, <3>3 DEF MapOK
    <2> QED
      BY <2>2, <2>3, <2>4
  <1> QED
    BY <1>1, <1>2

\* A context that no move assignment touched is released once, with its one object.
THEOREM MapsAlwaysReleasedOnce == U!Spec => []MapsReleasedOnce
  <1>1. U!Init => MapsInv
    <2> SUFFICES ASSUME U!Init PROVE MapsInv
      OBVIOUS
    <2>1. MapsType
      <3>1. U!Blank \in [to : {"none", "kernel", "user", "allocated"}, range : Nat \X Nat, pagesArraySize : Int]
        BY DEF U!Blank
      <3> HIDE DEF U!Blank
      <3> QED
        BY <3>1 DEF U!Init, MapsType, U!Fates
    <2>2. ASSUME NEW c \in Context PROVE MapOK(c)
      <3>1. U!HoldersOf(c) = {}
        BY MemoryAssumption DEF U!Init, U!HoldersOf
      <3>2. pins[c] = 0 /\ frees[c] = 0 /\ faulted[c] = <<>> /\ fate[c] = "unused"
        BY DEF U!Init
      <3> QED
        BY <3>1, <3>2 DEF MapOK
    <2> QED
      BY <2>1, <2>2 DEF MapsInv
  <1>2. MapsInv /\ [U!Next]_U!vars => MapsInv'
    <2> SUFFICES ASSUME MapsInv, [U!Next]_U!vars PROVE MapsInv'
      OBVIOUS
    <2>1. ASSUME NEW h \in Holder, NEW c \in Context, NEW range \in Ranges, NEW ret \in -1 .. MaxPages,
                 NEW vmapped \in BOOLEAN, U!CreateUserToKernel(h, c, range, ret, vmapped)
          PROVE  MapsInv'
      <3>1. PICK number \in Int : number = U!PagesCount(range)
        <4>1. range \in Nat \X Nat
          BY MemoryAssumption
        <4>2. U!Page(range[1]) \in Int /\ U!Page(range[1] + range[2] - 1) \in Int
          BY <4>1, PageBounds
        <4> QED
          BY <4>2 DEF U!PagesCount, U!LastPage
      <3>2. PICK new : new = [to |-> "kernel", range |-> range, pagesArraySize |-> number]
        OBVIOUS
      <3>3. PICK result : result = U!MapUserToKernel(number, ret, vmapped)
        OBVIOUS
      <3>4. /\ ret \in Int /\ ret <= number
            /\ U!Keep(h, c, new, result)
        BY <2>1, <3>1, <3>2, <3>3 DEF U!CreateUserToKernel
      <3>5. /\ result \in [pinned : Int, ok : BOOLEAN, fate : U!Fates] /\ result.fate # "unused"
            /\ result.fate = "failed" => result.pinned = 0 /\ result.ok = FALSE
            /\ result.fate = "regular" => result.ok = TRUE /\ result.pinned = number
        <4>1. CASE ret # number /\ ret = 0
          <5>0. /\ (ret = 0) = TRUE
                /\ result = [pinned |-> 0, ok |-> ret = 0, fate |-> "notPinned"]
            BY <3>3, <3>4, <4>1 DEF U!MapUserToKernel, U!PutPages
          <5>1. result = [pinned |-> 0, ok |-> TRUE, fate |-> "notPinned"]
            BY <5>0, Zenon
          <5> QED
            BY <5>1 DEF U!Fates
        <4>2. CASE ret # number /\ ret # 0
          <5>0. /\ (ret = 0) = FALSE
                /\ result = [pinned |-> 0, ok |-> ret = 0, fate |-> "failed"]
            BY <3>3, <3>4, <4>2 DEF U!MapUserToKernel, U!PutPages
          <5>1. result = [pinned |-> 0, ok |-> FALSE, fate |-> "failed"]
            BY <5>0, Zenon
          <5> QED
            BY <5>1 DEF U!Fates
        <4>3. CASE ret = number /\ vmapped = TRUE
          <5>1. result = [pinned |-> number, ok |-> TRUE, fate |-> "regular"]
            BY <3>3, <4>3 DEF U!MapUserToKernel
          <5> QED
            BY <3>4, <4>3, <5>1 DEF U!Fates
        <4>4. CASE ret = number /\ vmapped = FALSE
          <5>1. result = [pinned |-> number, ok |-> FALSE, fate |-> "vmapFailed"]
            BY <3>3, <4>4 DEF U!MapUserToKernel
          <5> QED
            BY <5>1 DEF U!Fates
        <4> QED
          BY <4>1, <4>2, <4>3, <4>4
      <3>6. /\ new \in [to : {"kernel", "user", "allocated"}, range : Nat \X Nat, pagesArraySize : Int]
            /\ new.pagesArraySize = number
        BY <3>2, MemoryAssumption
      <3> QED
        BY <3>1, <3>4, <3>5, <3>6, KeepKeeps
    <2>2. ASSUME NEW h \in Holder, NEW c \in Context, NEW mapped \in BOOLEAN,
                 NEW new \in [to : {"kernel", "user", "allocated"}, range : Nat \X Nat, pagesArraySize : Int],
                 new.pagesArraySize = 1,
                 U!Keep(h, c, new, U!MapKernelToUser(mapped))
          PROVE  MapsInv'
      <3>1. PICK result : result = U!MapKernelToUser(mapped)
        OBVIOUS
      <3>2. /\ result \in [pinned : Int, ok : BOOLEAN, fate : U!Fates]
            /\ result.fate # "unused" /\ result.fate # "failed"
            /\ result.fate = "regular" => result.ok = TRUE /\ result.pinned = 1
        <4>1. CASE mapped = TRUE
          <5>1. result = [pinned |-> 1, ok |-> TRUE, fate |-> "regular"]
            BY <3>1, <4>1 DEF U!MapKernelToUser
          <5> QED
            BY <5>1 DEF U!Fates
        <4>2. CASE mapped = FALSE
          <5>1. result = [pinned |-> 0, ok |-> TRUE, fate |-> "notMapped"]
            BY <3>1, <4>2 DEF U!MapKernelToUser
          <5> QED
            BY <5>1 DEF U!Fates
        <4> QED
          BY <4>1, <4>2
      <3>3. U!Keep(h, c, new, result)
        BY <2>2, <3>1
      <3> QED
        BY <2>2, <3>2, <3>3, KeepKeeps
    <2>3. ASSUME NEW h \in Holder, NEW c \in Context, NEW mapped \in BOOLEAN, U!AllocateUser(h, c, mapped)
          PROVE  MapsInv'
      <3>1. PICK new : new = [to |-> "allocated", range |-> <<0, 0>>, pagesArraySize |-> 1]
        OBVIOUS
      <3>2. U!Keep(h, c, new, U!MapKernelToUser(mapped))
        BY <2>3, <3>1 DEF U!AllocateUser, U!AllocateUserMemory
      <3>3. /\ new \in [to : {"kernel", "user", "allocated"}, range : Nat \X Nat, pagesArraySize : Int]
            /\ new.pagesArraySize = 1
        BY <3>1
      <3> QED
        BY <2>2, <3>2, <3>3
    <2>4. ASSUME NEW h \in Holder, NEW c \in Context, NEW mapped \in BOOLEAN, NEW range \in Ranges,
                 U!CreateKernelToUser(h, c, range, mapped)
          PROVE  MapsInv'
      <3>1. PICK new : new = [to |-> "user", range |-> range, pagesArraySize |-> 1]
        OBVIOUS
      <3>2. U!Keep(h, c, new, U!MapKernelToUser(mapped))
        BY <2>4, <3>1 DEF U!CreateKernelToUser
      <3>3. /\ new \in [to : {"kernel", "user", "allocated"}, range : Nat \X Nat, pagesArraySize : Int]
            /\ new.pagesArraySize = 1
        BY <3>1, MemoryAssumption
      <3> QED
        BY <2>2, <3>2, <3>3
    <2>5. ASSUME NEW c \in Context, NEW known \in BOOLEAN, NEW offset \in 0 .. context[c].range[2] - 1,
                 U!Fault(c, offset, known)
          PROVE  MapsInv'
      <3>1. context[c].range[2] \in Nat
        BY DEF MapsInv, MapsType
      <3>2. offset \in Nat
        BY <3>1
      <3> QED
        BY <2>5, <3>2, FaultKeeps
    <2>6. ASSUME NEW h \in Holder, U!Destroy(h) PROVE MapsInv'
      <3>1. CASE mMaybe[h] \in Context
        BY <2>6, <3>1, UnmapKeeps DEF U!Destroy
      <3>2. CASE mMaybe[h] \notin Context
        <4>1. mMaybe' = [mMaybe EXCEPT ![h] = Gone] /\ UNCHANGED <<pins, frees, faulted, context, fate>>
          BY <2>6, <3>2 DEF U!Destroy
        <4>2. MapsType'
          BY <4>1 DEF MapsInv, MapsType, U!Fates
        <4>3. ASSUME NEW d \in Context PROVE MapOK(d)'
          <5>1. \A o \in Holder : mMaybe'[o] = d <=> mMaybe[o] = d
            BY <3>2, <4>1, MemoryAssumption DEF MapsInv, MapsType
          <5>2. MapOK(d)
            BY DEF MapsInv
          <5> QED
            BY <4>1, <5>1, <5>2, MapKept
        <4> QED
          BY <4>2, <4>3 DEF MapsInv
      <3> QED
        BY <3>1, <3>2
    <2>7. ASSUME NEW h \in Holder, U!DeallocateUser(h) PROVE MapsInv'
      BY <2>7, UnmapKeeps DEF U!DeallocateUser
    <2>8. ASSUME NEW h \in Holder, NEW other \in Holder, U!Move(h, other) \/ U!AssignMoved(h, other)
          PROVE  MapsInv'
      BY <2>8, MovesKeep
    <2>9. CASE UNCHANGED U!vars
      <3>1. UNCHANGED <<mMaybe, pins, frees, faulted, context, fate>>
        BY <2>9 DEF U!vars
      <3>2. MapsType'
        BY <3>1 DEF MapsInv, MapsType, U!Fates
      <3>3. ASSUME NEW d \in Context PROVE MapOK(d)'
        <4>1. MapOK(d)
          BY DEF MapsInv
        <4> QED
          BY <3>1, <4>1, MapKept
      <3> QED
        BY <3>2, <3>3 DEF MapsInv
    <2> QED
      BY <2>1, <2>3, <2>4, <2>5, <2>6, <2>7, <2>8, <2>9, Zenon DEF U!Next
  <1>3. MapsInv => MapsReleasedOnce
    <2> SUFFICES ASSUME MapsInv PROVE U!MapsReleasedOnce
      BY DEF MapsReleasedOnce
    <2>1. ASSUME NEW protection \in Protections, "write" \in U!Pgprot(protection)
          PROVE  U!PinsForWrite(protection)
      <3>1. protection \in {2, 3, 6, 7}
        BY <2>1 DEF U!Pgprot
      <3> QED
        BY <3>1 DEF U!PinsForWrite
    <2>2. ASSUME NEW c \in Context, fate[c] = "regular"
          PROVE  \/ U!Cardinality(U!HoldersOf(c)) = 1 /\ pins[c] = context[c].pagesArraySize /\ frees[c] = 0
                 \/ U!HoldersOf(c) = {} /\ pins[c] = 0 /\ frees[c] = 1
      <3>1. MapOK(c)
        BY DEF MapsInv
      <3>3. \A h \in Holder : U!HoldersOf(c) = {h} => U!Cardinality(U!HoldersOf(c)) = 1
        <4>1. \A h \in Holder : Cardinality({h}) = 1
          BY FS_Singleton
        <4>2. \A T : U!Cardinality(T) = Cardinality(T)
          BY DEF U!Cardinality, Cardinality
        <4> QED
          BY <4>1, <4>2
      <3> QED
        BY <2>2, <3>1, <3>3 DEF MapOK
    <2>3. \A c \in Context :
            /\ fate[c] = "failed" => U!HoldersOf(c) = {} /\ pins[c] = 0 /\ frees[c] = 0
            /\ \A i \in DOMAIN faulted[c] : faulted[c][i] \in {U!NoPage, U!Page(context[c].range[1] + i * PageSize)}
      BY DEF MapsInv, MapOK
    <2> QED
      BY <2>1, <2>2, <2>3 DEF U!MapsReleasedOnce
  <1> QED
    BY <1>1, <1>2, <1>3, PTL DEF U!Spec
=============================================================================
