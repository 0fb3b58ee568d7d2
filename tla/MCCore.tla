------------------------------- MODULE MCCore -------------------------------
(***************************************************************************)
(* The peers' services and the platform layers on small instances, each by *)
(* itself: the first state chooses which one the behavior is of.           *)
(***************************************************************************)
EXTENDS PeerLookup

CONSTANTS
  LocalThread, Unknown, NULL, MaxRequests,
  Lock, Native, Guard, Undefined, Taken, Gone,
  Context, Holder, Empty, PageSize, MaxPages, Ranges, Protections,
  Thread, MaxClients,
  Hook, MaxInits

\* What the proofs use of the constants: special values are no elements of the
\* sets they are told apart from, and bounds are numbers.
ASSUME HostAssumption == LocalThread \cap {NULL, Unknown} = {}
ASSUME LockAssumption ==
  /\ {Undefined, Taken, Gone} \cap Native = {} /\ Gone \notin Lock
  /\ Undefined # Taken /\ Undefined # Gone /\ Taken # Gone
ASSUME MemoryAssumption ==
  PageSize \in Nat \ {0} /\ Ranges \subseteq Nat \X Nat /\ {Empty, Gone} \cap Context = {}
ASSUME ServiceAssumption == MaxClients \in Nat
ASSUME HookAssumption == NULL \notin Hook /\ MaxInits \in Nat

VARIABLES
  which,  \* the part under check
  requests, count, hpc, request, thread, calls, answers, receipts, mCurrentTaskType, isComplete, received,
  kind, mLock, freed, readers, writer, guard, disturbed, lockCrash,
  mMaybe, context, pins, frees, faulted, fate,
  starting, iokit_cmdgate, gate, loads, unloads, clients, deferred, initialized,
  awake, pc, method, misuse,
  syscall_hook, initing, inits, seen, ran, probed, hookCrash

H == INSTANCE HostedThreads
L == INSTANCE Locks WITH crashed <- lockCrash
U == INSTANCE UserMemory
I == INSTANCE IOService
S == INSTANCE SystemCallHook WITH registered <- probed, crashed <- hookCrash

MCRanges == {<<0, 2>>, <<0, 4>>, <<1, 5>>}

hosted == <<requests, count, hpc, request, thread, calls, answers, receipts, mCurrentTaskType, isComplete, received>>
locks == <<kind, mLock, freed, readers, writer, guard, disturbed, lockCrash>>
memory == <<mMaybe, context, pins, frees, faulted, fate>>
service == <<starting, iokit_cmdgate, gate, loads, unloads, clients, deferred, initialized,
             awake, pc, method, misuse>>
hook == <<syscall_hook, initing, inits, seen, ran, probed, hookCrash>>

\* A part that is not under check starts from one of its initial states.
MCInit ==
  /\ which \in {"lookup", "hosted", "locks", "memory", "service", "hook"}
  /\ Init /\ H!Init /\ L!Init /\ U!Init /\ I!Init /\ S!Init
  /\ which # "lookup" => validTypes = {}
  /\ which # "locks" => kind = "rw"

MCNext ==
  \/ which = "lookup" /\ Next /\ UNCHANGED <<hosted, locks, memory, service, hook>>
  \/ which = "hosted" /\ H!Next /\ UNCHANGED <<vars, locks, memory, service, hook>>
  \/ which = "locks" /\ L!Next /\ UNCHANGED <<vars, hosted, memory, service, hook>>
  \/ which = "memory" /\ U!Next /\ UNCHANGED <<vars, hosted, locks, service, hook>>
  \/ which = "service" /\ I!Next /\ UNCHANGED <<vars, hosted, locks, memory, hook>>
  \/ which = "hook" /\ S!Next /\ UNCHANGED <<vars, hosted, locks, memory, service>>

MCSpec ==
  MCInit /\ [][MCNext /\ UNCHANGED which]_<<which, vars, hosted, locks, memory, service, hook>>

\* The type invariants of the six modules.
CoreTypeOK == TypeOK /\ H!TypeOK /\ L!TypeOK /\ U!TypeOK /\ I!TypeOK /\ S!TypeOK
\* No peer has more answers for a thread than times its request was done
\* (ProcessPeersServer).
AnsweredWasDone == H!AnsweredWasDone
\* A writing scoped lock is alone on its lock.
GuardsExclude == L!GuardsExclude
\* A native lock is freed once, by the one object that holds it.
NativeOwnedOnce == L!NativeOwnedOnce
\* Every pinned page and mapped area is given back once, with its map object.
MapsReleasedOnce == U!MapsReleasedOnce
\* ZqIOService's command gate is concluded once and then released once.
GateReleasedOnce == I!GateReleasedOnce
\* A system call that hits the probe finds a hook.
HookFound == S!HookFound
=============================================================================
