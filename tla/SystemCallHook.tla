--------------------------- MODULE SystemCallHook ---------------------------
(***************************************************************************)
(* The system call hook of the Linux and Posix layers: ZqInitSystemCalls-  *)
(* Hook stores the hook and then registers the kprobe whose handler calls  *)
(* it, while threads on other processors make system calls.  Nothing sets  *)
(* is_syscall_hook_initialized, so every call registers again; the kernel  *)
(* refuses a probe that is registered.  ZqUninitSystemCallsHook has no     *)
(* definition.                                                             *)
(***************************************************************************)
EXTENDS Naturals

CONSTANTS
  Hook,     \* hooks; each wants the calls of some threads
  Thread,   \* threads that make system calls
  NULL,
  MaxInits  \* calls of ZqInitSystemCallsHook

VARIABLES
  syscall_hook,
  registered,  \* the kprobe
  initing,     \* the hook that ZqInitSystemCallsHook is setting
  inits,
  seen,        \* of each thread inside the handler: the hook it read
  ran,         \* history: of each thread's last call, the hook that decided and whether the kernel ran it
  crashed      \* the handler called NULL

vars == <<syscall_hook, registered, initing, inits, seen, ran, crashed>>

TypeOK ==
  /\ syscall_hook \in Hook \cup {NULL} /\ registered \in BOOLEAN
  /\ initing \in Hook \cup {NULL} /\ inits \in 0..MaxInits
  /\ seen \in [Thread -> Hook \cup {NULL}]
  /\ ran \in [Thread -> [hook : Hook \cup {NULL}, kernel : BOOLEAN]]
  /\ crashed \in BOOLEAN

Init ==
  /\ syscall_hook = NULL /\ registered = FALSE
  /\ initing = NULL /\ inits = 0
  /\ seen = [t \in Thread |-> NULL]
  /\ ran = [t \in Thread |-> [hook |-> NULL, kernel |-> TRUE]]
  /\ crashed = FALSE

\* setSystemCallHook: its two steps.
StoresNothing(h) == NULL
StoredHook(h) == h

SetHook(h) ==
  /\ initing = NULL /\ inits < MaxInits
  /\ syscall_hook' = StoredHook(h)
  /\ initing' = h /\ inits' = inits + 1
  /\ UNCHANGED <<registered, seen, ran, crashed>>

\* init_system_calls_hook: register_kprobe may fail, and its result is ignored.
RegisterProbe(ok) ==
  /\ initing # NULL
  /\ registered' = (registered \/ ok)
  /\ initing' = NULL
  /\ UNCHANGED <<syscall_hook, inits, seen, ran, crashed>>

\* A traced thread's call: the kernel runs it, or the probe's handler gets it.
Call(t) ==
  /\ seen[t] = NULL
  /\ IF registered
     THEN /\ seen' = [seen EXCEPT ![t] = syscall_hook]
          /\ crashed' = (syscall_hook = NULL)
          /\ UNCHANGED ran
     ELSE /\ ran' = [ran EXCEPT ![t] = [hook |-> NULL, kernel |-> TRUE]]
          /\ UNCHANGED <<seen, crashed>>
  /\ UNCHANGED <<syscall_hook, registered, initing, inits>>

\* syscall_kprobe_pre_handler: a hook that wants the thread skips the kernel's
\* system call (regs->ip moves behind the probe).
PreHandler(t, wants) ==
  /\ seen[t] # NULL
  /\ ran' = [ran EXCEPT ![t] = [hook |-> seen[t], kernel |-> ~wants]]
  /\ seen' = [seen EXCEPT ![t] = NULL]
  /\ UNCHANGED <<syscall_hook, registered, initing, inits, crashed>>

Next ==
  /\ ~crashed
  /\ \/ \E h \in Hook : SetHook(h)
     \/ \E ok \in BOOLEAN : RegisterProbe(ok)
     \/ \E t \in Thread : Call(t) \/ \E wants \in BOOLEAN : PreHandler(t, wants)

Spec == Init /\ [][Next]_vars

\* On whatever processor and at whatever moment of a first or later
\* initialisation a system call hits the probe, there is a hook to call, and a
\* call that the kernel did not run was taken by a hook (SystemCalls.c 60-104).
HookFound ==
  /\ ~crashed
  /\ registered => syscall_hook # NULL
  /\ \A t \in Thread : ran[t].kernel \/ ran[t].hook # NULL
=============================================================================
