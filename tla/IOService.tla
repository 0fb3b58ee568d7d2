----------------------------- MODULE IOService ------------------------------
(***************************************************************************)
(* ZqIOService of the IOKit layer.  IOKit calls start, terminate, stop and *)
(* setPowerState from threads of its own, and "start/stop/terminate are    *)
(* not serialized": each of them tests iokit_cmdgate and then reads it     *)
(* again to run an action on the gate, and two of them may tear it down.   *)
(* Members and methods the class uses but does not declare (clients,       *)
(* initialized, wake, sleep, conclude) are taken as their names say.       *)
(***************************************************************************)
EXTENDS Naturals

CONSTANTS
  Thread,    \* threads of IOKit
  MaxClients \* user clients that open the service

VARIABLES
  starting,       \* how far start has come
  iokit_cmdgate,  \* the member: TRUE while it is not null
  gate,           \* what was done to the gate: its conclusions and releases
  loads, unloads, \* calls of ZqOnLoad and ZqOnUnload
  clients,
  deferred,       \* what didTerminate answered last
  initialized,    \* PMinit has run and PMstop has not
  awake,          \* getPowerState()
  pc, method,     \* where each thread is, and in which method
  misuse          \* what the gate was when a thread used it and it was not there

vars == <<starting, iokit_cmdgate, gate, loads, unloads, clients, deferred, initialized,
          awake, pc, method, misuse>>

Tearing == {"tearDown", "swap", "conclude", "release", "powerOff"}
GateMade == {"addGate", "power", "done"}
Starting == {"no", "failed", "load", "makeGate"} \cup GateMade

TypeOK ==
  /\ starting \in Starting /\ iokit_cmdgate \in BOOLEAN
  /\ gate \in [concluded : Nat, released : Nat]
  /\ loads \in Nat /\ unloads \in Nat
  /\ clients \in 0..MaxClients /\ deferred \in BOOLEAN
  /\ initialized \in BOOLEAN /\ awake \in BOOLEAN
  /\ pc \in [Thread -> {"idle", "tested", "running", "clients"} \cup Tearing]
  /\ method \in [Thread -> {"none", "terminate", "stop", "sleep", "wake"}]
  /\ misuse \in {"none", "null", "released"}

\* init() has run: it calls ZqOnLoad.
Init ==
  /\ starting = "no" /\ iokit_cmdgate = FALSE
  /\ gate = [concluded |-> 0, released |-> 0]
  /\ loads = 1 /\ unloads = 0
  /\ clients = 0 /\ deferred = FALSE
  /\ initialized = FALSE /\ awake = FALSE
  /\ pc = [t \in Thread |-> "idle"] /\ method = [t \in Thread |-> "none"]
  /\ misuse = "none"

Goto(t, where) == pc' = [pc EXCEPT ![t] = where] /\ UNCHANGED method
Enter(t, where, what) ==
  pc[t] = "idle" /\ pc' = [pc EXCEPT ![t] = where] /\ method' = [method EXCEPT ![t] = what]
Return(t) == pc' = [pc EXCEPT ![t] = "idle"] /\ method' = [method EXCEPT ![t] = "none"]

-----------------------------------------------------------------------------
(* start, which IOKit calls once for an object ("in a single threaded      *)
(* manner for each device object"), but not serialized with the others.    *)

\* The super class may refuse.
Start(ok) ==
  /\ starting = "no" /\ starting' = IF ok THEN "load" ELSE "failed"
  /\ UNCHANGED <<iokit_cmdgate, gate, loads, unloads, clients, deferred, initialized,
                 awake, pc, method, misuse>>

StartLoads ==
  /\ starting = "load" /\ starting' = "makeGate"
  /\ loads' = loads + 1
  /\ UNCHANGED <<iokit_cmdgate, gate, unloads, clients, deferred, initialized,
                 awake, pc, method, misuse>>

MakeGate ==
  /\ starting = "makeGate" /\ starting' = "addGate"
  /\ iokit_cmdgate' = TRUE
  /\ UNCHANGED <<gate, loads, unloads, clients, deferred, initialized,
                 awake, pc, method, misuse>>

\* addEventSource reads the member again.
AddGate ==
  /\ starting = "addGate" /\ starting' = "power"
  /\ misuse' = IF iokit_cmdgate THEN "none" ELSE "null"
  /\ UNCHANGED <<iokit_cmdgate, gate, loads, unloads, clients, deferred, initialized,
                 awake, pc, method>>

\* PMinit, and the calls that let IOKit change the power state.
StartPower ==
  /\ starting = "power" /\ starting' = "done"
  /\ initialized' = TRUE
  /\ UNCHANGED <<iokit_cmdgate, gate, loads, unloads, clients, deferred,
                 awake, pc, method, misuse>>

-----------------------------------------------------------------------------
(* The clients, terminate, stop and setPowerState.                         *)

Open ==
  /\ starting = "done" /\ clients < MaxClients
  /\ clients' = clients + 1
  /\ UNCHANGED <<starting, iokit_cmdgate, gate, loads, unloads, deferred, initialized,
                 awake, pc, method, misuse>>

Close ==
  /\ clients > 0
  /\ clients' = clients - 1
  /\ UNCHANGED <<starting, iokit_cmdgate, gate, loads, unloads, deferred, initialized,
                 awake, pc, method, misuse>>

\* terminate: a device that is awake is put to sleep through the gate.
Terminate(t) ==
  /\ Enter(t, IF iokit_cmdgate /\ initialized /\ awake THEN "tested" ELSE "clients", "terminate")
  /\ UNCHANGED <<starting, iokit_cmdgate, gate, loads, unloads, clients, deferred, initialized,
                 awake, misuse>>

\* setPowerState to another state than the device is in.
SetPowerState(t, on) ==
  /\ initialized /\ on # awake
  /\ IF iokit_cmdgate THEN Enter(t, "tested", IF on THEN "wake" ELSE "sleep") /\ UNCHANGED awake
     ELSE pc[t] = "idle" /\ awake' = on /\ UNCHANGED <<pc, method>>
  /\ UNCHANGED <<starting, iokit_cmdgate, gate, loads, unloads, clients, deferred, initialized,
                 misuse>>

\* runAction(__sleep), runAction(__wake): the member is read again,
ReadAgain(t) ==
  /\ pc[t] = "tested"
  /\ misuse' = IF iokit_cmdgate THEN "none" ELSE "null"
  /\ Goto(t, "running")
  /\ UNCHANGED <<starting, iokit_cmdgate, gate, loads, unloads, clients, deferred, initialized,
                 awake>>

\* and the action runs on the gate that was read.  Power management, which knows
\* a state when setPowerState returns, is not involved in terminate's sleep.
RunAction(t) ==
  /\ pc[t] = "running"
  /\ misuse' = IF gate.released = 0 THEN "none" ELSE "released"
  /\ IF method[t] = "terminate" THEN Goto(t, "clients") /\ UNCHANGED awake
     ELSE Return(t) /\ awake' = (method[t] = "wake")
  /\ UNCHANGED <<starting, iokit_cmdgate, gate, loads, unloads, clients, deferred, initialized>>

\* terminate goes on to tear_down unless there are clients.
TestClients(t) ==
  /\ pc[t] = "clients"
  /\ IF clients = 0 THEN Goto(t, "tearDown") ELSE Return(t)
  /\ UNCHANGED <<starting, iokit_cmdgate, gate, loads, unloads, clients, deferred, initialized,
                 awake, misuse>>

\* didTerminate: a device with clients defers its termination, and nothing of
\* the class looks at the deferral again.
DidTerminate(t) ==
  /\ pc[t] = "idle" /\ deferred' = (clients # 0)
  /\ UNCHANGED <<starting, iokit_cmdgate, gate, loads, unloads, clients, initialized,
                 awake, pc, method, misuse>>

\* stop waits until nobody has the device open.
Stop(t) ==
  /\ clients = 0 /\ Enter(t, "tearDown", "stop")
  /\ UNCHANGED <<starting, iokit_cmdgate, gate, loads, unloads, clients, deferred, initialized,
                 awake, misuse>>

-----------------------------------------------------------------------------
(* tear_down: read the gate, swap the member for null, conclude, release,  *)
(* and, for every caller, stop power management.                           *)

ReadGate(t) ==
  /\ pc[t] = "tearDown"
  /\ Goto(t, IF iokit_cmdgate THEN "swap" ELSE "powerOff")
  /\ UNCHANGED <<starting, iokit_cmdgate, gate, loads, unloads, clients, deferred, initialized,
                 awake, misuse>>

\* OSCompareAndSwapPtr succeeds for one thread.
SwapAlways == TRUE
SwapSucceeds == iokit_cmdgate

SwapGate(t) ==
  /\ pc[t] = "swap"
  /\ iokit_cmdgate' = FALSE
  /\ Goto(t, IF SwapSucceeds THEN "conclude" ELSE "powerOff")
  /\ UNCHANGED <<starting, gate, loads, unloads, clients, deferred, initialized,
                 awake, misuse>>

\* runAction(__conclude).
Conclude(t) ==
  /\ pc[t] = "conclude"
  /\ gate' = [gate EXCEPT !.concluded = @ + 1]
  /\ Goto(t, "release")
  /\ UNCHANGED <<starting, iokit_cmdgate, loads, unloads, clients, deferred, initialized,
                 awake, misuse>>

\* removeEventSource and release.
Release(t) ==
  /\ pc[t] = "release"
  /\ gate' = [gate EXCEPT !.released = @ + 1]
  /\ Goto(t, "powerOff")
  /\ UNCHANGED <<starting, iokit_cmdgate, loads, unloads, clients, deferred, initialized,
                 awake, misuse>>

\* PMstop, also by a thread that did not take the gate.
PowerOff(t) ==
  /\ pc[t] = "powerOff" /\ Return(t)
  /\ initialized' = FALSE
  /\ UNCHANGED <<starting, iokit_cmdgate, gate, loads, unloads, clients, deferred, awake, misuse>>

\* free(), when no thread is in a method: of a service that was started or not.
Free ==
  /\ starting \in {"no", "failed", "done"} /\ \A t \in Thread : pc[t] = "idle"
  /\ unloads' = unloads + 1
  /\ UNCHANGED <<starting, iokit_cmdgate, gate, loads, clients, deferred, initialized,
                 awake, pc, method, misuse>>

Next ==
  /\ misuse = "none" /\ unloads = 0
  /\ \/ \E ok \in BOOLEAN : Start(ok)
     \/ StartLoads \/ MakeGate \/ AddGate \/ StartPower \/ Open \/ Close \/ Free
     \/ \E t \in Thread : \/ Terminate(t) \/ ReadAgain(t) \/ RunAction(t) \/ TestClients(t)
                          \/ DidTerminate(t) \/ Stop(t)
                          \/ ReadGate(t) \/ SwapGate(t) \/ Conclude(t) \/ Release(t) \/ PowerOff(t)
                          \/ \E on \in BOOLEAN : SetPowerState(t, on)

Spec == Init /\ [][Next]_vars

-----------------------------------------------------------------------------
\* However start, terminate, stop and setPowerState interleave, the gate is
\* concluded and then released, each once, by the thread whose swap took it, and
\* no gate that was taken stays unreleased (EntryPoints.cpp 85-100, 105-109,
\* 171-218).
GateReleasedOnce ==
  /\ gate.concluded <= 1 /\ gate.released <= gate.concluded
  /\ starting \in GateMade /\ ~iokit_cmdgate /\ (\A t \in Thread : pc[t] \notin {"conclude", "release"}) =>
       gate.released = 1
=============================================================================
