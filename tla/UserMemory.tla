----------------------------- MODULE UserMemory -----------------------------
(***************************************************************************)
(* Map::UserToKernel, Map::KernelToUser and Allocators::User of the Linux  *)
(* layer: the pages that ZqMmMapUserToKernel pins, the user areas that     *)
(* ZqMmMapKernelToUser and ZqMmAllocateUserMemory map, the faults of a     *)
(* mapped area, and the map objects, whose Optional is meant to release    *)
(* each context once however the objects are moved.                        *)
(***************************************************************************)
EXTENDS Integers, FiniteSets

CONSTANTS
  Context,   \* map contexts, each made by one Create
  Holder,    \* map objects, the ones inside an Expected included
  Empty,     \* an object whose Optional is not valid
  Gone,      \* an object that is not constructed
  PageSize,
  MaxPages,  \* pages get_user_pages pins at once
  Ranges,    \* the <<address, length>> pairs that are mapped
  Protections \* what a context's protection, which Create does not set, may hold

VARIABLES
  mMaybe,    \* the context in each object's Optional
  context,   \* what each context says
  pins,      \* of each context: pages pinned and not put, or areas mapped and not unmapped
  frees,     \* of each context: times its release ran
  faulted,   \* of each context: what the last fault of each page of its user area gave
  fate       \* history: how each context was treated

vars == <<mMaybe, context, pins, frees, faulted, fate>>

Blank == [to |-> "none", range |-> <<0, 0>>, pagesArraySize |-> 0]
NoPage == -1  \* a fault that ended with a signal
Fates == {"unused", "failed", "regular", "vmapFailed", "notPinned", "notMapped", "copied", "overwritten"}

TypeOK ==
  /\ mMaybe \in [Holder -> Context \cup {Empty, Gone}]
  /\ context \in [Context -> [to : {"none", "kernel", "user", "allocated"}, range : Ranges \cup {<<0, 0>>},
                              pagesArraySize : Nat]]
  /\ pins \in [Context -> Int] /\ frees \in [Context -> Nat]
  /\ \A c \in Context : DOMAIN faulted[c] \subseteq Nat
  /\ fate \in [Context -> Fates]

Init ==
  /\ mMaybe = [h \in Holder |-> Gone]
  /\ context = [c \in Context |-> Blank]
  /\ pins = [c \in Context |-> 0] /\ frees = [c \in Context |-> 0]
  /\ faulted = [c \in Context |-> <<>>]
  /\ fate = [c \in Context |-> "unused"]

-----------------------------------------------------------------------------
\* get_user_pages is asked for pages to write to: protection & PROT_WRITE.
PinsForWrite(protection) == (protection \div 2) % 2 = 1

\* memory_prot_to_pgprot_kernel: the page protection, by the accesses it allows.
\* A value that is no combination of the three flags is a bug that is logged.
Pgprot(protection) ==
  CASE protection = 0 -> {}
    [] protection = 1 -> {"read"}
    [] protection \in {4, 5} -> {"read", "exec"}
    [] protection \in {2, 3} -> {"read", "write"}
    [] protection \in {6, 7} -> {"read", "write", "exec"}
    [] OTHER -> {}

Page(address) == address \div PageSize
LastPage(range) == Page(range[1] + range[2] - 1)

\* pagesCount: the page of the last byte is not counted.
PagesCount(range) == LastPage(range) - Page(range[1])

\* zq_put_pages of n pages that are pinned by this call.
PutPages(pinned, n) == pinned - n

\* ZqMmMapUserToKernel where get_user_pages pins ret pages (a negative ret is
\* an error) and vmap succeeds or not: what stays pinned, and the result.  An
\* incomplete pin returns ret itself, and zero is ZQ_E_OK.
MapUserToKernel(count, ret, vmapped) ==
  IF ret # count
  THEN [pinned |-> IF ret > 0 THEN PutPages(ret, ret) ELSE 0, ok |-> ret = 0,
        fate |-> IF ret = 0 THEN "notPinned" ELSE "failed"]
  ELSE [pinned |-> ret, ok |-> vmapped, fate |-> IF vmapped THEN "regular" ELSE "vmapFailed"]

\* Create: the context goes into an object only if the result is ZQ_E_OK.
Keep(h, c, new, result) ==
  /\ mMaybe[h] = Gone /\ fate[c] = "unused"
  /\ context' = [context EXCEPT ![c] = new]
  /\ pins' = [pins EXCEPT ![c] = result.pinned]
  /\ fate' = [fate EXCEPT ![c] = result.fate]
  /\ mMaybe' = IF result.ok THEN [mMaybe EXCEPT ![h] = c] ELSE mMaybe
  /\ UNCHANGED <<frees, faulted>>

\* vmap maps at least one page.
CreateUserToKernel(h, c, range, ret, vmapped) ==
  LET count == PagesCount(range) IN
  /\ ret \in -1..count /\ (vmapped => count > 0)
  /\ Keep(h, c, [to |-> "kernel", range |-> range, pagesArraySize |-> count],
          MapUserToKernel(count, ret, vmapped))

\* ZqMmMapKernelToUser ignores vm_mmap's error: it always succeeds.  The area is
\* counted as one.  The kernel maps a file, here the kernel's memory, from the
\* start of a page.
MapKernelToUser(mapped) ==
  [pinned |-> IF mapped THEN 1 ELSE 0, ok |-> TRUE, fate |-> IF mapped THEN "regular" ELSE "notMapped"]

CreateKernelToUser(h, c, range, mapped) ==
  /\ mapped => range[1] % PageSize = 0
  /\ Keep(h, c, [to |-> "user", range |-> range, pagesArraySize |-> 1],
          MapKernelToUser(mapped))

\* ZqMmAllocateUserMemory takes an error of vm_mmap for the address.
AllocateUserMemory(mapped) == MapKernelToUser(mapped)

AllocateUser(h, c, mapped) ==
  Keep(h, c, [to |-> "allocated", range |-> <<0, 0>>, pagesArraySize |-> 1],
       AllocateUserMemory(mapped))

\* kernel_memory_vma_fault: the user touches a byte of a mapped area, and gets
\* the page at the same offset from the file's offset (vm_pgoff, in pages), or
\* VM_FAULT_SIGSEGV if vmalloc_to_page knows no page there.
VmaFault(range, offset, known) ==
  IF known THEN Page(offset + Page(range[1]) * PageSize) ELSE NoPage

Touches(c, offset) ==
  /\ context[c].to = "user" /\ pins[c] = 1 /\ fate[c] = "regular"
  /\ offset < context[c].range[2]
  /\ Page(offset) \in DOMAIN faulted[c] => faulted[c][Page(offset)] = NoPage

Fault(c, offset, known) ==
  /\ Touches(c, offset)
  /\ faulted' = [faulted EXCEPT ![c] =
                  [i \in DOMAIN @ \cup {Page(offset)} |->
                    IF i = Page(offset) THEN VmaFault(context[c].range, offset, known) ELSE @[i]]]
  /\ UNCHANGED <<mMaybe, context, pins, frees, fate>>

\* ZqMmUnmapUserToKernel; ZqMmUnmapKernelToUser and vm_munmap, which drop the
\* pages that faulted in.
Unmap(c) ==
  /\ pins' = [pins EXCEPT ![c] = PutPages(@, context[c].pagesArraySize)]
  /\ frees' = [frees EXCEPT ![c] = @ + 1]
  /\ faulted' = [faulted EXCEPT ![c] = <<>>]

\* The destructor: nothing to do for a moved map.  What follows a second release
\* of a context is not followed.
Destroy(h) ==
  /\ mMaybe[h] # Gone
  /\ mMaybe[h] \in Context => frees[mMaybe[h]] < 2 /\ context[mMaybe[h]].to # "allocated"
  /\ mMaybe' = [mMaybe EXCEPT ![h] = Gone]
  /\ IF mMaybe[h] \in Context THEN Unmap(mMaybe[h]) ELSE UNCHANGED <<pins, frees, faulted>>
  /\ UNCHANGED <<context, fate>>

\* Allocators::User::Deallocate, of the address the caller kept.
DeallocateUser(h) ==
  /\ mMaybe[h] \in Context /\ context[mMaybe[h]].to = "allocated"
  /\ mMaybe' = [mMaybe EXCEPT ![h] = Gone]
  /\ Unmap(mMaybe[h])
  /\ UNCHANGED <<context, fate>>

\* The move constructor is Optional's, which nulls the other.  get() asserts
\* that the other is valid, and dereferences null if it is not.
Share(h, other) == [mMaybe EXCEPT ![h] = mMaybe[other]]
TakeOver(h, other) == [mMaybe EXCEPT ![h] = mMaybe[other], ![other] = Empty]

IsMap(c) == c \in Context /\ context[c].to # "allocated"

Move(h, other) ==
  /\ mMaybe[h] = Gone /\ IsMap(mMaybe[other])
  /\ mMaybe' = TakeOver(h, other)
  /\ UNCHANGED <<context, pins, frees, faulted, fate>>

\* Move assignment is Optional's: it drops the context of the target, which is
\* plain data, and copies the other's, which stays valid.
AssignMoved(h, other) ==
  /\ h # other /\ (IsMap(mMaybe[h]) \/ mMaybe[h] = Empty) /\ IsMap(mMaybe[other])
  /\ mMaybe' = Share(h, other)
  /\ fate' = [c \in Context |-> IF c = mMaybe[other] THEN "copied"
                                ELSE IF c = mMaybe[h] THEN "overwritten" ELSE fate[c]]
  /\ UNCHANGED <<context, pins, frees, faulted>>

Next ==
  \/ \E h \in Holder, c \in Context, range \in Ranges, ret \in -1..MaxPages, vmapped \in BOOLEAN :
        CreateUserToKernel(h, c, range, ret, vmapped)
  \/ \E h \in Holder, c \in Context, mapped \in BOOLEAN :
        AllocateUser(h, c, mapped) \/ \E range \in Ranges : CreateKernelToUser(h, c, range, mapped)
  \/ \E c \in Context, known \in BOOLEAN : \E offset \in 0 .. context[c].range[2] - 1 : Fault(c, offset, known)
  \/ \E h \in Holder : Destroy(h) \/ DeallocateUser(h)
  \/ \E h, other \in Holder : Move(h, other) \/ AssignMoved(h, other)

Spec == Init /\ [][Next]_vars

-----------------------------------------------------------------------------
HoldersOf(c) == {h \in Holder : mMaybe[h] = c}

\* A context that no move assignment touched, whose Create succeeded with its
\* pages pinned and mapped, is in one object, with all that Create pinned, until
\* that object's destructor, the only one to release it, puts it all; a Create
\* whose pages were not all pinned keeps none of them.  The user gets each byte
\* of a mapped area from the page of the kernel's memory that holds it, or a
\* signal, and whatever the protection holds, the kernel can write only to pages
\* pinned for writing (Linux/OS/Memory.hpp 55-184; Linux/CppCore/Memory.c 37-57,
\* 69-155, 193-246).
MapsReleasedOnce ==
  /\ \A protection \in Protections : "write" \in Pgprot(protection) => PinsForWrite(protection)
  /\ \A c \in Context :
       /\ fate[c] = "regular" =>
            \/ Cardinality(HoldersOf(c)) = 1 /\ pins[c] = context[c].pagesArraySize /\ frees[c] = 0
            \/ HoldersOf(c) = {} /\ pins[c] = 0 /\ frees[c] = 1
       /\ fate[c] = "failed" => HoldersOf(c) = {} /\ pins[c] = 0 /\ frees[c] = 0
       /\ \A i \in DOMAIN faulted[c] : faulted[c][i] \in {NoPage, Page(context[c].range[1] + i * PageSize)}
=============================================================================
