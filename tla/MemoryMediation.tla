--------------------------- MODULE MemoryMediation ---------------------------
(***************************************************************************)
(* What a memory map promises ("mediates access to data, regardless of     *)
(* where it resides", memory_map.h): a client asks for a range of target   *)
(* addresses and is either refused, or given a view that shows, at every   *)
(* address it covers, the target's byte at that address.  A view that was  *)
(* asked for in full covers the whole range.  How the bytes get there is   *)
(* the business of the implementations.                                    *)
(***************************************************************************)
EXTENDS Integers

CONSTANTS Clients,      \* the threads that use the map
          MaxWord,      \* the last target address
          Requests,     \* [address, length, requireFull]: what may be asked for
          Nothing       \* no request, or no view

VARIABLES asked,        \* the range each client is waiting for, or is looking at
          view          \* what it sees: a function from addresses to the bytes read there

vars == <<asked, view>>

\* The view of n bytes from address a that shows each of them truthfully.
Truthful(a, n) == [x \in a .. (a + n - 1) |-> x]

Init == asked = [c \in Clients |-> Nothing] /\ view = [c \in Clients |-> Nothing]

Ask(c, r) ==
  /\ asked[c] = Nothing
  /\ asked' = [asked EXCEPT ![c] = r]
  /\ UNCHANGED view

Grant(c) ==
  /\ asked[c] # Nothing /\ view[c] = Nothing
  /\ \E n \in 0 .. MaxWord :
       /\ asked[c].requireFull => n >= asked[c].length
       /\ view' = [view EXCEPT ![c] = Truthful(asked[c].address, n)]
  /\ UNCHANGED asked

Refuse(c) ==
  /\ asked[c] # Nothing /\ view[c] = Nothing
  /\ asked' = [asked EXCEPT ![c] = Nothing]
  /\ UNCHANGED view

Close(c) ==
  /\ view[c] # Nothing
  /\ asked' = [asked EXCEPT ![c] = Nothing]
  /\ view' = [view EXCEPT ![c] = Nothing]

Next == \E c \in Clients : (\E r \in Requests : Ask(c, r)) \/ Grant(c) \/ Refuse(c) \/ Close(c)

Spec == Init /\ [][Next]_vars
=============================================================================
