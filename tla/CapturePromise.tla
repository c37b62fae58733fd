---------------------------- MODULE CapturePromise ----------------------------
(***************************************************************************)
(* What captures promise of the money a customer has authorized, without   *)
(* calls, claims, leases and retries: a slice of it is set aside before it *)
(* is taken, what is taken of an operation is its slice, once, a slice     *)
(* goes back only if nothing was taken of it, and an operation that is     *)
(* settled has taken its slice and changes no more.                        *)
(***************************************************************************)
EXTENDS Naturals

CONSTANTS Operations, Authorized

VARIABLES
  free,     \* what is left of the authorization
  slice,    \* what is set aside for each operation
  taken,    \* what was taken for each
  settled   \* the operations that are over

vars == <<free, slice, taken, settled>>

Init ==
  /\ free \in {0, Authorized}
  /\ slice = [o \in Operations |-> 0]
  /\ taken = [o \in Operations |-> 0]
  /\ settled = {}

SetAside(o, n) ==
  /\ o \notin settled /\ slice[o] = 0
  /\ free' = free - n
  /\ slice' = [slice EXCEPT ![o] = n]
  /\ UNCHANGED <<taken, settled>>

GiveBack(o) ==
  /\ o \notin settled /\ taken[o] = 0
  /\ free' = free + slice[o]
  /\ slice' = [slice EXCEPT ![o] = 0]
  /\ UNCHANGED <<taken, settled>>

Take(o) ==
  /\ o \notin settled /\ taken[o] = 0 /\ slice[o] > 0
  /\ taken' = [taken EXCEPT ![o] = slice[o]]
  /\ UNCHANGED <<free, slice, settled>>

Settle(o) ==
  /\ taken[o] = slice[o]
  /\ settled' = settled \cup {o}
  /\ UNCHANGED <<free, slice, taken>>

\* Somebody else has taken the rest.
UseUp ==
  /\ free' = 0
  /\ UNCHANGED <<slice, taken, settled>>

Next ==
  \/ \E o \in Operations : \/ \E n \in 1..free : SetAside(o, n)
                           \/ GiveBack(o) \/ Take(o) \/ Settle(o)
  \/ UseUp

Spec == Init /\ [][Next]_vars
=============================================================================
