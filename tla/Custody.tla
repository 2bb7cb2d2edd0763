------------------------------ MODULE Custody ------------------------------
(***************************************************************************)
(* What the ownership-transfer API promises for each buffer, seen from     *)
(* outside the Ring: who has it, the user, the library or the kernel, and  *)
(* between whom one step may move it. OwnedRing implements it.             *)
(*                                                                         *)
(* A buffer goes from the user to the library, which lends it to the       *)
(* kernel, and comes back the same way: the user never gets what the       *)
(* kernel still has, the library gives nothing back twice and lets nothing *)
(* go that the kernel has. Two kinds of buffers are outside the promise:   *)
(* one whose handle was cloned, until it is allocated anew, and one that   *)
(* the library has let go of against the promise, until the kernel is done *)
(* with it.                                                                *)
(***************************************************************************)
CONSTANT Buf

VARIABLES
  custody,   \* who can touch the memory of each buffer
  cloned,    \* buffers with a handle made by clone_handle
  forfeited  \* buffers that were let go of while the kernel had them

vars == <<custody, cloned, forfeited>>

Party == {"user", "library", "kernel"}

Init == custody = [b \in Buf |-> {}] /\ cloned = {} /\ forfeited = {}

---------------------------------------------------------------------------
(* What can happen to one buffer in one step.                              *)

From(b, c, cs) == custody[b] = c /\ custody'[b] \in cs

(* OwnedBuffer::new gives it to the user, accept_safe to an operation.     *)
Allocate(b) == From(b, {}, {{"user"}, {"library"}, {"library", "kernel"}})

(* The user submits it or drops it; a guard that is still out keeps the    *)
(* memory from the kernel.                                                 *)
HandOver(b) ==
  From(b, {"user"}, {{"library", "kernel"}, {"library"}, {"user", "library"}, {}})

(* The kernel answers; the library has kept the buffer for that.           *)
Answer(b) == From(b, {"library", "kernel"}, {{"library"}})

(* The future resolves: the user has the buffer again, or nobody has.      *)
GiveBack(b) == From(b, {"library"}, {{"user"}, {}})

(* The guard that was out ends before the operation does, or after.        *)
GuardEnds(b) == From(b, {"user", "library"}, {{"library"}, {"user"}})

Move(b) == Allocate(b) \/ HandOver(b) \/ Answer(b) \/ GiveBack(b) \/ GuardEnds(b)

---------------------------------------------------------------------------
(* Outside the promise.                                                    *)

(* Cloning needs a handle; after it anything can happen to the buffer, and *)
(* only a new allocation, of what nobody has, ends that.                   *)
Clone(b) == b \in cloned' /\ (b \in cloned \/ "user" \in custody[b])

(* The library lets go of a buffer it lent to the kernel: a use after      *)
(* free. Nothing is promised about the memory then, it may be allocated    *)
(* again at once.                                                          *)
Forfeit(b) == /\ b \in forfeited'
              /\ b \in forfeited \/ From(b, {"library", "kernel"}, {{"kernel"}})

(* When the kernel has answered, whoever has the memory has it by the      *)
(* rules again.                                                            *)
Orderly == {{}, {"user"}, {"library"}, {"user", "library"}, {"library", "kernel"}}
Recover(b) == b \in forfeited \ forfeited' /\ custody'[b] \in Orderly

Inside(b) == b \notin cloned' \union forfeited \union forfeited'

(* One call may end several operations, so several buffers move at once.   *)
Next ==
  /\ custody' \in [Buf -> SUBSET Party]
  /\ cloned' \subseteq Buf /\ forfeited' \subseteq Buf
  /\ \A b \in Buf : \/ Clone(b)
                    \/ b \notin cloned' /\ (Forfeit(b) \/ Recover(b))
                    \/ Inside(b) /\ Move(b)
                    \/ Inside(b) /\ b \notin cloned /\ custody'[b] = custody[b]

Spec == Init /\ [][Next]_vars
=============================================================================
