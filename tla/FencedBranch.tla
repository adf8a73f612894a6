---------------------------- MODULE FencedBranch ----------------------------
(***************************************************************************)
(* What the publication lease of a private shard promises to its users:    *)
(* the cache branch is advanced only by the current holder, who keeps the  *)
(* lease when it does so.  Holders may change at any moment.  PrivateLease *)
(* implements this specification and FamilyPublication is built on it.     *)
(***************************************************************************)
EXTENDS Naturals

CONSTANTS Owners, NoOwner

VARIABLES
    main,    \* the commit the cache branch names
    last,    \* who advanced it last
    holder   \* who holds the lease

Init == main = 1 /\ last = NoOwner /\ holder = NoOwner

Acquire == holder' \in Owners /\ UNCHANGED <<main, last>>

Release == holder' = NoOwner /\ UNCHANGED <<main, last>>

Advance ==
    /\ holder \in Owners
    /\ main' \in Nat
    /\ last' = holder
    /\ UNCHANGED holder

Next == Acquire \/ Release \/ Advance

Spec == Init /\ [][Next]_<<main, last, holder>>
=============================================================================
