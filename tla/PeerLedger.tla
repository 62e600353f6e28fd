----------------------------- MODULE PeerLedger -----------------------------
(***************************************************************************)
(* What the client registry promises: a table of slots that changes one    *)
(* slot at a time, each change checked and applied at one instant.  The    *)
(* operations are the documented ones of operations.py, without processes, *)
(* locks, files or an interface.  ClientRegistry implements it.            *)
(***************************************************************************)
EXTENDS Naturals

CONSTANTS Names, PoolSize

VARIABLE slots

Slot == [st : {"absent", "active", "disabled", "revoked"},
         key : Nat, addr : Nat, exp : BOOLEAN]
Absent == [st |-> "absent", key |-> 0, addr |-> 0, exp |-> FALSE]

InUse(s) == s.st \in {"active", "disabled"}

Init == slots = [n \in Names |-> Absent]

\* A change of slot n alone, from slots[n] to slots'[n].
Only(n) ==
    /\ slots' \in [Names -> Slot]
    /\ \A m \in Names \ {n} : slots'[m] = slots[m]

\* A free name gets an address nobody in use has, with a key of its own or,
\* with key 0, as a reservation to be enrolled later.
Register(n) ==
    LET new == slots'[n] IN
    /\ Only(n)
    /\ ~InUse(slots[n])
    /\ new.st = "active"
    /\ new.addr \in 1..PoolSize
    /\ \A m \in Names : InUse(slots[m]) => slots[m].addr # new.addr
    /\ new.key = 0 \/ \A m \in Names : slots[m].key # new.key

\* A reservation is enrolled once: enrolment never replaces a key.
Enrol(n) ==
    LET old == slots[n]  new == slots'[n] IN
    /\ Only(n)
    /\ InUse(old) /\ old.key = 0
    /\ new.key # 0 /\ new = [old EXCEPT !.key = new.key]

\* Enabling and disabling keep everything but the state.
Switch(n) ==
    LET old == slots[n]  new == slots'[n] IN
    /\ Only(n)
    /\ InUse(old) /\ InUse(new)
    /\ new = [old EXCEPT !.st = new.st]

\* A rotation replaces the key by a newer one and keeps the rest.
Rotate(n) ==
    LET old == slots[n]  new == slots'[n] IN
    /\ Only(n)
    /\ InUse(old)
    /\ new.key > old.key /\ new = [old EXCEPT !.key = new.key]

\* Revoking is final for this registration of the name.
Revoke(n) ==
    LET old == slots[n]  new == slots'[n] IN
    /\ Only(n)
    /\ InUse(old)
    /\ new = [old EXCEPT !.st = "revoked"]

Next == \E n \in Names :
    Register(n) \/ Enrol(n) \/ Switch(n) \/ Rotate(n) \/ Revoke(n)

Spec == Init /\ [][Next]_slots

\* What the clients rely on: whoever is in use has an address of the pool, alone.
Separate ==
    /\ slots \in [Names -> Slot]
    /\ \A n \in Names : InUse(slots[n]) =>
          /\ slots[n].addr \in 1..PoolSize
          /\ \A m \in Names \ {n} : InUse(slots[m]) => slots[m].addr # slots[n].addr
=============================================================================
