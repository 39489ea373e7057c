------------------------------- MODULE SessionMap ------------------------------
(***************************************************************************)
(* What the handlers rely on in any session store (memory_store.Provider): *)
(* a map from keys to expiry times from which entries may vanish, into     *)
(* which they come only through Set, and in which a Set costs at most one  *)
(* entry of somebody else.                                                 *)
(***************************************************************************)
EXTENDS Functions

CONSTANT Keys

VARIABLE entries

Init == entries = [k \in {} |-> 0]

(* Some entries are gone, the others are untouched. *)
Lose(kept) == entries' = Restrict(entries, kept)

Drop == \E kept \in SUBSET DOMAIN entries : Lose(kept)

Put(k) ==
    /\ DOMAIN entries' \subseteq DOMAIN entries \cup {k}
    /\ k \in DOMAIN entries'
    /\ \A i, j \in DOMAIN entries \ DOMAIN entries' : i = j
    /\ \A j \in DOMAIN entries' \ {k} : entries'[j] = entries[j]

Next == Drop \/ \E k \in Keys : Put(k)

Spec == Init /\ [][Next]_entries

=============================================================================
