---------------------------- MODULE Derivation ----------------------------
(* What the mapping database promises: every mapping of a page was derived  *)
(* from another one, and whoever holds a mapping can take away all that was *)
(* derived from it, at once and nothing else.  Mdb implements this with     *)
(* lists of nodes that hold no parent, only the depth of the derivation.    *)
EXTENDS FiniteSets

CONSTANTS Places,       \* page-table entries that can hold a mapping
          Regions,      \* parts of the page a revocation can be limited to
          sigma0,       \* where the first mapping of a page comes from
          null

VARIABLE from           \* the mapping each mapping was derived from

Held(p) == from[p] # null

\* The mappings p was derived from, directly or not, when `par' gives parents.
Ancestors(par) ==
    LET above[p \in Places] ==
            IF par[p] \in Places THEN {par[p]} \cup above[par[p]] ELSE {}
    IN  above
Derived(par, p) == {d \in Places : p \in Ancestors(par)[d]}

DerivationInit == from = [p \in Places |-> null]

Derive(p, q) ==
    /\ p = sigma0 \/ Held(p)
    /\ ~Held(q)
    /\ from' = [from EXCEPT ![q] = p]

\* Revoke what was derived from p, and p as well, as far as it is in `region'.
Revoke(p, self, region) ==
    LET gone == (Derived(from, p) \cup (IF self THEN {p} ELSE {})) \cap region
    IN  /\ Held(p)
        /\ from' = [q \in Places |-> IF q \in gone THEN null ELSE from[q]]

DerivationNext ==
    \/ \E p \in Places \cup {sigma0}, q \in Places : Derive(p, q)
    \/ \E p \in Places, self \in BOOLEAN, region \in Regions : Revoke(p, self, region)

DerivationSpec == DerivationInit /\ [][DerivationNext]_from
=============================================================================
