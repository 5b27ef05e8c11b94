---------------------------- MODULE MCBudgetGate ----------------------------
(* Small instances of BudgetGate: keys k1 and k2 (named s1 and s2) of one  *)
(* organization, legacy sessions s1, s2 and s3, and clients without either.*)
EXTENDS BudgetGate, TLC

CONSTANTS k1, k2, s1, s2, s3, o1, KeyBudget, OrgBudget

MCKeyName == [k \in Keys |-> IF k = k1 THEN s1 ELSE s2]
MCKeyOrg == [k \in Keys |-> IF Orgs = {} THEN NoOrg ELSE o1]
MCAllocated == [k \in Keys |-> KeyBudget]
MCOrgLimit == [o \in Orgs |-> OrgBudget]

\* Slots are alike; with the same budget, so are the keys with their names.
SlotSymmetry == Permutations(Slots)
KeySwap == k1 :> k2 @@ k2 :> k1 @@ s1 :> s2 @@ s2 :> s1
GateSymmetry == SlotSymmetry \cup {KeySwap}
=============================================================================
