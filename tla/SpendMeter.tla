----------------------------- MODULE SpendMeter -----------------------------
(***************************************************************************)
(* What a budget circuit breaker promises, without saying how it reads the *)
(* ledger.  A meter counts what has been booked.  A request may be         *)
(* admitted only while the meter is below the line; an admitted request    *)
(* holds two open items, its input cost and its output cost, and books at  *)
(* most MaxCost for each, at any later time.  The breaker is therefore not *)
(* a hard limit: what it does limit is the excess, to two items for every  *)
(* request that can be in flight at once and for every admission whose     *)
(* check was waived because the ledger could not be read.                  *)
(***************************************************************************)
EXTENDS Naturals, FiniteSets

CONSTANTS
  Slots,      \* requests that can be in flight at the same time
  MaxCost,    \* the most one item books
  Line        \* the spend at which the breaker trips

ASSUME MeterAssumption ==
  /\ IsFiniteSet(Slots)
  /\ MaxCost \in Nat
  /\ Line \in Nat \ {0}

VARIABLES
  meter,      \* spend booked so far
  open,       \* items admitted and not yet booked or dropped
  waived      \* admissions that skipped the check

meterVars == <<meter, open, waived>>

Parts == {"in", "out"}
ItemsOf(r) == {r} \X Parts

MeterTypeOK ==
  /\ meter \in Nat
  /\ open \subseteq Slots \X Parts
  /\ waived \in Nat

MeterInit ==
  /\ meter = 0
  /\ open = {}
  /\ waived = 0

\* Mutant: the line itself still admits.
AdmitAtLine(r) ==
  /\ meter <= Line
  /\ open' = open \cup ItemsOf(r)
  /\ UNCHANGED <<meter, waived>>

\* The check saw the meter below the line.
Admit(r) ==
  /\ meter < Line
  /\ open' = open \cup ItemsOf(r)
  /\ UNCHANGED <<meter, waived>>

\* The check failed and the request was let through.
Waive(r) ==
  /\ waived' = waived + 1
  /\ open' = open \cup ItemsOf(r)
  /\ UNCHANGED meter

\* Open items are closed and together book c, at most MaxCost: one of them
\* is booked, the others are dropped (a refusal, a lost stream, a crash).
Close(items, c) ==
  /\ items # {} /\ items \subseteq open
  /\ meter' = meter + c
  /\ open' = open \ items
  /\ UNCHANGED waived

\* The operator erases the spend.
Erase ==
  /\ meter' = 0
  /\ UNCHANGED <<open, waived>>

MeterNext ==
  \/ \E r \in Slots : Admit(r) \/ Waive(r)
  \/ \E items \in SUBSET open, c \in 0 .. MaxCost : Close(items, c)
  \/ Erase

MeterSpec == MeterInit /\ [][MeterNext]_meterVars

----------------------------------------------------------------------------
(* The most that requests admitted under the rules can add above the line. *)
Excess == 2 * MaxCost * (Cardinality(Slots) + waived)

(* Even if every open item books its full cost, the meter stays within the *)
(* excess: this is the invariant that is inductive.                        *)
CreditBound == meter + MaxCost * Cardinality(open) < Line + Excess

(* The spend of a budget never exceeds its line by more than the excess    *)
(* (middleware.go: the checks and the later RecordTransaction calls).      *)
OverspendBound == meter < Line + Excess
=============================================================================
