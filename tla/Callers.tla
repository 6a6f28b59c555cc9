------------------------------ MODULE Callers ------------------------------
(***************************************************************************)
(* The billable calls of a server and who makes them.                      *)
(***************************************************************************)
EXTENDS Naturals, FiniteSets

CONSTANTS
    Calls,       \* billable calls; each makes at most one reservation
    Owners,      \* (tenant, principal) pairs
    OwnerOf      \* the owner of each call

ASSUME CallsAssumption == IsFiniteSet(Calls)
ASSUME OwnerAssumption == OwnerOf \in [Calls -> Owners]
=============================================================================
