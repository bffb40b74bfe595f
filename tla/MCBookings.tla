----------------------------- MODULE MCBookings -----------------------------
(* A small instance of Bookings for TLC.                                   *)
EXTENDS Bookings, TLC

MCPolicies == [approval : BOOLEAN, charged : BOOLEAN]

=============================================================================
