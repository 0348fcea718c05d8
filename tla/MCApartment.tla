---------------------------- MODULE MCApartment ----------------------------
(* A small instance of the apartment for TLC: two calls and two posts.     *)
EXTENDS Apartment, TLC

CONSTANTS m1, m2, m3, m4, r1, r2

MCReply == m1 :> r1 @@ m2 :> r2 @@ m3 :> r1 @@ m4 :> r2
=============================================================================
