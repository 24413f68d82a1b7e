-------------------------- MODULE MCSessionObject --------------------------
(***************************************************************************)
(* Finite instances of SessionObject: s1 and s2 are connections of one     *)
(* runner process, s3 is the connection of another.                        *)
(***************************************************************************)
EXTENDS SessionObject, TLC

CONSTANTS c1, c2, r1, r2, s1, s2, s3

OneConnection    == s1 :> r1
TwoConnections   == s1 :> r1 @@ s2 :> r1
TwoRunners       == s1 :> r1 @@ s3 :> r2
ThreeConnections == s1 :> r1 @@ s2 :> r1 @@ s3 :> r2

OneJob          == c1 :> "start_job"
JobAndInterrupt == c1 :> "start_job" @@ c2 :> "interrupt_job"
=============================================================================
