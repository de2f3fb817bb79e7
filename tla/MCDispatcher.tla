---------------------------- MODULE MCDispatcher ----------------------------
(***************************************************************************)
(* The dispatcher on a few pings and requests.  Riders are interchangeable *)
(* and the properties are invariants, so their permutations are a sound    *)
(* symmetry.                                                               *)
(***************************************************************************)
EXTENDS Dispatcher, TLC

RiderSymmetry == Permutations(Riders)
=============================================================================
