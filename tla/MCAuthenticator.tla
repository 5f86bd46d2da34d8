--------------------------- MODULE MCAuthenticator ---------------------------
(***************************************************************************)
(* Instances of Authenticator for TLC.                                     *)
(***************************************************************************)
EXTENDS Authenticator, TLC

(* Tabs, and addresses, differ in nothing but their names. *)
NameSymmetry == Permutations(Tabs) \cup Permutations(Addresses)
=============================================================================
