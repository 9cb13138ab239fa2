---------------------------- MODULE MCOnboarding ----------------------------
(* Instances of Onboarding, with Access, for TLC: an owner and a customer who  *)
(* is registered already or asks for access, and who may join the owner.      *)
EXTENDS Onboarding

CONSTANTS boss, ann, r1, r2

=============================================================================
