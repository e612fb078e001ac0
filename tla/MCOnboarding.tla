---------------------------- MODULE MCOnboarding ----------------------------
(* Small instances of Onboarding. *)
EXTENDS Onboarding, TLC

OnboardingSymmetry == Permutations(Requests) \cup Permutations(Phones)
=============================================================================
