--------------------------- MODULE MCSignInSystem ---------------------------
(* Small instances of SignInSystem for TLC. *)
EXTENDS SignInSystem, TLC

CONSTANTS p1, p2, w1, email, telegram1, telegram2

\* The form and the letters; logging in with Telegram; linking an account, while
\* another request creates a user for it.
MCWorkload == {{"email", "expire"}, {"email", "fail"}, {"email", "leave"},
               {"telegram", "expire"}, {"telegram", "fail"},
               {"telegram", "restart"}, {"telegram", "leave"},
               {"link", "auth", "fail"}}

Symmetry == Permutations(Process) \cup Permutations(Telegram)
=============================================================================
