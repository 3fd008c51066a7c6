----------------------------- MODULE MCAccounts -----------------------------
(* Instances of Accounts for TLC.                                          *)
EXTENDS Accounts, TLC

\* An organization name that is another's slug with a suffix.
MCBases == {<<"acme">>, <<"acme", 2>>}

Symmetry == Permutations(Handlers)
=============================================================================
