----------------------------- MODULE MCSecrets -----------------------------
EXTENDS Secrets, TLC

CONSTANTS p1, p2, Prod, Exported, File

\* Started with nothing, in the mode that names a vault, or with a secret.
Started(mode, secret) == [n \in Names |-> IF n = "ENV" THEN mode ELSE IF n = Secret THEN secret ELSE None]

MCExports == {Started(None, None), Started(Prod, None), Started(Prod, Exported)}

\* No file, one that sets the mode, and one that sets a secret.
MCFiles == {<<>>, "ENV" :> Prod, Secret :> File}

ProcessSymmetry == Permutations(Processes)
=============================================================================
