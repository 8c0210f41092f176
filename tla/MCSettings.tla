----------------------------- MODULE MCSettings -----------------------------
(* Small instances of Settings: the thresholds 100 < 150 of the              *)
(* configuration and of the seed script, and bodies that raise the warning   *)
(* threshold, lower the critical one, set both, set the mail address, carry  *)
(* a null, are empty, or are inverted in themselves.                         *)
EXTENDS Settings, TLC

MCKeyValue == (Warning :> 100) @@ (Critical :> 150) @@ (Email :> 1)
MCPair == {Warning, Critical}
MCValues == {1, 2, 3, 80, 90, 100, 120, 130, 150}

MCPatches == { Warning :> 130,
               Critical :> 120,
               (Warning :> 80) @@ (Critical :> 90),
               (Critical :> 120) @@ (Email :> 2),
               (Warning :> 150) @@ (Critical :> 100),
               Warning :> Null,
               <<>> }

\* Bodies that set the mail address only.
MCMailPatches == { Email :> 2, Email :> 3 }

\* Requests are interchangeable: each may bring any of the bodies.
MCSymmetry == Permutations(Reqs)
=============================================================================
