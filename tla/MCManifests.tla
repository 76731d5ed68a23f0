---------------------------- MODULE MCManifests ----------------------------
(***************************************************************************)
(* Manifests for TLC: every order of every subset of the three instances,  *)
(* configurations of four tenants in the three of them, and an API in the  *)
(* namespace of the metrics or, as in production, in none.                 *)
(***************************************************************************)
EXTENDS Manifests, SequencesExt

Some == {"rhobs", "rhacs", "rhel", "telemeter"}

MCConfigs ==
    [ns        : {"rhobs"},
     apiNs     : {"rhobs", ""},
     instances : UNION {SetToSeqs(I) : I \in SUBSET {"default", "rhel",
                                                     "telemeter"}},
     tenants   : UNION {[D -> {"unlimited", "limited"}] : D \in SUBSET Some}]
=============================================================================
