-------------------------- MODULE MCActionIntents --------------------------
(* ActionIntents on small instances.  Intents, users, requests, deliveries, *)
(* sessions and passes are interchangeable: no definition names one.        *)
EXTENDS ActionIntents, TLC

Symmetry ==
    UNION {Permutations(S) : S \in {Intents, Users, Requests, Deliveries, Sessions, Publishers}}
=============================================================================
