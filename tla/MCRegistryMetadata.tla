------------------------- MODULE MCRegistryMetadata -------------------------
(* Two analyses that ask for the sizes of the same packages, one of which the  *)
(* registry does not list; one of them asks for health facts as well.          *)
EXTENDS RegistryMetadata

MCWanted ==
    [r \in Runs |->
        IF r = 1 THEN [facts |-> {1, 2}, sizes |-> {1, 2, 3}]
                 ELSE [facts |-> {}, sizes |-> {1, 2, 3}]]
=============================================================================
