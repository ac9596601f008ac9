-------------------------- MODULE MCCatalogCache --------------------------
(* Model-checking instances of CatalogCache. *)
EXTENDS CatalogCache

\* A document that is cached at all has been written twice before it is stale.
MCMaxVersion == [k \in Key |-> IF k \in Single THEN 2 ELSE 1]
=============================================================================
