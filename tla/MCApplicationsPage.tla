------------------------- MODULE MCApplicationsPage -------------------------
(* An instance of ApplicationsPage: two applications and the portal itself. *)
EXTENDS ApplicationsPage, TLC

\* 1 = "dev", 2 = "prod", 3 = "r#d", which arrives as 4 = "r".
MCArrives == <<1, 2, 4, 4>>

Env(e)   == <<"env", e>>
Space(s) == <<"space", s>>

\* Two environments, one of them in a second scope; one application without
\* an environment beside one whose name has a '#'; none with.
MCCatalogues ==
  {("wiki" :> <<Space(1), Env(2), Env(1)>>) @@ ("git" :> <<Env(1)>>) @@ ("portal" :> <<Env(1)>>),
   ("wiki" :> <<Env(3)>>) @@ ("git" :> <<<<"scope", 0>>, Space(2)>>) @@ ("portal" :> <<>>),
   ("wiki" :> <<>>) @@ ("git" :> <<Space(1)>>)}

MCClaims ==
  {Malformed, [c \in Clients |-> "some"], [[c \in Clients |-> "some"] EXCEPT !["git"] = "empty"]}
=============================================================================
