------------------------- MODULE MCGovernedStatement ------------------------
(* Two schemas that both declare a table t, and one alias.                  *)
EXTENDS GovernedStatement, TLC

MCSchemaOf == "a" :> "sales" @@ "b" :> "stock"
MCNameOf   == "a" :> "t" @@ "b" :> "t"
=============================================================================
