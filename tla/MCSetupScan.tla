----------------------------- MODULE MCSetupScan -----------------------------
(* Orders with a pair of look-alike customer keys, a price stored twice and *)
(* a region stored under three names; customers they are not joined to.     *)
EXTENDS SetupScan

MCTables  == {"orders", "customers"}
MCTableOf == [c \in {"cust", "custid", "price", "price2", "region", "regionname", "regionid", "placed"}
                  |-> "orders"] @@ "id" :> "customers" @@ "list_price" :> "customers"
MCById    == <<"cust", "custid", "id", "list_price", "placed", "price", "price2", "region", "regionid", "regionname">>
Keys      == {"cust", "custid"}
Prices    == {"price", "price2"}
Regions   == {"region", "regionname"}
RegionIds == {"region", "regionid"}
MCAlike       == <<Keys, Prices, Regions, RegionIds>>
MCSiblingsOf  == Keys :> {} @@ Prices :> {} @@ Regions :> {"regionid"} @@ RegionIds :> {}
MCAlikeAcross == {{"cust", "id"}, {"custid", "id"}}
MCNamed       == "price" :> {"price", "price2", "list_price"}
MCCategorical == {"region"}
MCStatusNamed == {"regionname"}

Base ==
    [distinct |-> [c \in Columns |-> IF c \in Keys \cup {"id"} THEN 8
                                    ELSE IF c \in Prices THEN 6 ELSE 3],
     rows |-> [t \in Tables |-> 8],
     domain |-> [c \in Columns |-> IF c \in Keys \cup {"id"} THEN "keys" ELSE c],
     differing |-> [p \in Range(Alike) |-> "some"],
     sentinel |-> {"regionname", "price2"},
     unreadable |-> {}, excluded |-> {}, suspect |-> {},
     described |-> Columns \cup {"customers"}, joined |-> {}]

\* The keys agree; a key is not readable; the region has a copy of its own
\* vocabulary and the tables a join; a table is excluded.
MCWorlds ==
    {Base,
     [Base EXCEPT !.differing[Keys] = "none", !.differing[Prices] = "more",
                  !.suspect = {"region"}],
     [Base EXCEPT !.unreadable = {"regionid"}, !.excluded = {"price2"},
                  !.described = {}, !.domain["custid"] = "other"],
     [Base EXCEPT !.distinct["regionid"] = 8, !.joined = {Tables}],
     [Base EXCEPT !.excluded = {"customers"}]}
==============================================================================
