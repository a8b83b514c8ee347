------------------------------- MODULE MCListings -------------------------------
(***************************************************************************)
(* Books small enough to list in every way: three transactions of four     *)
(* kinds, two of which share an account with an empty user, two of which   *)
(* have no metadata, and two of which have accounts that are printed       *)
(* alike, dated in any order.                                              *)
(***************************************************************************)
EXTENDS Listings, MCWords

Leg(type, user, name, currency) ==
    [account |-> [type |-> type, user |-> user, name |-> name], currency |-> currency]

Cash(user, currency) == Leg("ASSETS", user, <<"cash">>, currency)
Food(currency) == Leg("EXPENSES", <<"alice">>, <<"cash">>, currency)

\* ASSETS:alice:b:cash, either of them.
HerBsCash == Leg("ASSETS", <<"alice">>, <<"b", "cash">>, "USD")
AliceBsCash == Leg("ASSETS", <<"alice", "b">>, <<"cash">>, "USD")

Order == [order |-> "1"]
OrderOnline == [order |-> "1", source |-> "web"]

Kinds == {
    [legs |-> <<HerBsCash, Food("USD")>>, metadata |-> <<>>],
    [legs |-> <<Cash(<<"">>, "USD"), Cash(<<"alice">>, "USD"), Food("USD")>>, metadata |-> Order],
    [legs |-> <<Food("EUR"), Cash(<<"">>, "EUR")>>, metadata |-> OrderOnline],
    [legs |-> <<Cash(<<"alice">>, "USD"), Cash(<<"alice">>, "USD"), AliceBsCash>>, metadata |-> <<>>]}

Dates == 1 .. 2

SmallBooks ==
    {{[id |-> i, key |-> ToString(i), date |-> dates[i]] @@ kinds[i] : i \in 1 .. 3} :
        <<kinds, dates>> \in [1 .. 3 -> Kinds] \X [1 .. 3 -> Dates]}

SmallPeriods == {<<Absent, Absent>>, <<2, Absent>>, <<Absent, 2>>, <<1, 2>>}

SmallPairs == {<<>>, Order, OrderOnline}
================================================================================
