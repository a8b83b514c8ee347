------------------------------- MODULE MCClients -------------------------------
(***************************************************************************)
(* Clients with the calls, the contents and the amounts its pure parts are *)
(* checked on.                                                             *)
(***************************************************************************)
EXTENDS Clients, MCWords

Tokens ==
    {Absent} \cup [valid : BOOLEAN, scopes : SUBSET {"ledger:read", "ledger:write"}]

\* Account types 0 and 6 are the unspecified one and one of a newer build.
Accounts == {Absent} \cup [type : {0, 1, 5, 6}, user : {""}, name : {"cash"}]

Money(currency, units, nanos) == [currency |-> currency, units |-> units, nanos |-> nanos]

Postings ==
    {[account |-> account, amount |-> Money("USD", 1, 0)] : account \in Accounts}
    \cup {[account |-> [type |-> 5, user |-> "", name |-> "cash"], amount |-> amount] :
            amount \in {Absent, Money("usd", -1, 0), Money("USD", 0, -5), Money("", 0, -5),
                        Money("eur", -1, 0), Money("USD", -1, 5), Money("USD", 0, 0),
                        Money("USD", 0, -NanosPerUnit), Money("usd", -2, 0), Money("USD", -MaxUnits - 1, 0)}}

Good == <<[account |-> [type |-> 1, user |-> "", name |-> "cash"], amount |-> Money("usd", 1, 0)],
          [account |-> [type |-> 5, user |-> "", name |-> "cash"], amount |-> Money("USD", -1, 0)]>>

Request(key, note, metadata, postings, verify) ==
    [key |-> key, note |-> note, metadata |-> metadata, postings |-> postings, verify |-> verify]

Requested ==
    {Request(key, note, metadata, Good, verify) :
        key \in {"", "k"}, note \in {"", "n"},
        metadata \in {<<>>, [word \in {"order"} |-> ""], [word \in {""} |-> "1"]},
        verify \in {<<>>} \cup {<<account>> : account \in Accounts}}
    \cup {Request("k", "n", <<>>, postings, <<>>) :
            postings \in UNION {[1 .. n -> Postings] : n \in 0 .. 3}}

Writer == [valid |-> TRUE, scopes |-> {"ledger:write"}]

SomeCalls ==
    [path : {Absent} \cup DOMAIN Routes, method : {Record, HealthCheck, "/v1.Ledger/Nothing"} \cup Reads,
     token : Tokens, request : {Absent, Request("k", "n", <<>>, Good, <<>>)}]
    \cup [path : {Absent, "/v1/ledger/transactions"}, method : {Record}, token : {Writer},
          request : Requested]

\* To either side of where the digits run out.
SomeAmounts == -2^(Precision + 1) .. 2^(Precision + 1)

Figures == [digit \in 0 .. 9 |-> ToString(digit)]

Characters == {Figures[digit] : digit \in 0 .. 9} \cup {"n", "d", "m", "p", ":", "=", ";", "A", "U"}

\* Texts that look like what the format puts between them.
Texts == {<<>>, <<"1">>, <<":">>, <<"1", ":">>, <<":", "1">>, <<"1", "1">>, <<"p", "=">>}

Pair(key, value) == [text \in {key} |-> value]

Metadata ==
    {<<>>} \cup {Pair(key, value) : key \in Texts \ {<<>>}, value \in Texts}
           \cup {Pair(<<"1">>, value) @@ Pair(<<":">>, other) : value, other \in {<<>>, <<"1">>, <<":">>}}

Parts(user, name) == <<<<"A">>, user, name, <<"U">>, <<"1">>>>

SomeDrafts ==
    [note : Texts \ {<<>>}, date : {NoText, <<"1">>}, metadata : Metadata,
     postings : {<<Parts(user, <<>>)>> : user \in Texts} \cup {<<Parts(<<>>, name)>> : name \in Texts}]
    \cup [note : {<<"1">>}, date : {NoText, <<"1">>}, metadata : {<<>>},
          postings : {<<Parts(user, name), Parts(other, <<>>)>> : user, name, other \in Texts}]
================================================================================
