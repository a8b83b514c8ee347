-------------------------------- MODULE Listings --------------------------------
(***************************************************************************)
(* What the ledger's reads select and how they lay it out, on tables that  *)
(* hold still (Register has the same pages while a register grows).  A     *)
(* book is a set of transactions with their legs in the order they were    *)
(* posted; ids follow the order of recording, dates need not.              *)
(***************************************************************************)
EXTENDS Register, CommandLine

CONSTANTS
    Books,      \* the tables a read may find
    Periods,    \* the date ranges asked for, as <<start, end>>
    Pairs,      \* the metadata asked for
    MaxLegs     \* bound: legs of a transaction

\* A leg as it is stored: its type by its name, its user and name not null.
IsLeg(leg) ==
    /\ leg.account = [type |-> leg.account.type, user |-> leg.account.user, name |-> leg.account.name]
    /\ \E type \in DOMAIN TypeNames : leg.account.type = TypeNames[type]
    /\ IsText(leg.account.user) /\ IsText(leg.account.name)

\* equalIfSet, for columns that never hold the empty string.
IfSet(asked, stored) == asked = "" \/ stored = asked

\* Slip: an empty text filters on nothing.
IfGivenOrEmpty(asked, stored) == asked \in {Absent, <<"">>} \/ stored = asked

\* equalIfGiven: the empty text asks for the empty text, and for no other.
IfGiven(asked, stored) == asked = Absent \/ stored = asked

\* What the service asks the repository for: the stored form of a type and a currency,
\* and a user and a name as they came, or not at all.
Asked(filter) ==
    [filter EXCEPT !.type = AccountTypeToString(filter.type), !.currency = UpperCased[filter.currency]]

SelectsAccount(asked, row) ==
    /\ IfSet(asked.type, row.account.type)
    /\ IfGiven(asked.user, row.account.user)
    /\ IfGiven(asked.name, row.account.name)
    /\ IfSet(asked.currency, row.currency)

\* dateRange: the start is included, the end is not.
InPeriod(period, date) ==
    /\ period[1] = Absent \/ period[1] <= date
    /\ period[2] = Absent \/ date < period[2]

CarriesPairs(metadata, pairs) ==
    \A key \in DOMAIN pairs : key \in DOMAIN metadata /\ metadata[key] = pairs[key]

SelectsTransaction(filter, transaction) ==
    /\ IfSet(filter.key, transaction.key)
    /\ InPeriod(filter.period, transaction.date)
    /\ CarriesPairs(transaction.metadata, filter.metadata)

\* ORDER BY date, id of a listing, a leg's id after those of the legs before it.
Sorted(rows, ascending) ==
    LET above(row) == {other \in rows : IF ascending THEN Before(other, row) ELSE Before(row, other)}
    IN  [i \in 1 .. Cardinality(rows) |-> CHOOSE row \in rows : Cardinality(above(row)) = i - 1]

PageOf(rows, page) ==
    LET from == Offset(page.number, page.size)
        to == from + Limit(page.size)
    IN  SubSeq(rows, from + 1, IF to < Len(rows) THEN to ELSE Len(rows))

Legs(transaction) == [i \in DOMAIN transaction.legs |-> [of |-> transaction, leg |-> i]]

\* A joined row is read: a leg of the transaction its id has been seen with, or the
\* first of a new one.
Scanned(seen, row) ==
    IF \E i \in DOMAIN seen : seen[i].id = row.of.id
      THEN [i \in DOMAIN seen |->
               IF seen[i].id = row.of.id THEN [seen[i] EXCEPT !.legs = Append(@, row)] ELSE seen[i]]
      ELSE Append(seen, [id |-> row.of.id, legs |-> <<row>>])

\* They are read in their order.
Grouped(rows) ==
    LET upTo[n \in 0 .. Len(rows)] == IF n = 0 THEN <<>> ELSE Scanned(upTo[n - 1], rows[n])
    IN  upTo[Len(rows)]

\* Slip: the page is cut from the joined rows.
JoinedPageOfLegs(transactions, page) ==
    PageOf(FlattenSeq([i \in DOMAIN transactions |-> Legs(transactions[i])]), page)

\* The page is cut from the transactions, then joined to their legs.
JoinedPage(transactions, page) ==
    FlattenSeq([i \in DOMAIN PageOf(transactions, page) |-> Legs(PageOf(transactions, page)[i])])

ListTransactions(book, filter, page) ==
    LET transactions == Sorted({t \in book : SelectsTransaction(filter, t)}, page.ascending)
    IN  [total |-> Len(transactions), transactions |-> Grouped(JoinedPage(transactions, page))]

\* A leg's id is drawn after those of the legs before it, here next to its transaction's.
LegId(id, leg) == id * (MaxLegs + 1) + leg

\* The postings table: a leg is dated as its transaction is.
PostingRow(transaction, leg) ==
    [id |-> LegId(transaction.id, leg), date |-> transaction.date, of |-> transaction,
     account |-> transaction.legs[leg].account, currency |-> transaction.legs[leg].currency]

PostingRows(book) == UNION {{PostingRow(t, leg) : leg \in DOMAIN t.legs} : t \in book}

\* Tables hold finitely many rows, transactions of a leg or more under ids of their
\* own, and a page number can count past the rows. No word but the empty one is empty
\* in upper case.
ASSUME ListingConstants ==
    /\ MaxLegs \in Nat
    /\ \A book \in Books :
          /\ IsFiniteSet(book) /\ Cardinality(PostingRows(book)) <= LargestNumber
          /\ \A t, other \in book : t.id = other.id => t = other
          /\ \A t \in book :
                /\ t.id \in Nat /\ t.date \in Int
                /\ DOMAIN t.legs = 1 .. Len(t.legs) /\ Len(t.legs) \in 1 .. MaxLegs
                /\ \A leg \in DOMAIN t.legs : IsLeg(t.legs[leg])
    /\ \A word \in {"", "usd", "USD"} \cup {TypeNames[type] : type \in DOMAIN TypeNames} :
          word \in DOMAIN UpperCased /\ (UpperCased[word] = "" <=> word = "")
    /\ \A type \in DOMAIN TypeNames : TypeNames[type] # ""
    /\ ~IsText(Absent)

ListRegister(book, filter, page) ==
    LET rows == Sorted({row \in PostingRows(book) :
                           /\ SelectsAccount(Asked(filter), row)
                           /\ InPeriod(filter.period, row.date)
                           /\ CarriesPairs(row.of.metadata, filter.metadata)}, page.ascending)
    IN  [total |-> Len(rows), postings |-> PageOf(rows, page)]

\* The account_balances table has one row for each account and currency posted to.
BalanceRows(book) ==
    {[account |-> row.account, currency |-> row.currency] : row \in PostingRows(book)}

ListAccountBalances(book, filter) == {row \in BalanceRows(book) : SelectsAccount(Asked(filter), row)}

----------------------------------------------------------------------------
\* Whatever was recorded in a period and carries the metadata.
Everything(period, pairs) ==
    [key |-> "", type |-> 0, user |-> Absent, name |-> Absent, currency |-> "",
     period |-> period, metadata |-> pairs]

\* One reader pages through the transactions of a period and another through its
\* postings: the first sees each transaction once, whole, with its legs in the order
\* they were asked for, and between them they see the same legs. Any page number will
\* do: past the end a page is empty, and none is refused for a negative offset. The
\* books hold still, so one look will do, at the start of a walk with pages of a size.
ListingsAgree == Init =>
    \A book \in Books, period \in Periods, pairs \in Pairs, ascending \in BOOLEAN :
        LET size == walk.size
            asked == Everything(period, pairs)
            page(n) == [size |-> size, number |-> n, ascending |-> ascending]
            pages == 1 .. LargestNumber
            listed == FlattenSeq([n \in pages |-> ListTransactions(book, asked, page(n)).transactions])
            register == FlattenSeq([n \in pages |-> ListRegister(book, asked, page(n)).postings])
        IN  /\ \A n \in pages : Offset(n, size) >= 0
            /\ \A i, j \in DOMAIN listed : i # j => listed[i].id # listed[j].id
            /\ \A i \in DOMAIN listed :
                  /\ Len(listed[i].legs) = Len(listed[i].legs[1].of.legs)
                  /\ \A leg \in DOMAIN listed[i].legs : listed[i].legs[leg].leg = leg
            /\ Len(listed) = ListTransactions(book, asked, page(1)).total
            /\ {register[i].id : i \in DOMAIN register}
                 = UNION {{LegId(listed[i].id, leg) : leg \in DOMAIN listed[i].legs} : i \in DOMAIN listed}

\* An account the ledger stores, as a listing reports it.
Reported(account) == [account EXCEPT !.type = StringToAccountType(account.type)]

\* An account as the command line prints it, given to the command line again, is taken
\* for that account or refused, and never taken for another, though two accounts may be
\* printed alike: a colon, which is nothing special in a user or a name, is what refuses
\* it.
PrintedAccountsReadBack == Init =>
    \A book \in Books : \A row \in PostingRows(book) :
        LET printed == FormatAccount(Reported(row.account))
        IN  /\ AccountArgumentRefused(printed) <=>
                  Len(row.account.user) > 1 \/ Len(row.account.name) > 1
            /\ ~AccountArgumentRefused(printed) =>
                  AccountFrom(Split(printed)) = Reported(row.account)

\* The register of an account that reads back, in any spelling of a currency, is the
\* postings of that account and no other, be its user empty or not, or a first page that
\* says so; and the balances of the five types make up the trial balance.
AccountsStayApart == Init =>
    \A book \in Books :
        /\ \A row \in PostingRows(book), currency \in {"usd", "USD"} :
              LET printed == FormatAccount(Reported(row.account))
                  request == RegisterRequest(printed, currency, FALSE)
                  reply == ListRegister(book, request, request)
                  shown == {reply.postings[i].id : i \in DOMAIN reply.postings}
                  register == {other.id : other \in {r \in PostingRows(book) :
                                  r.account = row.account /\ r.currency = UpperCased[currency]}}
              IN  ~AccountArgumentRefused(printed) =>
                     /\ shown = register \/ (shown \subseteq register /\ Shortened(reply))
                     /\ reply.total = Cardinality(register)
        /\ LET asked(word) == BalanceFilter(<<word>>, Absent, Absent, "")
               words == {TypeNames[type] : type \in DOMAIN TypeNames}
           IN  /\ \A word \in words : ~BalanceRefused(<<word>>)
               /\ \A row \in ListAccountBalances(book, Everything(<<Absent, Absent>>, <<>>)) :
                     Cardinality({word \in words : row \in ListAccountBalances(book, asked(word))}) = 1
================================================================================
