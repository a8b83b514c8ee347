------------------------------ MODULE CommandLine ------------------------------
(***************************************************************************)
(* What ledger-cli makes of its arguments and of the ledger's answers.  A  *)
(* text in which a colon may stand, such as a user, a name or an argument, *)
(* is the sequence of its pieces between the colons.  An amount as it was  *)
(* typed is a whole number of 1/Finer nanos, or Absent when it is no       *)
(* number.                                                                 *)
(***************************************************************************)
EXTENDS Wire, Sequences

CONSTANTS
    Finer,      \* digits an operator may type past the ninth decimal place
    Pieces      \* what may stand between two colons

\* What an amount on the wire may be, its nanos within reach of either bound.
Amounts == [currency : {"USD"}, units : -(MaxUnits + 1) .. MaxUnits,
            nanos : -NanosPerUnit .. NanosPerUnit]

ASSUME CommandLineConstants ==
    /\ Finer \in Nat \ {0}
    /\ Absent \notin Amounts
    /\ \A type \in DOMAIN TypeNames : TypeNames[type] \in Pieces

IsText(text) == text \in Seq(Pieces) \ {<<>>}

\* formatAccount puts colons between the three, whatever colons a user or a name holds.
FormatAccount(account) == <<AccountTypeToString(account.type)>> \o account.user \o account.name

\* Slip: strings.SplitN, which leaves the third part whole.
SplitThree(text) ==
    [i \in 1 .. (IF Len(text) < 3 THEN Len(text) ELSE 3) |->
        IF i = 3 THEN SubSeq(text, 3, Len(text)) ELSE <<text[i]>>]

\* strings.Split: each piece is a part.
Split(text) == [i \in DOMAIN text |-> <<text[i]>>]

\* accountFrom: a type matched in any case, a user and a name taken as written.
AccountFrom(parts) ==
    [type |-> StringToAccountType(parts[1][1]), user |-> parts[2], name |-> parts[3]]

\* parsePosting: TYPE:USER:NAME, and after the last colon AMOUNT+CURRENCY.
PostingArgumentRefused(argument) ==
    \/ Len(Split(argument.account)) # 3
    \/ AccountFrom(Split(argument.account)).type = 0
    \/ argument.currency \in {Absent, ""}
    \/ argument.amount = Absent
    \/ argument.amount % Finer # 0
    \/ OutOfRange(Truncated(argument.amount, Finer))

PostingInput(argument) ==
    [account |-> AccountFrom(Split(argument.account)),
     amount |-> FromDecimal(Truncated(argument.amount, Finer), argument.currency)]

\* parseAccount, for a register.
AccountArgumentRefused(argument) ==
    Len(Split(argument)) # 3 \/ AccountFrom(Split(argument)).type = 0

\* The balance command: at most a type to filter on, and the flags that were given.
BalanceRefused(arguments) ==
    \/ Len(arguments) > 1
    \/ Len(arguments) = 1 /\ StringToAccountType(arguments[1]) = 0

BalanceFilter(arguments, user, name, currency) ==
    [type |-> IF arguments = <<>> THEN 0 ELSE StringToAccountType(arguments[1]),
     user |-> user, name |-> name, currency |-> currency]

\* The register command: one account, whose user and name are always asked for, on any
\* date and with any metadata, and its first page of a hundred, oldest first unless
\* reversed.
RegisterRequest(argument, currency, reverse) ==
    LET account == AccountFrom(Split(argument))
    IN  [type |-> account.type, user |-> account.user, name |-> account.name,
         currency |-> currency, period |-> <<Absent, Absent>>, metadata |-> <<>>,
         size |-> 100, number |-> 1, ascending |-> ~reverse]

\* The register says how many postings there are when it prints fewer.
Shortened(reply) == Len(reply.postings) < reply.total

\* formatMoney: the decimal, or a failure for an amount that cannot be read.
Printed(money) == IF Malformed(money) THEN Absent ELSE ToDecimal(money)

----------------------------------------------------------------------------
WellFormed == {money \in Amounts : ~Malformed(money)}

\* An amount is the same amount wherever it goes in the ledger and its command line:
\* read off the wire and put back, kept as a decimal and reported, typed by an operator
\* and sent, or refused on the way. Nothing rounds it, wraps it or splits its sign.
EveryAmountSurvives ==
    /\ \A money \in WellFormed : FromDecimal(ToDecimal(money), money.currency) = money
    /\ \A decimal \in -(MaxUnits + 3) * NanosPerUnit .. (MaxUnits + 3) * NanosPerUnit :
          /\ OutOfRange(decimal) <=> decimal \notin {ToDecimal(money) : money \in WellFormed}
          /\ ~OutOfRange(decimal) => Printed(FromDecimal(decimal, "USD")) = decimal
    /\ \A typed \in -(MaxUnits + 3) * NanosPerUnit * Finer .. (MaxUnits + 3) * NanosPerUnit * Finer :
          LET argument == [account |-> <<"Assets", "", "cash">>, amount |-> typed, currency |-> "USD"]
          IN  ~PostingArgumentRefused(argument) =>
                 Printed(PostingInput(argument).amount) * Finer = typed
================================================================================
