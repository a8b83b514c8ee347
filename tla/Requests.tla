-------------------------------- MODULE Requests --------------------------------
(***************************************************************************)
(* A record request on its way to the ledger: the gateway's routes, the    *)
(* interceptor's decision on the caller's token, and draftFromRequest.     *)
(* None of them keeps state, so they are operators over one call.          *)
(***************************************************************************)
EXTENDS Wire, SequencesExt

CONSTANTS Calls     \* the calls that may come in

Record == "/v1.LedgerService/RecordTransaction"
Reads == {"/v1.LedgerService/ListAccountBalances", "/v1.LedgerService/ListTransactions",
          "/v1.LedgerService/ListPostings"}
HealthCheck == "/grpc.health.v1.Health/Check"

AccountMessage == [type : Int, user : STRING, name : STRING]
MoneyMessage == [currency : DOMAIN UpperCased, units : -(MaxUnits + 1) .. MaxUnits, nanos : Int]
PostingInputMessage == [account : AccountMessage \cup {Absent}, amount : MoneyMessage \cup {Absent}]

ASSUME RequestConstants ==
    \A call \in Calls : call.request # Absent => call.request.postings \in Seq(PostingInputMessage)

\* The gateway answers these paths by calling the method on the server itself.
Routes ==
    [path \in {"/v1/ledger/transactions", "/v1/ledger/accounts/balance",
               "/v1/ledger/transactions/query", "/v1/ledger/postings/query"} |->
        CASE path = "/v1/ledger/transactions" -> Record
          [] path = "/v1/ledger/accounts/balance" -> "/v1.LedgerService/ListAccountBalances"
          [] path = "/v1/ledger/transactions/query" -> "/v1.LedgerService/ListTransactions"
          [] path = "/v1/ledger/postings/query" -> "/v1.LedgerService/ListPostings"]

\* The auth.v1.rule of a method: none, if the ledger knows no such method.
RequiredScopes(method) ==
    IF method = Record THEN {"ledger:write"}
    ELSE IF method \in Reads THEN {"ledger:read"}
    ELSE {}

\* AuthInterceptor.  A token is valid when its signature, algorithm and times are.
Authorized(method, token) ==
    IF method = HealthCheck THEN "OK"
    ELSE IF RequiredScopes(method) = {} THEN "PermissionDenied"
    ELSE IF token = Absent \/ ~token.valid THEN "Unauthenticated"
    ELSE IF RequiredScopes(method) \cap token.scopes = {} THEN "PermissionDenied"
    ELSE "OK"

----------------------------------------------------------------------------
StoredAccount(account) ==
    [type |-> AccountTypeToString(account.type), user |-> account.user, name |-> account.name]

StoredPosting(posting) ==
    [account |-> StoredAccount(posting.account),
     currency |-> UpperCased[posting.amount.currency],
     amount |-> ToDecimal(posting.amount)]

PostingRefused(posting) ==
    \/ posting.account = Absent
    \/ ~RecordableType(posting.account.type)
    \/ Malformed(posting.amount)
    \/ ToDecimal(posting.amount) = 0

\* Some posting is in another currency than the first.
MixedCurrencies(postings) ==
    \E i \in DOMAIN postings :
        UpperCased[postings[i].amount.currency] # UpperCased[postings[1].amount.currency]

Sum(postings) == FoldLeft(LAMBDA sum, posting : sum + ToDecimal(posting.amount), 0, postings)

VerifyRefused(account, postings) ==
    \/ account = Absent
    \/ ~RecordableType(account.type)
    \/ \A i \in DOMAIN postings : StoredAccount(postings[i].account) # StoredAccount(account)

\* draftFromRequest's refusals, all of them InvalidArgument, in its order.
Refused(request) ==
    \/ request.key = ""
    \/ request.note = ""
    \/ Len(request.postings) < 2
    \/ "" \in DOMAIN request.metadata
    \/ \E i \in DOMAIN request.postings : PostingRefused(request.postings[i])
    \/ MixedCurrencies(request.postings)
    \/ Sum(request.postings) # 0
    \/ \E i \in DOMAIN request.verify : VerifyRefused(request.verify[i], request.postings)

DraftFromRequest(request) ==
    [key |-> request.key, note |-> request.note, metadata |-> request.metadata,
     postings |-> [i \in DOMAIN request.postings |-> StoredPosting(request.postings[i])],
     verify |-> {StoredAccount(request.verify[i]) : i \in DOMAIN request.verify}]

Method(call) == IF call.path = Absent THEN call.method ELSE Routes[call.path]

\* Bytes that are no request are answered before the token is looked at, by the handler
\* and by the gateway each in its own way; an empty HTTP body is the empty request.
Undecoded(call) == IF call.path = Absent THEN "Internal" ELSE "InvalidArgument"

\* What a call is answered before the ledger sees it.
Answered(call) ==
    IF Method(call) \notin {Record, HealthCheck} \cup Reads THEN "Unimplemented"
    ELSE IF call.request = Absent THEN Undecoded(call)
    ELSE IF Authorized(Method(call), call.token) # "OK" THEN Authorized(Method(call), call.token)
    ELSE IF Method(call) = Record /\ Refused(call.request) THEN "InvalidArgument"
    ELSE "OK"

ReachesTheLedger(call) == Method(call) = Record /\ Answered(call) = "OK"

----------------------------------------------------------------------------
\* What RecordTransaction takes for granted of a draft.
Settled(draft) ==
    /\ draft.key # "" /\ draft.note # "" /\ "" \notin DOMAIN draft.metadata
    /\ Len(draft.postings) >= 2
    /\ \A i \in DOMAIN draft.postings :
          LET posting == draft.postings[i]
          IN  /\ posting.amount # 0 /\ ~OutOfRange(posting.amount)
              /\ posting.currency = draft.postings[1].currency
              /\ posting.currency = UpperCased[posting.currency]
              /\ AccountTypeToString(StringToAccountType(posting.account.type)) = posting.account.type
              /\ StringToAccountType(posting.account.type) # 0
    /\ FoldLeft(LAMBDA sum, posting : sum + posting.amount, 0, draft.postings) = 0
    /\ draft.verify \subseteq {draft.postings[i].account : i \in DOMAIN draft.postings}

\* A call reaches the ledger only with a token it issued for writing, by whichever route
\* it comes, and as a draft the ledger can keep: it balances in one currency, what was
\* sent can be reported, every account can be asked for again under the type it is stored
\* as, and every account to verify is one it touches.
RecordableDraftsOnly ==
    \A call \in Calls : ReachesTheLedger(call) =>
        /\ call.token # Absent /\ call.token.valid /\ "ledger:write" \in call.token.scopes
        /\ Settled(DraftFromRequest(call.request))
        /\ \A i \in DOMAIN call.request.postings :
              LET amount == call.request.postings[i].amount
              IN  FromDecimal(ToDecimal(amount), amount.currency) = amount
================================================================================
