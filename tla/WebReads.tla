-------------------------------- MODULE WebReads --------------------------------
(***************************************************************************)
(* The web UI's reads of the ledger and its session: useLedgerQuery on the *)
(* pages that list or total something, useLedgerApi's handling of refused  *)
(* tokens, and the login page. One operator, one browser tab. Requests     *)
(* reach the server, and answers the browser, in any order.                *)
(***************************************************************************)
EXTENDS Naturals, FiniteSets

CONSTANTS
    Pages,      \* the pages that read
    Paged,      \* of those, the ones with filters to apply and pages to turn
    Home,       \* the dashboard, where a login ends: it reads on every selection
    Filters,    \* what a page's controls can ask for
    All,        \* the controls as the page opens: nothing is filtered on
    Tokens,
    NoToken,
    PageSize,
    MaxRows,    \* bound: rows the ledger holds
    Requests,   \* bound: requests in flight at once
    NoRead

ASSUME WebConstants ==
    /\ Home \in Pages
    /\ Paged \subseteq Pages \ {Home}
    /\ "login" \notin Pages
    /\ All \in Filters
    /\ NoToken \notin Tokens
    /\ PageSize \in Nat \ {0}
    /\ MaxRows \in Nat
    /\ NoRead \notin Requests

VARIABLES
    matching,   \* the ledger: how many rows each filter matches
    accepted,   \* the tokens the server lets through
    token,      \* useAuth's token
    route,      \* the page the router is on
    checking,   \* the call the login form waits for, or NoRead
    filter,     \* the mounted page's controls
    page,       \* its page number
    sent,       \* the filter of the last read it sent
    current,    \* the read whose answer it waits for, or NoRead
    view,       \* what useAsyncData holds for it
    inflight    \* every request without an answer yet

vars == <<matching, accepted, token, route, checking, filter, page, sent, current, view, inflight>>
server == <<matching, accepted>>
controls == <<filter, page>>

PageNumbers == 1 .. MaxRows + 1

\* A request, until its answer arrives: "refused" is a 401 or a 403.
Request ==
    [id : Requests, from : Pages \cup {"login"}, filter : Filters, page : PageNumbers,
     token : Tokens \cup {NoToken}, stage : {"sent", "answered", "refused"}, total : 0 .. MaxRows]

\* The data of a page: the last answer that landed, with the request it answers.
View ==
    [status : {"pending", "success", "error"}, total : 0 .. MaxRows,
     filter : Filters, page : PageNumbers, token : Tokens \cup {NoToken}]

TypeOK ==
    /\ matching \in [Filters -> 0 .. MaxRows]
    /\ accepted \subseteq Tokens
    /\ token \in Tokens \cup {NoToken}
    /\ route \in Pages \cup {"login"}
    /\ checking \in Requests \cup {NoRead}
    /\ filter \in Filters
    /\ page \in PageNumbers
    /\ sent \in Filters
    /\ current \in Requests \cup {NoRead}
    /\ view \in View
    /\ inflight \subseteq Request

----------------------------------------------------------------------------
Blank ==
    [status |-> "pending", total |-> 0, filter |-> All, page |-> 1, token |-> NoToken]

Free(requests) == {id \in Requests : \A r \in requests : r.id # id}

\* Slip: a read joins one of the same page that is in flight (dedupe: 'defer').
ReadJoining(others, from, f, n, old) ==
    LET id == CHOOSE free \in Free(others) : TRUE IN
    /\ Free(others) # {}
    /\ IF \E r \in others : r.from = from
         THEN /\ inflight' = others
              /\ current' = (CHOOSE r \in others : r.from = from).id
         ELSE /\ inflight' = others \cup
                    {[id |-> id, from |-> from, filter |-> f, page |-> n, token |-> token,
                      stage |-> "sent", total |-> 0]}
              /\ current' = id
    /\ sent' = f
    /\ view' = [old EXCEPT !.status = "pending"]

\* A read asks with the controls and the token of the moment and takes over from
\* the page's earlier one, which stays in flight with nobody to show it to.
Read(others, from, f, n, old) ==
    LET id == CHOOSE free \in Free(others) : TRUE IN
    /\ Free(others) # {}
    /\ inflight' = others \cup
          {[id |-> id, from |-> from, filter |-> f, page |-> n, token |-> token, stage |-> "sent", total |-> 0]}
    /\ current' = id
    /\ sent' = f
    /\ view' = [old EXCEPT !.status = "pending"]

\* Slip: pages counted from zero.
MountOnZero(others, p) ==
    /\ route' = p
    /\ filter' = All
    /\ page' = 0
    /\ checking' = NoRead
    /\ Read(others, p, All, 0, Blank)

\* A page mounts with controls and data of its own and reads at once.
Mount(others, p) ==
    /\ route' = p
    /\ filter' = All
    /\ page' = 1
    /\ checking' = NoRead
    /\ Read(others, p, All, 1, Blank)

\* The page is gone: no answer has a table to land in.
ToLogin ==
    /\ route' = "login"
    /\ current' = NoRead
    /\ view' = Blank
    /\ filter' = All
    /\ page' = 1
    /\ sent' = All
    /\ checking' = NoRead

----------------------------------------------------------------------------
\* What the operator does.

Visit(p) ==
    /\ route # p
    /\ Mount(inflight, p)
    /\ UNCHANGED <<server, token>>

EditFilter(f) ==
    /\ route \in Pages \ {Home}
    /\ filter' = f
    /\ UNCHANGED <<server, token, route, checking, page, sent, current, view, inflight>>

\* The dashboard's and the balance page's selects read as they change.
Select(f) ==
    /\ route \in Pages \ Paged
    /\ filter' = f
    /\ Read(inflight, route, f, page, view)
    /\ UNCHANGED <<server, token, route, checking, page>>

\* The Refresh button, and Retry beside an error: the page number stays.
Refresh ==
    /\ route \in Pages
    /\ Read(inflight, route, filter, page, view)
    /\ UNCHANGED <<server, token, route, checking, controls>>

\* Apply goes back to the first page and reads once; Clear empties the controls first.
Apply(f) ==
    /\ route \in Paged
    /\ f \in {filter, All}
    /\ filter' = f
    /\ page' = 1
    /\ Read(inflight, route, f, 1, view)
    /\ UNCHANGED <<server, token, route, checking>>

LastPage(total) == (total + PageSize - 1) \div PageSize

\* Slip: the page number turns and nothing reads.
TurnPageUnread(n) ==
    /\ route \in Paged
    /\ view.status # "error"
    /\ n \in 1 .. LastPage(view.total)
    /\ n # page
    /\ page' = n
    /\ UNCHANGED <<server, token, route, checking, filter, sent, current, view, inflight>>

\* Pages are offered for the total of the last answer, while the next is awaited too.
TurnPage(n) ==
    /\ route \in Paged
    /\ view.status # "error"
    /\ n \in 1 .. LastPage(view.total)
    /\ n # page
    /\ page' = n
    /\ Read(inflight, route, filter, n, view)
    /\ UNCHANGED <<server, token, route, checking, filter>>

Logout ==
    /\ token # NoToken
    /\ token' = NoToken
    /\ IF route = "login"
         THEN UNCHANGED <<route, checking, controls, sent, current, view>>
         ELSE ToLogin
    /\ UNCHANGED <<server, inflight>>

\* The pasted token is put in use, then tried with a call of its own.
Login(t) ==
    /\ route = "login"
    /\ checking = NoRead
    /\ Free(inflight) # {}
    /\ token' = t
    /\ checking' = CHOOSE free \in Free(inflight) : TRUE
    /\ inflight' = inflight \cup
          {[id |-> checking', from |-> "login", filter |-> All,
            page |-> 1, token |-> t, stage |-> "sent", total |-> 0]}
    /\ UNCHANGED <<server, route, controls, sent, current, view>>

----------------------------------------------------------------------------
\* What the server does.

Serve(r) ==
    /\ r.stage = "sent"
    /\ inflight' = (inflight \ {r}) \cup
          {IF r.token \in accepted
             THEN [r EXCEPT !.stage = "answered", !.total = matching[r.filter]]
             ELSE [r EXCEPT !.stage = "refused"]}
    /\ UNCHANGED <<server, token, route, checking, controls, sent, current, view>>

\* A transaction is recorded; nothing is ever removed.
Record ==
    \E matched \in SUBSET Filters :
        /\ All \in matched
        /\ \A f \in matched : matching[f] < MaxRows
        /\ matching' = [f \in Filters |-> IF f \in matched THEN matching[f] + 1 ELSE matching[f]]
        /\ UNCHANGED <<accepted, token, route, checking, controls, sent, current, view, inflight>>

Expire(t) ==
    /\ t \in accepted
    /\ accepted' = accepted \ {t}
    /\ UNCHANGED <<matching, token, route, checking, controls, sent, current, view, inflight>>

----------------------------------------------------------------------------
\* What comes back.

\* A refused token sends the operator to the login page, whichever request it is
\* that the server refused; there the form reports it and drops the token itself.
Refusal(r) ==
    /\ r.stage = "refused"
    /\ IF route # "login"
         THEN token' = NoToken /\ ToLogin
         ELSE /\ token' = IF r.from = "login" THEN NoToken ELSE token
              /\ checking' = IF r.id = checking THEN NoRead ELSE checking
              /\ UNCHANGED <<route, controls, sent, current, view>>
    /\ inflight' = inflight \ {r}
    /\ UNCHANGED server

\* Slip: the read lands and still counts as in flight.
RowsUnsettled(r) ==
    /\ r.from \in Pages
    /\ r.stage = "answered"
    /\ r.id = current
    /\ view' = [status |-> "success", total |-> r.total, filter |-> r.filter,
                page |-> r.page, token |-> r.token]
    /\ inflight' = inflight \ {r}
    /\ UNCHANGED <<server, token, route, checking, controls, sent, current>>

\* The rows of the read the page waits for are put on it.
Rows(r) ==
    /\ r.from \in Pages
    /\ r.stage = "answered"
    /\ r.id = current
    /\ view' = [status |-> "success", total |-> r.total, filter |-> r.filter,
                page |-> r.page, token |-> r.token]
    /\ current' = NoRead
    /\ inflight' = inflight \ {r}
    /\ UNCHANGED <<server, token, route, checking, controls, sent>>

\* An overtaken read is dropped, rows or failure alike.
Overtaken(r) ==
    /\ r.from \in Pages
    /\ r.stage # "refused"
    /\ r.id # current
    /\ inflight' = inflight \ {r}
    /\ UNCHANGED <<server, token, route, checking, controls, sent, current, view>>

\* The token is good: on to the dashboard, wherever the operator has gone since.
LoggedIn(r) ==
    /\ r.from = "login"
    /\ r.stage = "answered"
    /\ IF route = Home
         THEN /\ inflight' = inflight \ {r}
              /\ UNCHANGED <<route, checking, controls, sent, current, view>>
         ELSE Mount(inflight \ {r}, Home)
    /\ UNCHANGED <<server, token>>

\* A failure that says nothing of the token: the page's data is dropped with the
\* error it shows, and the login form drops the token it could not try.
Broken(r) ==
    /\ IF r.from = "login"
         THEN /\ token' = NoToken
              /\ checking' = IF r.id = checking THEN NoRead ELSE checking
              /\ UNCHANGED <<current, view>>
         ELSE /\ r.id = current
              /\ view' = [view EXCEPT !.status = "error", !.total = 0]
              /\ current' = NoRead
              /\ UNCHANGED <<token, checking>>
    /\ inflight' = inflight \ {r}
    /\ UNCHANGED <<server, route, controls, sent>>

Arrive(r) == Refusal(r) \/ Rows(r) \/ Overtaken(r) \/ LoggedIn(r) \/ Broken(r)

----------------------------------------------------------------------------
Init ==
    /\ matching = [f \in Filters |-> 0]
    /\ accepted = Tokens
    /\ token = NoToken
    /\ route = "login"
    /\ checking = NoRead
    /\ filter = All
    /\ page = 1
    /\ sent = All
    /\ current = NoRead
    /\ view = Blank
    /\ inflight = {}

Operator ==
    \/ \E p \in Pages : Visit(p)
    \/ \E f \in Filters : EditFilter(f) \/ Select(f) \/ Apply(f)
    \/ Refresh
    \/ \E n \in PageNumbers : TurnPage(n)
    \/ Logout
    \/ \E t \in Tokens : Login(t)

Server == Record \/ \E t \in Tokens : Expire(t)

Next == Operator \/ Server \/ \E r \in inflight : Serve(r) \/ Arrive(r)

Spec == Init /\ [][Next]_vars

\* Every request ends: an answer comes, or the browser gives up on it. The
\* operator need not do anything.
Ends(id) == \E r \in inflight : r.id = id /\ (Serve(r) \/ Arrive(r))

FairSpec == Spec /\ \A id \in Requests : WF_inflight(Ends(id))

----------------------------------------------------------------------------
\* The rows under a page number, a range and a filter are the answer to the read
\* asked with that page number and that filter, however many reads the operator
\* started and in whatever order they came back; the dashboard's
\* totals are those of the currency it names.
ScreenMatchesRequest ==
    view.status = "success" =>
        /\ view.page = page
        /\ view.filter = sent
        /\ route = Home => view.filter = filter

\* Rows on screen were read with the token in use, never with one an earlier
\* session left behind in a slow request.
RowsAreThisSessions ==
    view.status = "success" /\ token # NoToken => view.token = token

\* Why: the read a page waits for asked for what the page now shows as asked, and
\* nobody pastes a token while a page is open.
Awaited(r) ==
    /\ r.page = page
    /\ r.filter = sent
    /\ route = Home => r.filter = filter
    /\ token # NoToken => r.token = token

ScreenInv ==
    /\ current # NoRead \/ view.status = "success" => route \in Pages
    /\ \A r \in inflight : r.id = current => Awaited(r)
    /\ ScreenMatchesRequest
    /\ RowsAreThisSessions

\* A page that waits waits for a request that is in flight, so it stops waiting:
\* by an answer, by an error, or because the operator asked for something else.
EveryReadEnds == \A id \in Requests : current = id ~> current # id

RowsOnPage == {i \in 1 .. view.total : i > (page - 1) * PageSize /\ i <= page * PageSize}

----------------------------------------------------------------------------
\* What the repository says of the code and the code does not do.

\* "An idempotency key with no match means that write never landed": the page that
\* says nothing on the ledger matches says so only when nothing did.
NoMatchMeansNeverLanded ==
    /\ view.status = "success"
    /\ route \in Paged
    /\ sent # All
    /\ RowsOnPage = {}
    => view.total = 0

\* "401 is a token the ledger will not read at all": a refused request signs the
\* operator out only of the token it carried.
RefusalDropsItsOwnToken ==
    [][\A r \in inflight \ inflight' :
          r.stage = "refused" /\ token # NoToken /\ token' = NoToken => r.token = token]_vars
================================================================================
