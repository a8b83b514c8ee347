----------------------------- MODULE WebReadsProofs -----------------------------
(***************************************************************************)
(* What the web UI shows is what it asked for, for any number of pages,    *)
(* filters, tokens and requests in flight.                                 *)
(***************************************************************************)
EXTENDS WebReads, TLAPS

\* Every variable keeps its type, whatever comes back and in whatever order.
THEOREM WebTypes == Spec => []TypeOK
  <1> USE WebConstants DEF TypeOK, Request, View, PageNumbers
  <1>1. Init => TypeOK
    BY DEF Init, Blank
  <1>2. TypeOK /\ [Next]_vars => TypeOK'
    <2> SUFFICES ASSUME TypeOK, [Next]_vars PROVE TypeOK'
      OBVIOUS
    <2>1. ASSUME NEW others, others \subseteq Request, NEW from \in Pages, NEW f \in Filters,
                 NEW n \in PageNumbers, NEW old \in View, Read(others, from, f, n, old)
          PROVE  /\ inflight' \subseteq Request
                 /\ current' \in Requests
                 /\ sent' \in Filters
                 /\ view' \in View
      <3> DEFINE id == CHOOSE free \in Free(others) : TRUE
      <3>1. id \in Requests
        BY <2>1 DEF Read, Free
      <3>2. [id |-> id, from |-> from, filter |-> f, page |-> n, token |-> token,
             stage |-> "sent", total |-> 0] \in Request
        BY <2>1, <3>1
      <3> QED
        BY <2>1, <3>1, <3>2 DEF Read
    <2>2. ASSUME NEW others, others \subseteq Request, NEW p \in Pages, Mount(others, p)
          PROVE  /\ inflight' \subseteq Request
                 /\ current' \in Requests
                 /\ sent' \in Filters
                 /\ view' \in View
                 /\ route' \in Pages
                 /\ filter' \in Filters
                 /\ page' \in PageNumbers
                 /\ checking' \in Requests \cup {NoRead}
      <3>1. Blank \in View
        BY DEF Blank
      <3>2. Read(others, p, All, 1, Blank) /\ All \in Filters /\ 1 \in PageNumbers
        BY <2>2 DEF Mount
      <3> QED
        BY <2>1, <2>2, <3>1, <3>2 DEF Mount
    <2>3. ASSUME NEW p \in Pages, Visit(p) PROVE TypeOK'
      BY <2>2, <2>3 DEF Visit, server
    <2>4. ASSUME NEW f \in Filters, EditFilter(f) PROVE TypeOK'
      BY <2>4 DEF EditFilter, server
    <2>5. ASSUME NEW f \in Filters, Select(f) PROVE TypeOK'
      BY <2>1, <2>5 DEF Select, server
    <2>6. ASSUME NEW f \in Filters, Apply(f) PROVE TypeOK'
      BY <2>1, <2>6 DEF Apply, server
    <2>7. CASE Refresh
      BY <2>1, <2>7 DEF Refresh, server, controls
    <2>8. ASSUME NEW n \in PageNumbers, TurnPage(n) PROVE TypeOK'
      BY <2>1, <2>8 DEF TurnPage, server
    <2>9. CASE Logout
      BY <2>9 DEF Logout, ToLogin, Blank, server, controls
    <2>10. ASSUME NEW t \in Tokens, Login(t) PROVE TypeOK'
      <3>1. checking' \in Requests
        BY <2>10 DEF Login, Free
      <3>2. [id |-> checking', from |-> "login", filter |-> All, page |-> 1, token |-> t,
             stage |-> "sent", total |-> 0] \in Request
        BY <3>1
      <3> QED
        BY <2>10, <3>1, <3>2 DEF Login, server, controls
    <2>11. CASE Record
      BY <2>11 DEF Record, controls
    <2>12. ASSUME NEW t \in Tokens, Expire(t) PROVE TypeOK'
      BY <2>12 DEF Expire, controls
    <2>13. ASSUME NEW r \in inflight, Serve(r) PROVE TypeOK'
      <3>1. r \in Request /\ matching[r.filter] \in 0 .. MaxRows
        OBVIOUS
      <3>2. /\ [r EXCEPT !.stage = "refused"] \in Request
            /\ [r EXCEPT !.stage = "answered", !.total = matching[r.filter]] \in Request
        BY <3>1
      <3>3. inflight' \subseteq Request
        BY <2>13, <3>2 DEF Serve
      <3>4. UNCHANGED <<server, token, route, checking, controls, sent, current, view>>
        BY <2>13 DEF Serve
      <3> QED
        BY <3>3, <3>4 DEF server, controls
    <2>14. ASSUME NEW r \in inflight, Refusal(r) PROVE TypeOK'
      BY <2>14 DEF Refusal, ToLogin, Blank, server, controls
    <2>15. ASSUME NEW r \in inflight, Rows(r) PROVE TypeOK'
      <3>1. r \in Request
        OBVIOUS
      <3> QED
        BY <2>15, <3>1 DEF Rows, server, controls
    <2>16. ASSUME NEW r \in inflight, Overtaken(r) PROVE TypeOK'
      BY <2>16 DEF Overtaken, server, controls
    <2>17. ASSUME NEW r \in inflight, LoggedIn(r) PROVE TypeOK'
      BY <2>2, <2>17 DEF LoggedIn, server, controls
    <2>18. ASSUME NEW r \in inflight, Broken(r) PROVE TypeOK'
      <3>1. [view EXCEPT !.status = "error", !.total = 0] \in View
        <4>1. view \in View /\ 0 \in 0 .. MaxRows
          OBVIOUS
        <4> QED
          BY ONLY <4>1 DEF View
      <3>2. CASE r.from = "login"
        BY <2>18, <3>2 DEF Broken, server, controls
      <3>3. CASE r.from # "login"
        BY <2>18, <3>1, <3>3 DEF Broken, server, controls
      <3> QED
        BY <3>2, <3>3
    <2>19. CASE UNCHANGED vars
      BY <2>19 DEF vars
    <2>20. ASSUME NEW r \in inflight, Arrive(r) PROVE TypeOK'
      BY <2>14, <2>15, <2>16, <2>17, <2>18, <2>20 DEF Arrive
    <2>21. CASE Operator
      <3> HIDE DEF TypeOK
      <3> QED
        BY <2>3, <2>4, <2>5, <2>6, <2>7, <2>8, <2>9, <2>10, <2>21 DEF Operator
    <2>22. CASE Server
      <3> HIDE DEF TypeOK
      <3> QED
        BY <2>11, <2>12, <2>22 DEF Server
    <2> QED
      <3> HIDE DEF TypeOK
      <3> QED
        BY <2>13, <2>19, <2>20, <2>21, <2>22 DEF Next
  <1> QED
    BY <1>1, <1>2, PTL DEF Spec

\* A step that sends a read leaves the page waiting for what it shows as asked.
LEMMA ReadIsAwaited ==
  ASSUME TypeOK,
         NEW others, others \subseteq Request, NEW from \in Pages, NEW f \in Filters,
         NEW n \in PageNumbers, NEW old \in View, Read(others, from, f, n, old),
         token' = token, page' = n, filter' \in Filters, route' \in Pages,
         route' = Home => filter' = f
  PROVE  ScreenInv'
  <1> DEFINE id == CHOOSE free \in Free(others) : TRUE
  <1>1. \A r \in others : r.id # id
    BY DEF Read, Free
  <1>2. \A r \in inflight' : r.id = current' => Awaited(r)'
    BY <1>1 DEF Read, Awaited
  <1>3. view'.status = "pending"
    BY DEF Read, View
  <1> QED
    BY <1>2, <1>3 DEF ScreenInv, ScreenMatchesRequest, RowsAreThisSessions

\* What the page waits for is what it describes, in any order of answers.
LEMMA ScreenInvHolds == Spec => []ScreenInv
  <1>1. Init => ScreenInv
    BY DEF Init, Blank, ScreenInv, ScreenMatchesRequest, RowsAreThisSessions
  <1>2. TypeOK /\ ScreenInv /\ [Next]_vars => ScreenInv'
    <2> SUFFICES ASSUME TypeOK, ScreenInv, [Next]_vars PROVE ScreenInv'
      OBVIOUS
    <2> USE WebConstants
    <2>1. Blank \in View /\ All \in Filters /\ 1 \in PageNumbers /\ inflight \subseteq Request
      BY DEF Blank, View, PageNumbers, TypeOK
    <2>2. view \in View /\ filter \in Filters /\ page \in PageNumbers
      BY DEF TypeOK
    <2>3. ASSUME NEW others, others \subseteq inflight, NEW p \in Pages, Mount(others, p),
                 token' = token
          PROVE  ScreenInv'
      BY <2>1, <2>3, ReadIsAwaited DEF Mount
    <2>4. ASSUME ToLogin, inflight' \subseteq inflight PROVE ScreenInv'
      <3>1. \A r \in inflight' : r.id # current'
        BY <2>1, <2>4 DEF ToLogin, Request
      <3>2. current' = NoRead /\ view'.status = "pending"
        BY <2>4 DEF ToLogin, Blank
      <3> QED
        BY <3>1, <3>2 DEF ScreenInv, ScreenMatchesRequest, RowsAreThisSessions
    <2>5. ASSUME NEW p \in Pages, Visit(p) PROVE ScreenInv'
      BY <2>3, <2>5 DEF Visit
    <2>6. ASSUME NEW f \in Filters, EditFilter(f) PROVE ScreenInv'
      BY <2>6 DEF EditFilter, ScreenInv, Awaited, ScreenMatchesRequest, RowsAreThisSessions
    <2>7. ASSUME NEW f \in Filters, Select(f) PROVE ScreenInv'
      BY <2>1, <2>2, <2>7, ReadIsAwaited DEF Select
    <2>8. ASSUME NEW f \in Filters, Apply(f) PROVE ScreenInv'
      BY <2>1, <2>2, <2>8, ReadIsAwaited DEF Apply
    <2>9. CASE Refresh
      BY <2>1, <2>2, <2>9, ReadIsAwaited DEF Refresh, controls
    <2>10. ASSUME NEW n \in PageNumbers, TurnPage(n) PROVE ScreenInv'
      BY <2>1, <2>2, <2>10, ReadIsAwaited DEF TurnPage
    <2>11. CASE Logout
      <3>1. CASE route = "login"
        BY <2>11, <3>1 DEF Logout, ScreenInv, controls, ScreenMatchesRequest,
           RowsAreThisSessions, Awaited
      <3>2. CASE route # "login"
        BY <2>4, <2>11, <3>2 DEF Logout
      <3> QED
        BY <3>1, <3>2
    <2>12. ASSUME NEW t \in Tokens, Login(t) PROVE ScreenInv'
      <3>1. checking' \in Requests
        BY <2>12 DEF Login, Free
      <3>2. current = NoRead /\ view.status # "success"
        BY <2>12 DEF Login, ScreenInv
      <3>3. \A r \in inflight' : r.id # current'
        <4>1. \A r \in inflight' : r \in inflight \/ r.id = checking'
          BY <2>12 DEF Login
        <4>2. current' = NoRead
          BY <2>12, <3>2 DEF Login
        <4>3. \A r \in inflight : r.id \in Requests
          BY <2>1 DEF Request
        <4> QED
          BY <3>1, <4>1, <4>2, <4>3
      <3>4. current' = NoRead /\ view'.status # "success"
        BY <2>12, <3>2 DEF Login
      <3> QED
        BY <3>3, <3>4 DEF ScreenInv, ScreenMatchesRequest, RowsAreThisSessions
    <2>13. CASE Record
      BY <2>13 DEF Record, controls, ScreenInv, Awaited, ScreenMatchesRequest, RowsAreThisSessions
    <2>14. ASSUME NEW t \in Tokens, Expire(t) PROVE ScreenInv'
      BY <2>14 DEF Expire, controls, ScreenInv, Awaited, ScreenMatchesRequest, RowsAreThisSessions
    <2>15. ASSUME NEW r \in inflight, Serve(r) PROVE ScreenInv'
      <3>1. \A q \in inflight' : q \in inflight \/
               (q.id = r.id /\ q.page = r.page /\ q.filter = r.filter /\ q.token = r.token)
        BY <2>1, <2>15 DEF Serve, Request
      <3> QED
        BY <2>15, <3>1 DEF Serve, server, controls, ScreenInv, Awaited, ScreenMatchesRequest,
           RowsAreThisSessions
    <2>16. ASSUME NEW r \in inflight, Refusal(r) PROVE ScreenInv'
      <3>1. CASE route # "login"
        BY <2>4, <2>16, <3>1 DEF Refusal
      <3>2. CASE route = "login"
        BY <2>16, <3>2 DEF Refusal, controls, ScreenInv, Awaited, ScreenMatchesRequest,
           RowsAreThisSessions
      <3> QED
        BY <3>1, <3>2
    <2>17. ASSUME NEW r \in inflight, Rows(r) PROVE ScreenInv'
      <3>1. r.id \in Requests /\ Awaited(r)
        BY <2>1, <2>17 DEF Rows, ScreenInv, Request
      <3>2. route \in Pages
        BY <2>17, <3>1 DEF Rows, ScreenInv
      <3>3. \A q \in inflight' : q.id # current'
        BY <2>1, <2>17 DEF Rows, Request
      <3> QED
        BY <2>17, <3>1, <3>2, <3>3 DEF Rows, controls, ScreenInv, Awaited, ScreenMatchesRequest,
           RowsAreThisSessions
    <2>18. ASSUME NEW r \in inflight, Overtaken(r) PROVE ScreenInv'
      BY <2>18 DEF Overtaken, controls, ScreenInv, Awaited, ScreenMatchesRequest,
         RowsAreThisSessions
    <2>19. ASSUME NEW r \in inflight, LoggedIn(r) PROVE ScreenInv'
      <3>1. CASE route = Home
        BY <2>19, <3>1 DEF LoggedIn, controls, ScreenInv, Awaited, ScreenMatchesRequest,
           RowsAreThisSessions
      <3>2. CASE route # Home
        BY <2>3, <2>19, <3>2 DEF LoggedIn
      <3> QED
        BY <3>1, <3>2
    <2>20. ASSUME NEW r \in inflight, Broken(r) PROVE ScreenInv'
      <3>1. CASE r.from = "login"
        BY <2>20, <3>1 DEF Broken, controls, ScreenInv, Awaited, ScreenMatchesRequest,
           RowsAreThisSessions
      <3>2. CASE r.from # "login"
        <4>1. view'.status = "error" /\ current' = NoRead
          BY <2>2, <2>20, <3>2 DEF Broken, View
        <4>2. \A q \in inflight' : q.id # current'
          BY <2>1, <2>20, <4>1 DEF Broken, Request
        <4> QED
          BY <4>1, <4>2 DEF ScreenInv, ScreenMatchesRequest, RowsAreThisSessions
      <3> QED
        BY <3>1, <3>2
    <2>21. CASE UNCHANGED vars
      BY <2>21 DEF vars, ScreenInv, Awaited, ScreenMatchesRequest, RowsAreThisSessions
    <2>22. ASSUME NEW r \in inflight, Arrive(r) PROVE ScreenInv'
      BY <2>16, <2>17, <2>18, <2>19, <2>20, <2>22 DEF Arrive
    <2>23. CASE Operator
      BY <2>5, <2>6, <2>7, <2>8, <2>9, <2>10, <2>11, <2>12, <2>23 DEF Operator
    <2>24. CASE Server
      BY <2>13, <2>14, <2>24 DEF Server
    <2> QED
      BY <2>15, <2>21, <2>22, <2>23, <2>24 DEF Next
  <1> QED
    BY <1>1, <1>2, WebTypes, PTL DEF Spec

\* The rows, the page number, the range and the filter on screen belong to one
\* read, the newest the operator asked for.
THEOREM ScreenIsTrue == Spec => []ScreenMatchesRequest
  <1>1. ScreenInv => ScreenMatchesRequest
    BY DEF ScreenInv
  <1> QED
    BY <1>1, ScreenInvHolds, PTL

\* No session is shown rows that an earlier one's slow request brought.
THEOREM SessionsApart == Spec => []RowsAreThisSessions
  <1>1. ScreenInv => RowsAreThisSessions
    BY DEF ScreenInv
  <1> QED
    BY <1>1, ScreenInvHolds, PTL
================================================================================
