---------------------------- MODULE LedgerInvariants ----------------------------
(***************************************************************************)
(* Why the properties hold: the inductive invariant of the write path, in  *)
(* the parts each of them needs.                                           *)
(***************************************************************************)
EXTENDS LedgerProperties

\* A row has one lock holder, who asked for it, from the lock loop to the end of
\* its database transaction, and no longer a connection; a row nobody holds is as
\* committed.
LocksInv ==
    /\ \A c, d \in Calls : c # d => held[c] \cap held[d] = {}
    /\ \A c \in Calls :
          /\ held[c] \subseteq Touched(request[c])
          /\ pc[c] \notin {"lock", "post"} => held[c] = {} /\ c \notin conns
          /\ pc[c] = "post" => held[c] = Touched(request[c])
    /\ \A a \in Accounts : (\A c \in Calls : a \notin held[c]) => tentative[a] = book[a]

\* Nothing on a row a call holds lies past what the call has read there, nor past
\* the date it has settled on.
DatesInv ==
    /\ \A a \in Accounts :
          /\ Forward(book[a])
          /\ Forward(tentative[a])
          /\ book[a].last_date <= tentative[a].last_date
    /\ \A c \in Calls : \A a \in held[c] :
          /\ pc[c] = "lock" => tentative[a].last_date <= latest[c]
          /\ pc[c] = "post" => tentative[a].last_date <= date[c]

\* A stamped date lies strictly past what other transactions left on the row, from
\* the moment the call settles on it.
StampedPast(row) ==
    \A i, j \in DOMAIN row.register :
        /\ i < j
        /\ row.register[i].tx # row.register[j].tx
        /\ request[row.register[j].tx].date = NoDate
        => row.register[i].date < row.register[j].date

StampsInv ==
    /\ \A a \in Accounts : StampedPast(book[a]) /\ StampedPast(tentative[a])
    /\ \A c \in Calls : \A a \in held[c] : \A i \in DOMAIN tentative[a].register :
          /\ pc[c] = "post"
          /\ request[c].date = NoDate
          /\ tentative[a].register[i].tx # c
          => tentative[a].register[i].date < date[c]

\* A key is taken by a committed transaction or by the one call writing under it,
\* and every answer that names a transaction names the key's.
KeysInv ==
    /\ \A t \in transactions :
          /\ pc[t.id] = "done"
          /\ t.key = request[t.id].key
          /\ t.fingerprint = Fingerprint(request[t.id])
          /\ answer[t.id].code \in {"recorded", "failed"}
    /\ \A t, u \in transactions : t.key = u.key => t = u
    /\ \A c \in Calls :
          /\ pc[c] = "post" =>
                /\ KeyFree(request[c].key)
                /\ \A d \in Calls \ {c} : pc[d] = "post" => request[d].key # request[c].key
          /\ pc[c] = "reread" => ~KeyFree(request[c].key)
          /\ pc[c] # "done" <=> answer[c].code = "none"
          /\ answer[c].code \in {"recorded", "replayed"} =>
                \E t \in transactions :
                    /\ t.id = answer[c].tx
                    /\ t.key = request[c].key
                    /\ t.fingerprint = Fingerprint(request[c])
          /\ answer[c].code = "reused" =>
                \E t \in transactions :
                    t.key = request[c].key /\ t.fingerprint # Fingerprint(request[c])

\* A supplied date is never moved, and it is refused as backdated only for a
\* posting that is committed, which stays committed.
Precedes(c) ==
    /\ request[c].date # NoDate
    /\ \E a \in Touched(request[c]) : TruncateDate(request[c].date) < book[a].last_date

SuppliedInv ==
    /\ \A t \in transactions :
          request[t.id].date # NoDate => t.date = TruncateDate(request[t.id].date)
    /\ \A c \in Calls :
          /\ pc[c] \in {"check", "begin"} => latest[c] = ZeroTime
          /\ pc[c] \in {"lock", "post"} /\ request[c].date # NoDate =>
                date[c] = TruncateDate(request[c].date)
          /\ pc[c] = "lock" =>
                \/ latest[c] = ZeroTime
                \/ \E a \in held[c] : latest[c] = tentative[a].last_date
          /\ pc[c] = "recheck" \/ answer[c].code = "backdated" => Precedes(c)
    /\ \A c \in Calls : \A a \in held[c] : pc[c] = "lock" =>
          tentative[a].last_date = book[a].last_date \/ tentative[a].last_date = date[c]

\* A row under its lock is the committed row with postings of the holder after it.
TraceInv ==
    /\ \A a \in Accounts : \A i \in DOMAIN book[a].register :
          /\ i \in DOMAIN tentative[a].register
          /\ tentative[a].register[i] = book[a].register[i]
          /\ \E t \in transactions : t.id = book[a].register[i].tx
    /\ \A a \in Accounts : \A i \in DOMAIN tentative[a].register :
          i > Len(book[a].register) =>
             /\ pc[tentative[a].register[i].tx] = "post"
             /\ a \in held[tentative[a].register[i].tx]

\* A row a call has locked carries its first legs so far after what is committed, and
\* nothing before the call posts.
PostedSoFar(c, a) ==
    LET before == Len(book[a].register)
        legs == request[c].postings
    IN  /\ Len(tentative[a].register) = before + LegsOn(request[c], a, leg[c] - 1)
        /\ \A n \in 1 .. leg[c] - 1 : legs[n].account = a =>
              tentative[a].register[before + LegsOn(request[c], a, n)].amount = legs[n].amount

LegsInv ==
    \A c \in Calls :
        /\ pc[c] \in {"check", "begin", "lock"} => leg[c] = 1
        /\ pc[c] = "lock" => \A a \in held[c] :
              /\ tentative[a].register = book[a].register
              /\ tentative[a].balance = book[a].balance
        /\ pc[c] = "post" =>
              /\ leg[c] <= Len(request[c].postings) + 1
              /\ \A a \in held[c] : PostedSoFar(c, a)

BalancesFit ==
    \A a \in Accounts : \A row \in {book[a], tentative[a]} :
        /\ Fits(row.balance)
        /\ \A i \in DOMAIN row.register :
              Fits(row.register[i].amount) /\ Fits(row.register[i].balance)

Inductive ==
    /\ RunningBalances
    /\ LocksInv
    /\ DatesInv
    /\ StampsInv
    /\ KeysInv
    /\ SuppliedInv
    /\ TraceInv
    /\ LegsInv
    /\ BalancesFit
================================================================================
