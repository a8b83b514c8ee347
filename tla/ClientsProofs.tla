----------------------------- MODULE ClientsProofs -----------------------------
(***************************************************************************)
(* What the clients are told and what the form records and shows, what     *)
(* the processes do to each other, and what becomes of an amount, for any  *)
(* number of calls, keys, replicas and contents and every width.           *)
(***************************************************************************)
EXTENDS Clients, FingerprintProofs

\* A process that applies the schema holds its lock, and finds no tables where it is
\* about to create them.
ReplicaInv ==
    /\ phase \in [Replica -> Phases]
    /\ \A r \in Replica :
          /\ phase[r] # "failed"
          /\ phase[r] = "creating" => holder = r /\ ~tables
          /\ phase[r] = "created" => holder = r

\* It always holds, however many processes start together, are signalled and die.
LEMMA ReplicasInvariant == Spec => []ReplicaInv
  <1> USE ReplicaConstants DEF ReplicaInv, Phases
  <1>1. Init => ReplicaInv
    BY DEF Init, ReplicasInit
  <1>2. ReplicaInv /\ [Next]_vars => ReplicaInv'
    <2> SUFFICES ASSUME ReplicaInv, [Next]_vars PROVE ReplicaInv'
      OBVIOUS
    <2>1. ASSUME NEW r \in Replica, Start(r) PROVE ReplicaInv'
      BY <2>1 DEF Start, Goes
    <2>2. ASSUME NEW r \in Replica, TakeLock(r) PROVE ReplicaInv'
      BY <2>2 DEF TakeLock, Goes, Looked
    <2>3. ASSUME NEW r \in Replica, Create(r) PROVE ReplicaInv'
      BY <2>3 DEF Create, Goes
    <2>4. ASSUME NEW r \in Replica, Unlock(r) PROVE ReplicaInv'
      BY <2>4 DEF Unlock, Goes
    <2>5. ASSUME NEW r \in Replica, Signal(r) PROVE ReplicaInv'
      BY <2>5 DEF Signal, Goes
    <2>6. ASSUME NEW r \in Replica, StopServing(r) PROVE ReplicaInv'
      BY <2>6 DEF StopServing, Goes
    <2>7. ASSUME NEW r \in Replica, Exit(r) PROVE ReplicaInv'
      BY <2>7 DEF Exit, Goes
    <2>8. ASSUME NEW r \in Replica, Die(r) PROVE ReplicaInv'
      BY <2>8 DEF Die
    <2>9. ASSUME NEW c, Accept(c) PROVE ReplicaInv'
      BY <2>9 DEF Accept
    <2>10. ASSUME NEW r \in Replica, NEW c, Handle(r, c) PROVE ReplicaInv'
      BY <2>10 DEF Handle
    <2>11. CASE UNCHANGED replicaVars
      BY <2>11 DEF replicaVars
    <2>12. (Post \/ Mount \/ Edit \/ Generate \/ Leave \/ Submit) => UNCHANGED replicaVars
      BY DEF Post, Mount, Edit, Generate, Leave, Submit
    <2>13. \A c \in DOMAIN calls :
              Refuse(c) \/ Deliver(c) \/ LearnCut(c) \/ Lose(c) \/ GiveUp(c) => UNCHANGED replicaVars
      BY DEF Refuse, Deliver, LearnCut, Lose, GiveUp, Tell
    <2> QED
      BY <2>1, <2>2, <2>3, <2>4, <2>5, <2>6, <2>7, <2>8, <2>9, <2>10, <2>11, <2>12, <2>13
         DEF Next, Main, Proceeds, DieWithCalls, vars
  <1> QED
    BY <1>1, <1>2, PTL DEF Spec

\* The schema is never created by two processes.
THEOREM SchemaCreatedOnce == Spec => []SchemaNeverCollides
  <1>1. ReplicaInv => SchemaNeverCollides
    BY DEF ReplicaInv, SchemaNeverCollides
  <1> QED
    BY <1>1, ReplicasInvariant, PTL

----------------------------------------------------------------------------
\* No call is handled twice, an answered call has its answer, and an open form a key.
Tidy ==
    /\ \A r \in Replica : \A c \in handlers[r] : calls[c].stage = "handling"
    /\ \A r, q \in Replica : r # q => handlers[r] \cap handlers[q] = {}
    /\ \A c \in DOMAIN calls : calls[c].stage = "answered" <=> calls[c].answer # None
    /\ form.open => form.key # 0

\* What a client may be told.
Verdicts == Answers \cup {"Unavailable", "DeadlineExceeded"}

\* What Send leaves.
Sent(from, key, content, entry) ==
    /\ sent' \in 0 .. MaxCalls
    /\ sent + 1 \notin DOMAIN calls
    /\ DOMAIN calls' = DOMAIN calls \cup {sent + 1}
    /\ DOMAIN calls' \subseteq 1 .. sent'
    /\ \A c \in DOMAIN calls : calls'[c] = calls[c]
    /\ calls'[sent + 1] = [from |-> from, key |-> key, content |-> content, entry |-> entry,
                           stage |-> "sent", answer |-> None, told |-> None]
    /\ calls'[sent + 1] \in Call

\* Sending adds one call, numbered next, and leaves every other as it was.
LEMMA SendAdds ==
    ASSUME TypeOK, NEW from \in {"cli", "form"}, NEW key \in Keys, NEW content \in Contents,
           NEW entry \in 0 .. MaxKeys, Send(from, key, content, entry)
    PROVE  Sent(from, key, content, entry)
  <1>1. /\ sent \in Nat /\ sent' = sent + 1 /\ sent < MaxCalls
        /\ DOMAIN calls \subseteq 1 .. sent
    BY DEF TypeOK, Send
  <1>2. calls' = [c \in DOMAIN calls \cup {sent + 1} |->
                    IF c \in DOMAIN calls THEN calls[c]
                    ELSE [from |-> from, key |-> key, content |-> content, entry |-> entry,
                          stage |-> "sent", answer |-> None, told |-> None]]
    BY DEF Send
  <1>3. sent + 1 \notin DOMAIN calls
    BY <1>1
  <1> QED
    BY <1>1, <1>2, <1>3, ClientConstants DEF Sent, Call

\* Telling a client its verdict changes no call but that one, and of it only the
\* verdict; a call that is over is not kept.
LEMMA TellKeeps ==
    ASSUME TypeOK, NEW c \in DOMAIN calls, NEW verdict \in Verdicts, Tell(c, verdict)
    PROVE  /\ DOMAIN calls' \subseteq DOMAIN calls
           /\ \A d \in DOMAIN calls' : d # c => calls'[d] = calls[d]
           /\ \A d \in DOMAIN calls' :
                 /\ calls'[d].from = calls[d].from /\ calls'[d].key = calls[d].key
                 /\ calls'[d].content = calls[d].content /\ calls'[d].entry = calls[d].entry
                 /\ calls'[d].stage = calls[d].stage /\ calls'[d].answer = calls[d].answer
           /\ c \in DOMAIN calls' => calls'[c].told = verdict
           /\ \A d \in DOMAIN calls : calls[d].stage = "handling" => d \in DOMAIN calls'
           /\ \A d \in DOMAIN calls : calls[d].told = None /\ d # c => d \in DOMAIN calls'
           /\ \A d \in DOMAIN calls' : calls'[d] \in Call
  <1> DEFINE told == [calls EXCEPT ![c].told = verdict]
  <1>1. calls' = Kept(told)
    BY DEF Tell
  <1>2. DOMAIN told = DOMAIN calls /\ \A d \in DOMAIN calls : d # c => told[d] = calls[d]
    OBVIOUS
  <1>3. told[c] = [calls[c] EXCEPT !.told = verdict]
    OBVIOUS
  <1>4. calls[c] \in Call /\ \A d \in DOMAIN calls : calls[d] \in Call
    BY DEF TypeOK
  <1>5. /\ told[c] \in Call
        /\ told[c].from = calls[c].from /\ told[c].key = calls[c].key
        /\ told[c].content = calls[c].content /\ told[c].entry = calls[c].entry
        /\ told[c].stage = calls[c].stage /\ told[c].answer = calls[c].answer
        /\ told[c].told = verdict
    BY <1>3, <1>4 DEF Call, Verdicts
  <1> HIDE DEF told
  <1>6. /\ DOMAIN Kept(told) = {d \in DOMAIN told : told[d].told = None \/ told[d].stage # "answered"}
        /\ \A d \in DOMAIN Kept(told) : Kept(told)[d] = told[d]
    BY DEF Kept
  <1>7. /\ DOMAIN calls' = {d \in DOMAIN calls : told[d].told = None \/ told[d].stage # "answered"}
        /\ \A d \in DOMAIN calls' : calls'[d] = told[d]
    BY <1>1, <1>2, <1>6, Zenon
  <1>8. \A d \in DOMAIN calls' : d # c => calls'[d] = calls[d]
    BY <1>2, <1>7
  <1>9. \A d \in DOMAIN calls' :
           /\ calls'[d].from = calls[d].from /\ calls'[d].key = calls[d].key
           /\ calls'[d].content = calls[d].content /\ calls'[d].entry = calls[d].entry
           /\ calls'[d].stage = calls[d].stage /\ calls'[d].answer = calls[d].answer
    BY <1>5, <1>7, <1>8, Zenon
  <1>10. c \in DOMAIN calls' => calls'[c].told = verdict
    BY <1>5, <1>7
  <1>11. /\ \A d \in DOMAIN calls : calls[d].stage = "handling" => d \in DOMAIN calls'
         /\ \A d \in DOMAIN calls : calls[d].told = None /\ d # c => d \in DOMAIN calls'
    BY <1>2, <1>5, <1>7
  <1>12. \A d \in DOMAIN calls' : calls'[d] \in Call
    BY <1>4, <1>5, <1>7, <1>8
  <1> QED
    BY <1>7, <1>8, <1>9, <1>10, <1>11, <1>12

\* A form whose banner is taken down is a form, open as before and under its key.
LEMMA ClearedForms ==
    ASSUME form \in Form, form' = [form EXCEPT !.banner = FALSE, !.asked = 0, !.last = Nothing]
    PROVE  form' \in Form /\ form'.open = form.open /\ form'.key = form.key
  <1>1. 0 \in 0 .. MaxCalls /\ Nothing \in [key : Keys, content : Contents] \cup {Nothing}
    BY ClientConstants
  <1> QED
    BY <1>1 DEF Form

\* The form as it is left is a form.
LEMMA ClosedForms == \A content \in Contents : Closed(content) \in Form
  BY ClientConstants DEF Closed, Form, Nothing

\* The form after its submission has ended, whatever the verdict, is a form.
LEMMA EndedForms ==
    ASSUME form \in Form, NEW verdict
    PROVE  Ended(verdict) \in Form
  <1> USE DEF Form
  <1>1. CASE verdict = "replayed"
    <2>1. Ended(verdict) = [form EXCEPT !.submitting = FALSE, !.banner = TRUE]
      BY <1>1 DEF Ended
    <2> QED
      BY <2>1
  <1>2. CASE verdict # "replayed"
    <2>1. Ended(verdict) = [form EXCEPT !.submitting = FALSE, !.asked = 0, !.last = Nothing]
      BY <1>2 DEF Ended
    <2>2. 0 \in 0 .. MaxCalls /\ Nothing \in [key : Keys, content : Contents] \cup {Nothing}
      BY ClientConstants
    <2> QED
      BY <2>1, <2>2
  <1> QED
    BY <1>1, <1>2

\* Every outcome a handler can meet is answered with a status.
LEMMA OutcomesAnswer == \A outcome \in Outcomes : StatusOf(outcome) \in Answers \ {None}
  BY ClientConstants DEF Answers, Outcomes, StatusOf, None

\* What can become of a call is one of the outcomes the service maps to a status.
LEMMA PossibleOutcomes == \A call : Possible(call) \subseteq Outcomes
  BY DEF Possible, Outcomes

\* Every variable keeps its type, and no call is handled twice.
THEOREM ClientTypes == Spec => [](TypeOK /\ Tidy)
  <1> USE ReplicaConstants, ClientConstants
  <1>1. Init => TypeOK /\ Tidy
    <2> SUFFICES ASSUME Init PROVE TypeOK /\ Tidy
      OBVIOUS
    <2>1. form \in Form /\ ~form.open
      BY ClosedForms DEF Init, Closed
    <2>2. DOMAIN calls = {}
      BY DEF Init
    <2>3. handlers \in [Replica -> SUBSET DOMAIN calls] /\ \A r \in Replica : handlers[r] = {}
      BY DEF Init, ReplicasInit
    <2>4. book \in [Keys -> [content : Contents \ Incomplete, by : 1 .. MaxCalls,
                             entry : 0 .. MaxKeys] \cup {Unrecorded}]
      BY DEF Init
    <2>5. /\ phase \in [Replica -> Phases] /\ holder \in Replica \cup {Nobody} /\ tables \in BOOLEAN
          /\ starts \in 0 .. MaxStarts /\ ends \in 0 .. MaxEnds
          /\ sent \in 0 .. MaxCalls /\ generated \in 0 .. MaxKeys
      <3>1. phase = [r \in Replica |-> "down"] /\ holder = Nobody /\ tables = FALSE
        BY DEF Init, ReplicasInit
      <3>2. starts = 0 /\ ends = 0 /\ sent = 0 /\ generated = 0
        BY DEF Init, ReplicasInit
      <3>3. phase \in [Replica -> Phases] /\ holder \in Replica \cup {Nobody}
        BY <3>1 DEF Phases
      <3>4. tables \in BOOLEAN
        BY <3>1, Zenon
      <3> QED
        BY <3>2, <3>3, <3>4
    <2>6. TypeOK
      BY <2>1, <2>2, <2>3, <2>4, <2>5 DEF TypeOK
    <2>7. Tidy
      BY <2>1, <2>2, <2>3 DEF Tidy
    <2> QED
      BY <2>6, <2>7
  <1>2. (TypeOK /\ Tidy) /\ [Next]_vars => (TypeOK /\ Tidy)'
    <2> SUFFICES ASSUME TypeOK, Tidy, [Next]_vars PROVE TypeOK' /\ Tidy'
      OBVIOUS
    <2>1. ASSUME NEW r \in Replica, Start(r) \/ Main(r) \/ Signal(r), UNCHANGED clientVars
          PROVE  TypeOK' /\ Tidy'
      <3>1. handlers' = handlers
        BY <2>1 DEF Start, Main, Signal, TakeLock, Create, Unlock, StopServing, Exit
      <3>2. /\ phase' \in [Replica -> Phases]
            /\ holder' \in Replica \cup {Nobody}
            /\ tables' \in BOOLEAN
            /\ starts' \in 0 .. MaxStarts
            /\ ends' \in 0 .. MaxEnds
        <4> USE DEF TypeOK, Goes, Phases
        <4>1. CASE Start(r)
          BY <4>1 DEF Start
        <4>2. CASE Signal(r)
          BY <4>2 DEF Signal
        <4>3. CASE TakeLock(r)
          BY <4>3 DEF TakeLock, Looked
        <4>4. CASE Create(r)
          BY <4>4 DEF Create
        <4>5. CASE Unlock(r)
          BY <4>5 DEF Unlock
        <4>6. CASE StopServing(r)
          BY <4>6 DEF StopServing
        <4>7. CASE Exit(r)
          BY <4>7 DEF Exit
        <4> QED
          BY <2>1, <4>1, <4>2, <4>3, <4>4, <4>5, <4>6, <4>7 DEF Main
      <3> QED
        BY <2>1, <3>1, <3>2 DEF clientVars, TypeOK, Tidy
    <2>2. ASSUME NEW r \in Replica, DieWithCalls(r) PROVE TypeOK' /\ Tidy'
      <3> DEFINE cut == [c \in DOMAIN calls |->
                           IF c \in handlers[r] THEN [calls[c] EXCEPT !.stage = "cut"] ELSE calls[c]]
      <3>1. /\ calls' = cut
            /\ handlers' = [handlers EXCEPT ![r] = {}]
            /\ UNCHANGED <<sent, book, generated, form>>
        BY <2>2 DEF DieWithCalls, Die
      <3>2. /\ phase' \in [Replica -> Phases]
            /\ holder' \in Replica \cup {Nobody}
            /\ tables' \in BOOLEAN
            /\ starts' \in 0 .. MaxStarts
            /\ ends' \in 0 .. MaxEnds
        BY <2>2 DEF DieWithCalls, Die, TypeOK, Phases
      <3>3. DOMAIN cut = DOMAIN calls /\ \A c \in DOMAIN calls : cut[c] \in Call
        BY DEF TypeOK, Call
      <3>4. \A c \in DOMAIN calls : c \notin handlers[r] => cut[c] = calls[c]
        OBVIOUS
      <3> HIDE DEF cut
      <3>5. DOMAIN calls' = DOMAIN calls /\ \A d \in DOMAIN calls' : calls'[d] = cut[d]
        BY <3>1, <3>3
      <3>6. \A q \in Replica : \A c \in handlers'[q] :
               c \in DOMAIN calls' /\ c \notin handlers[r] /\ c \in handlers[q]
        BY <3>1, <3>3, <3>4, <3>5 DEF TypeOK, Tidy
      <3>7. handlers' \in [Replica -> SUBSET DOMAIN calls']
        BY <3>1, <3>6 DEF TypeOK
      <3>8. TypeOK'
        BY <3>1, <3>2, <3>3, <3>5, <3>7 DEF TypeOK
      <3>9. \A c \in DOMAIN calls : cut[c].stage = "answered" <=> cut[c].answer # None
        BY DEF cut, Tidy, TypeOK, Call
      <3>10. Tidy'
        BY <3>1, <3>3, <3>4, <3>5, <3>6, <3>9 DEF Tidy, TypeOK
      <3> QED
        BY <3>8, <3>10
    <2>3. ASSUME Post PROVE TypeOK' /\ Tidy'
      <3> PICK key \in Keys, content \in Posted :
             /\ Send("cli", key, content, 0)
             /\ generated' = IF key > generated THEN key ELSE generated
        BY <2>3 DEF Post
      <3>1. UNCHANGED <<replicaVars, book, form>>
        BY <2>3 DEF Post
      <3>2. generated' \in 0 .. MaxKeys
        BY DEF TypeOK, Keys
      <3>3. 0 \in 0 .. MaxKeys /\ content \in Contents
        OBVIOUS
      <3>4. "cli" \in {"cli", "form"}
        OBVIOUS
      <3>5. Sent("cli", key, content, 0)
        BY <3>3, <3>4, SendAdds
      <3> QED
        BY <3>1, <3>2, <3>5 DEF Sent, TypeOK, Tidy, replicaVars
    <2>4. ASSUME Mount \/ Edit \/ Generate \/ Leave PROVE TypeOK' /\ Tidy'
      <3>1. UNCHANGED <<replicaVars, sent, calls, book>>
        BY <2>4 DEF Mount, Edit, Generate, Leave
      <3>2. /\ generated' \in 0 .. MaxKeys
            /\ form' \in Form
            /\ form'.open => form'.key # 0
        <4>1. form \in Form /\ generated \in 0 .. MaxKeys /\ (form.open => form.key # 0)
          BY DEF TypeOK, Tidy
        <4>2. CASE Edit
          BY <4>1, <4>2 DEF Edit, Form
        <4>3. CASE Mount \/ Generate
          <5>1. generated + 1 \in 0 .. MaxKeys /\ generated + 1 # 0 /\ generated' = generated + 1
            BY <4>1, <4>3 DEF Mount, Generate
          <5>2. CASE Mount
            <6>1. form' = [form EXCEPT !.open = TRUE, !.key = generated + 1, !.entry = generated + 1]
              BY <5>2 DEF Mount
            <6> QED
              BY <4>1, <5>1, <6>1 DEF Form
          <5>3. CASE Generate
            <6>1. form' = [form EXCEPT !.key = generated + 1, !.entry = generated + 1]
              BY <5>3 DEF Generate
            <6> QED
              BY <4>1, <5>1, <6>1 DEF Form
          <5> QED
            BY <4>3, <5>2, <5>3
        <4>4. CASE Leave
          BY <4>1, <4>4, ClosedForms DEF Leave, Leaves, Closed
        <4> QED
          BY <2>4, <4>2, <4>3, <4>4
      <3> QED
        BY <3>1, <3>2 DEF TypeOK, Tidy, replicaVars
    <2>5. ASSUME Submit PROVE TypeOK' /\ Tidy'
      <3>1. form.open /\ UNCHANGED <<replicaVars, book, generated>>
        BY <2>5 DEF Submit
      <3>2. form.key \in Keys /\ form.content \in Contents /\ form.entry \in 0 .. MaxKeys
        BY <3>1 DEF Tidy, TypeOK, Form, Keys
      <3>3. CASE form.content \in Incomplete
        <4>1. /\ form' = [form EXCEPT !.banner = FALSE, !.asked = 0, !.last = Nothing]
              /\ UNCHANGED <<sent, calls>>
          BY <2>5, <3>3 DEF Submit
        <4>2. form' \in Form /\ form'.open = form.open /\ form'.key = form.key
          BY <4>1, ClearedForms DEF TypeOK
        <4> QED
          BY <3>1, <4>1, <4>2 DEF TypeOK, Tidy, replicaVars
      <3>4. CASE form.content \notin Incomplete
        <4>1. /\ Send("form", form.key, form.content, form.entry)
              /\ form' = [form EXCEPT !.banner = FALSE, !.submitting = TRUE, !.asked = sent + 1,
                                      !.last = Pressed]
          BY <2>5, <3>4 DEF Submit
        <4>2. sent + 1 \in 0 .. MaxCalls /\ Pressed \in [key : Keys, content : Contents]
          BY <3>2, <4>1 DEF Send, TypeOK, Pressed
        <4>3. form' \in Form /\ form'.open = form.open /\ form'.key = form.key
          BY <4>1, <4>2 DEF TypeOK, Form
        <4>4. Sent("form", form.key, form.content, form.entry)
          BY <3>2, <4>1, SendAdds
        <4>5. form'.open => form'.key # 0
          BY <4>3 DEF Tidy
        <4> QED
          BY <3>1, <4>3, <4>4, <4>5 DEF Sent, TypeOK, Tidy, replicaVars
      <3> QED
        BY <3>3, <3>4
    <2>6. ASSUME NEW c \in DOMAIN calls, Accept(c) PROVE TypeOK' /\ Tidy'
      <3> PICK r \in Replica : handlers' = [handlers EXCEPT ![r] = @ \cup {c}]
        BY <2>6 DEF Accept
      <3>1. /\ calls[c].stage = "sent"
            /\ calls' = [calls EXCEPT ![c].stage = "handling"]
            /\ UNCHANGED <<phase, holder, tables, starts, ends, sent, book, generated, form>>
        BY <2>6 DEF Accept
      <3>2. /\ DOMAIN calls' = DOMAIN calls
            /\ \A d \in DOMAIN calls : d # c => calls'[d] = calls[d]
            /\ calls'[c] = [calls[c] EXCEPT !.stage = "handling"]
        BY <3>1
      <3>3. /\ calls'[c] \in Call /\ calls'[c].stage = "handling"
            /\ calls'[c].answer = calls[c].answer
        BY <3>2 DEF TypeOK, Call
      <3>4. handlers' \in [Replica -> SUBSET DOMAIN calls']
        BY <3>2 DEF TypeOK
      <3>5. \A q \in Replica : c \notin handlers[q]
        BY <3>1 DEF Tidy
      <3>6. TypeOK'
        BY <3>1, <3>2, <3>3, <3>4 DEF TypeOK
      <3>7. Tidy'
        BY <3>1, <3>2, <3>3, <3>5 DEF TypeOK, Tidy
      <3> QED
        BY <3>6, <3>7
    <2>7. ASSUME NEW c \in DOMAIN calls, NEW verdict \in Verdicts, Tell(c, verdict)
          PROVE  TypeOK' /\ Tidy'
      <3>1. UNCHANGED <<replicaVars, sent, book>>
        BY <2>7 DEF Tell
      <3>2. generated' = generated
        BY <2>7 DEF Tell, Show
      <3>3. form' \in Form /\ (form'.open => form'.key # 0)
        <4>1. CASE form' = form
          BY <4>1 DEF TypeOK, Tidy
        <4>2. CASE Leaves
          BY <4>2, ClosedForms DEF Leaves, Closed
        <4>3. CASE form' = Ended(verdict)
          <5>1. form' \in Form
            BY <4>3, EndedForms DEF TypeOK
          <5>2. form'.open = form.open /\ form'.key = form.key
            BY <4>3 DEF Ended, TypeOK, Form
          <5> QED
            BY <5>1, <5>2 DEF Tidy
        <4> QED
          BY <2>7, <4>1, <4>2, <4>3 DEF Tell, Show
      <3>4. /\ DOMAIN calls' \subseteq DOMAIN calls
            /\ \A d \in DOMAIN calls' : calls'[d] \in Call
            /\ \A d \in DOMAIN calls' :
                  calls'[d].stage = calls[d].stage /\ calls'[d].answer = calls[d].answer
            /\ \A d \in DOMAIN calls : calls[d].stage = "handling" => d \in DOMAIN calls'
        BY <2>7, TellKeeps
      <3>5. handlers' \in [Replica -> SUBSET DOMAIN calls']
        BY <3>1, <3>4 DEF TypeOK, Tidy, replicaVars
      <3>6. TypeOK'
        BY <3>1, <3>2, <3>3, <3>4, <3>5 DEF TypeOK, replicaVars
      <3>7. Tidy'
        BY <3>1, <3>3, <3>4, <3>5 DEF Tidy, TypeOK, replicaVars
      <3> QED
        BY <3>6, <3>7
    <2>8. ASSUME NEW c \in DOMAIN calls, NEW r \in Replica, Handle(r, c) PROVE TypeOK' /\ Tidy'
      <3> PICK outcome \in Possible(calls[c]) :
             /\ calls' = Kept([calls EXCEPT ![c].stage = "answered", ![c].answer = StatusOf(outcome)])
             /\ \/ /\ outcome \in {"recorded", "failed"} /\ book[calls[c].key] = Unrecorded
                   /\ book' = [book EXCEPT ![calls[c].key] =
                                 [content |-> calls[c].content, by |-> c, entry |-> calls[c].entry]]
                \/ outcome # "recorded" /\ UNCHANGED book
        BY <2>8 DEF Handle
      <3> DEFINE done == [calls EXCEPT ![c].stage = "answered", ![c].answer = StatusOf(outcome)]
      <3>1. /\ c \in handlers[r]
            /\ handlers' = [handlers EXCEPT ![r] = @ \ {c}]
            /\ UNCHANGED <<phase, holder, tables, starts, ends, sent, generated, form>>
        BY <2>8 DEF Handle
      <3>2. /\ DOMAIN done = DOMAIN calls
            /\ \A d \in DOMAIN calls : d # c => done[d] = calls[d]
            /\ done[c] = [calls[c] EXCEPT !.stage = "answered", !.answer = StatusOf(outcome)]
        OBVIOUS
      <3>3. calls[c] \in Call /\ StatusOf(outcome) \in Answers \ {None}
        BY OutcomesAnswer, PossibleOutcomes DEF TypeOK
      <3>4. done[c] \in Call /\ done[c].stage = "answered" /\ done[c].answer # None
        BY <3>2, <3>3 DEF Call
      <3> HIDE DEF done
      <3>5. calls' = Kept(done)
        BY DEF done
      <3>6. /\ DOMAIN calls' = {d \in DOMAIN done : done[d].told = None \/ done[d].stage # "answered"}
            /\ \A d \in DOMAIN calls' : calls'[d] = done[d]
        BY <3>5 DEF Kept
      <3>7. \A q \in Replica : \A d \in handlers'[q] : d # c /\ d \in handlers[q] /\ d \in DOMAIN calls'
        BY <3>1, <3>2, <3>6 DEF TypeOK, Tidy
      <3>8. handlers' \in [Replica -> SUBSET DOMAIN calls']
        BY <3>1, <3>7 DEF TypeOK
      <3>9. book' \in [Keys -> [content : Contents \ Incomplete, by : 1 .. MaxCalls,
                                entry : 0 .. MaxKeys] \cup {Unrecorded}]
        <4>1. CASE UNCHANGED book
          BY <4>1 DEF TypeOK
        <4>2. CASE /\ outcome \in {"recorded", "failed"}
                   /\ book' = [book EXCEPT ![calls[c].key] =
                                 [content |-> calls[c].content, by |-> c, entry |-> calls[c].entry]]
          <5>1. calls[c].content \notin Incomplete
            BY <4>2 DEF Possible
          <5>2. c \in 1 .. MaxCalls
            BY DEF TypeOK
          <5>3. [content |-> calls[c].content, by |-> c, entry |-> calls[c].entry]
                   \in [content : Contents \ Incomplete, by : 1 .. MaxCalls, entry : 0 .. MaxKeys]
            BY <3>3, <5>1, <5>2 DEF Call
          <5> QED
            BY <4>2, <5>3 DEF TypeOK
        <4> QED
          BY <4>1, <4>2
      <3>10. TypeOK'
        <4>1. DOMAIN calls' \subseteq DOMAIN calls /\ \A d \in DOMAIN calls' : calls'[d] \in Call
          <5>1. DOMAIN calls' \subseteq DOMAIN calls
            BY <3>2, <3>6
          <5>2. \A d \in DOMAIN calls : calls[d] \in Call
            BY DEF TypeOK
          <5>3. \A d \in DOMAIN calls' : calls'[d] = IF d = c THEN done[c] ELSE calls[d]
            BY <3>2, <3>6
          <5> QED
            BY <3>4, <5>1, <5>2, <5>3
        <4> QED
          BY <3>1, <3>8, <3>9, <4>1 DEF TypeOK
      <3>11. Tidy'
        <4>0. \A d \in DOMAIN calls' : calls'[d] = IF d = c THEN done[c] ELSE calls[d]
          BY <3>2, <3>6
        <4>1. \A d \in DOMAIN calls' : calls'[d].stage = "answered" <=> calls'[d].answer # None
          <5> SUFFICES ASSUME NEW d \in DOMAIN calls'
                       PROVE  calls'[d].stage = "answered" <=> calls'[d].answer # None
            OBVIOUS
          <5>1. CASE d = c
            BY <3>4, <4>0, <5>1
          <5>2. CASE d # c
            <6>1. calls'[d] = calls[d]
              BY <4>0, <5>2
            <6>2. d \in DOMAIN calls
              BY <3>2, <3>6
            <6> QED
              BY <6>1, <6>2 DEF Tidy
          <5> QED
            BY <5>1, <5>2
        <4>2. \A q \in Replica : \A d \in handlers'[q] : calls'[d].stage = "handling"
          <5> SUFFICES ASSUME NEW q \in Replica, NEW d \in handlers'[q]
                       PROVE  calls'[d].stage = "handling"
            OBVIOUS
          <5>1. d # c /\ d \in handlers[q] /\ d \in DOMAIN calls'
            BY <3>7
          <5>2. calls'[d] = calls[d]
            BY <4>0, <5>1
          <5> QED
            BY <5>1, <5>2 DEF Tidy
        <4>3. \A p, q \in Replica : p # q => handlers'[p] \cap handlers'[q] = {}
          BY <3>7 DEF Tidy
        <4> QED
          BY <3>1, <4>1, <4>2, <4>3 DEF Tidy
      <3> QED
        BY <3>10, <3>11
    <2>9. CASE UNCHANGED vars
      BY <2>9 DEF vars, replicaVars, clientVars, TypeOK, Tidy
    <2>10. \A c \in DOMAIN calls : Deliver(c) => \E verdict \in Verdicts : Tell(c, verdict)
      <3> SUFFICES ASSUME NEW c \in DOMAIN calls, Deliver(c) PROVE \E verdict \in Verdicts : Tell(c, verdict)
        OBVIOUS
      <3> QED
        BY DEF Deliver, Verdicts, TypeOK, Tidy, Call
    <2>11. \A c \in DOMAIN calls : Refuse(c) \/ LearnCut(c) \/ Lose(c) \/ GiveUp(c)
              => \E verdict \in Verdicts : Tell(c, verdict)
      BY DEF Refuse, LearnCut, Lose, GiveUp, Verdicts
    <2> QED
      BY <2>1, <2>2, <2>3, <2>4, <2>5, <2>6, <2>7, <2>8, <2>9, <2>10, <2>11 DEF Next, Proceeds
  <1> QED
    BY <1>1, <1>2, PTL DEF Spec

----------------------------------------------------------------------------
\* The book and what calls ask and answer stay; calls may be over.
Stays ==
    /\ UNCHANGED <<book, sent>>
    /\ DOMAIN calls' \subseteq DOMAIN calls
    /\ \A c \in DOMAIN calls' :
          /\ calls'[c].key = calls[c].key /\ calls'[c].content = calls[c].content
          /\ calls'[c].entry = calls[c].entry /\ calls'[c].answer = calls[c].answer
          /\ calls[c].stage = "answered" => calls'[c].stage = "answered"
          /\ calls[c].told # None => calls'[c].told # None

\* A call goes out, of the command line's or with the key and the entry of the form.
Sends ==
    /\ UNCHANGED book
    /\ \E from \in {"cli", "form"}, key \in Keys, content \in Contents, entry \in 0 .. MaxKeys :
          /\ Send(from, key, content, entry)
          /\ entry = 0 \/ (entry = form.entry /\ key = form.key)

\* A handler ends.
Ends(c, outcome) ==
    /\ calls[c].stage = "handling"
    /\ sent' = sent
    /\ DOMAIN calls' \subseteq DOMAIN calls
    /\ \A d \in DOMAIN calls' :
          /\ calls'[d].key = calls[d].key /\ calls'[d].content = calls[d].content
          /\ calls'[d].entry = calls[d].entry /\ calls'[d].told = calls[d].told
          /\ d # c => calls'[d] = calls[d]
    /\ c \in DOMAIN calls' => calls'[c].stage = "answered" /\ calls'[c].answer = StatusOf(outcome)
    /\ \/ /\ outcome \in {"recorded", "failed"} /\ book[calls[c].key] = Unrecorded
          /\ book' = [book EXCEPT ![calls[c].key] =
                        [content |-> calls[c].content, by |-> c, entry |-> calls[c].entry]]
       \/ outcome # "recorded" /\ UNCHANGED book

\* A step that handles a call.
Handles == \E c \in DOMAIN calls : \E outcome \in Possible(calls[c]) : Ends(c, outcome)

\* Every step is one of the three.
LEMMA StepKinds ==
    ASSUME TypeOK, Tidy, [Next]_vars
    PROVE  Stays \/ Sends \/ Handles
  <1>1. ASSUME NEW r \in Replica, DieWithCalls(r) PROVE Stays
    <2> DEFINE cut == [c \in DOMAIN calls |->
                         IF c \in handlers[r] THEN [calls[c] EXCEPT !.stage = "cut"] ELSE calls[c]]
    <2>1. calls' = cut /\ UNCHANGED <<book, sent>>
      BY <1>1 DEF DieWithCalls
    <2>2. DOMAIN cut = DOMAIN calls
      OBVIOUS
    <2>3. \A c \in DOMAIN calls :
             /\ cut[c].key = calls[c].key /\ cut[c].content = calls[c].content
             /\ cut[c].entry = calls[c].entry /\ cut[c].answer = calls[c].answer
             /\ calls[c].stage = "answered" => cut[c].stage = "answered"
             /\ cut[c].told = calls[c].told
      BY DEF TypeOK, Tidy, Call
    <2> HIDE DEF cut
    <2> QED
      BY <2>1, <2>2, <2>3 DEF Stays
  <1>2. ASSUME NEW c \in DOMAIN calls, Accept(c) PROVE Stays
    <2>1. calls[c] \in Call /\ calls[c].stage = "sent" /\ UNCHANGED <<book, sent>>
      BY <1>2 DEF Accept, TypeOK
    <2>2. calls' = [calls EXCEPT ![c].stage = "handling"]
      BY <1>2 DEF Accept
    <2> QED
      BY <2>1, <2>2 DEF Stays, Call
  <1>3. ASSUME NEW c \in DOMAIN calls, NEW verdict \in Verdicts, Tell(c, verdict) PROVE Stays
    <2>1. UNCHANGED <<book, sent>>
      BY <1>3 DEF Tell
    <2>2. verdict # None
      BY OutcomesAnswer DEF Verdicts, Answers, None
    <2> QED
      BY <1>3, <2>1, <2>2, TellKeeps DEF Stays
  <1>4. ASSUME NEW c \in DOMAIN calls, NEW r \in Replica, Handle(r, c) PROVE Handles
    <2> PICK outcome \in Possible(calls[c]) :
           /\ calls' = Kept([calls EXCEPT ![c].stage = "answered", ![c].answer = StatusOf(outcome)])
           /\ \/ /\ outcome \in {"recorded", "failed"} /\ book[calls[c].key] = Unrecorded
                 /\ book' = [book EXCEPT ![calls[c].key] =
                               [content |-> calls[c].content, by |-> c, entry |-> calls[c].entry]]
              \/ outcome # "recorded" /\ UNCHANGED book
      BY <1>4 DEF Handle
    <2> DEFINE done == [calls EXCEPT ![c].stage = "answered", ![c].answer = StatusOf(outcome)]
    <2>1. calls[c].stage = "handling" /\ sent' = sent
      BY <1>4 DEF Handle, Tidy
    <2>2. calls[c] \in Call
      BY DEF TypeOK
    <2>3. /\ DOMAIN done = DOMAIN calls
          /\ \A d \in DOMAIN calls : d # c => done[d] = calls[d]
          /\ done[c] = [calls[c] EXCEPT !.stage = "answered", !.answer = StatusOf(outcome)]
      OBVIOUS
    <2>4. /\ done[c].stage = "answered" /\ done[c].answer = StatusOf(outcome)
          /\ done[c].key = calls[c].key /\ done[c].content = calls[c].content
          /\ done[c].entry = calls[c].entry /\ done[c].told = calls[c].told
      BY <2>2, <2>3 DEF Call
    <2> HIDE DEF done
    <2>5. calls' = Kept(done)
      BY DEF done
    <2>6. DOMAIN calls' \subseteq DOMAIN done /\ \A d \in DOMAIN calls' : calls'[d] = done[d]
      BY <2>5 DEF Kept
    <2>7. /\ DOMAIN calls' \subseteq DOMAIN calls
          /\ \A d \in DOMAIN calls' :
                /\ calls'[d].key = calls[d].key /\ calls'[d].content = calls[d].content
                /\ calls'[d].entry = calls[d].entry /\ calls'[d].told = calls[d].told
                /\ d # c => calls'[d] = calls[d]
          /\ c \in DOMAIN calls' =>
                calls'[c].stage = "answered" /\ calls'[c].answer = StatusOf(outcome)
      BY <2>3, <2>4, <2>6
    <2> QED
      BY <2>1, <2>7 DEF Handles, Ends
  <1>5. CASE Post
    <2> PICK key \in Keys, content \in Posted : Send("cli", key, content, 0)
      BY <1>5 DEF Post
    <2>1. UNCHANGED book
      BY <1>5 DEF Post
    <2> QED
      BY <2>1, ClientConstants DEF Sends
  <1>6. CASE Submit
    <2>1. UNCHANGED book /\ form.open
      BY <1>6 DEF Submit
    <2>2. form.key \in Keys /\ form.content \in Contents /\ form.entry \in 0 .. MaxKeys
      BY <2>1 DEF Tidy, TypeOK, Form, Keys
    <2>3. CASE UNCHANGED <<sent, calls>>
      BY <2>1, <2>3 DEF Stays
    <2>4. CASE Send("form", form.key, form.content, form.entry)
      BY <2>1, <2>2, <2>4 DEF Sends
    <2> QED
      BY <1>6, <2>3, <2>4 DEF Submit
  <1>7. CASE UNCHANGED <<book, sent, calls>>
    BY <1>7 DEF Stays
  <1>8. \A c \in DOMAIN calls :
           Refuse(c) \/ Deliver(c) \/ LearnCut(c) \/ Lose(c) \/ GiveUp(c)
           => \E verdict \in Verdicts : Tell(c, verdict)
    <2> SUFFICES ASSUME NEW c \in DOMAIN calls,
                        Refuse(c) \/ Deliver(c) \/ LearnCut(c) \/ Lose(c) \/ GiveUp(c)
                 PROVE  \E verdict \in Verdicts : Tell(c, verdict)
      OBVIOUS
    <2>1. CASE Deliver(c)
      BY <2>1 DEF Deliver, Verdicts, TypeOK, Tidy, Call
    <2>2. CASE Refuse(c) \/ LearnCut(c) \/ Lose(c) \/ GiveUp(c)
      BY <2>2 DEF Refuse, LearnCut, Lose, GiveUp, Verdicts
    <2> QED
      BY <2>1, <2>2
  <1>9. Mount \/ Edit \/ Generate \/ Leave => UNCHANGED <<book, sent, calls>>
    BY DEF Mount, Edit, Generate, Leave
  <1> QED
    BY <1>1, <1>2, <1>3, <1>4, <1>5, <1>6, <1>7, <1>8, <1>9 DEF Next, Proceeds, clientVars, vars

\* An entry goes by its own key, in the form, in a call and in the book.
EntryIsItsKey ==
    /\ form.entry \in {0, form.key}
    /\ \A c \in DOMAIN calls : calls[c].entry \in {0, calls[c].key}
    /\ \A k \in Keys : book[k].entry \in {0, k}

\* The entry typed into the form stays the one its key was drawn for.
LEMMA FormKeepsItsEntry ==
    ASSUME TypeOK, Tidy, [Next]_vars, form.entry \in {0, form.key}
    PROVE  form'.entry \in {0, form'.key}
  <1>1. form \in Form
    BY DEF TypeOK
  <1>2. CASE form' = form
    BY <1>2
  <1>3. CASE Leaves
    BY <1>3 DEF Leaves, Closed
  <1>4. ASSUME NEW verdict, form' = Ended(verdict) PROVE form'.entry \in {0, form'.key}
    <2>1. form'.entry = form.entry /\ form'.key = form.key
      BY <1>1, <1>4 DEF Ended, Form
    <2> QED
      BY <2>1
  <1>5. CASE Mount \/ Generate
    <2>1. form'.entry = generated + 1 /\ form'.key = generated + 1
      BY <1>1, <1>5 DEF Mount, Generate, Form
    <2> QED
      BY <2>1
  <1>6. CASE Edit \/ Submit
    <2>1. form'.entry = form.entry /\ form'.key = form.key
      BY <1>1, <1>6 DEF Edit, Submit, Form
    <2> QED
      BY <2>1
  <1>7. ASSUME NEW c, NEW verdict, Tell(c, verdict) PROVE form'.entry \in {0, form'.key}
    BY <1>2, <1>3, <1>4, <1>7 DEF Tell, Show
  <1>8. ASSUME NEW c, Refuse(c) \/ Deliver(c) \/ LearnCut(c) \/ Lose(c) \/ GiveUp(c)
        PROVE  \E verdict : Tell(c, verdict)
    BY <1>8 DEF Refuse, Deliver, LearnCut, Lose, GiveUp
  <1>9. Post \/ (\E c : Accept(c)) \/ (\E r \in Replica : \E c : Handle(r, c))
          \/ (\E r \in Replica : DieWithCalls(r)) \/ UNCHANGED clientVars => form' = form
    BY DEF Post, Accept, Handle, DieWithCalls, clientVars
  <1>10. Leave => Leaves
    BY DEF Leave
  <1> QED
    BY <1>2, <1>3, <1>5, <1>6, <1>7, <1>8, <1>9, <1>10 DEF Next, Proceeds, vars

\* However often Record is pressed, whatever is lost and whoever dies, an entry of the
\* form is recorded under one key, and a key records once: for any number of calls,
\* keys and replicas.
THEOREM EntriesOnce == Spec => []EntryRecordedOnce
  <1>1. Init => EntryIsItsKey
    BY DEF Init, Closed, Unrecorded, EntryIsItsKey
  <1>2. TypeOK /\ Tidy /\ EntryIsItsKey /\ [Next]_vars => EntryIsItsKey'
    <2> SUFFICES ASSUME TypeOK, Tidy, EntryIsItsKey, [Next]_vars PROVE EntryIsItsKey'
      OBVIOUS
    <2>1. form'.entry \in {0, form'.key}
      BY FormKeepsItsEntry DEF EntryIsItsKey
    <2>2. CASE Stays
      BY <2>1, <2>2 DEF Stays, EntryIsItsKey
    <2>3. CASE Sends
      <3> PICK from \in {"cli", "form"}, key \in Keys, content \in Contents, entry \in 0 .. MaxKeys :
             /\ Send(from, key, content, entry)
             /\ entry = 0 \/ (entry = form.entry /\ key = form.key)
        BY <2>3 DEF Sends
      <3>1. Sent(from, key, content, entry)
        BY SendAdds
      <3>2. book' = book
        BY <2>3 DEF Sends
      <3>3. calls'[sent + 1].entry \in {0, calls'[sent + 1].key}
        BY <3>1 DEF Sent, EntryIsItsKey
      <3> QED
        BY <2>1, <3>1, <3>2, <3>3 DEF Sent, EntryIsItsKey
    <2>4. CASE Handles
      BY <2>1, <2>4 DEF Handles, Ends, EntryIsItsKey, TypeOK, Call
    <2> QED
      BY <2>2, <2>3, <2>4, StepKinds
  <1>3. EntryIsItsKey => EntryRecordedOnce
    BY DEF EntryIsItsKey, EntryRecordedOnce
  <1> QED
    BY <1>1, <1>2, <1>3, ClientTypes, PTL DEF Spec

----------------------------------------------------------------------------
\* What a key recorded came from a call that was answered, or is over; and every
\* answer is so.
BookedCallsAreAnswered ==
    /\ \A k \in Keys : book[k].by \in 0 .. sent
    /\ \A c \in DOMAIN calls : \A k \in Keys :
          book[k].by = c => calls[c].stage = "answered"
    /\ AnswersAreTrue

\* A status a client may rely on is given for no other outcome than its own: none
\* of a recording or of a failure that may have recorded.
LEMMA WhatIsDefinite ==
    \A outcome \in Outcomes :
        /\ StatusOf(outcome) = "recorded" => outcome = "recorded"
        /\ StatusOf(outcome) = "replayed" => outcome = "replayed"
        /\ StatusOf(outcome) = "AlreadyExists" => outcome = "reused"
        /\ StatusOf(outcome) \in Definite => outcome \notin {"recorded", "failed"}
  BY ClientConstants DEF Outcomes, StatusOf, Definite

\* Whatever a client is told is so, and stays so, for any number of calls, keys and
\* replicas: in particular "try again" and every refusal left nothing behind.
THEOREM AnswersHold == Spec => []AnswersAreTrue
  <1>1. Init => BookedCallsAreAnswered
    BY DEF Init, Unrecorded, BookedCallsAreAnswered, AnswersAreTrue, AnswerIsTrue
  <1>2. TypeOK /\ Tidy /\ TypeOK' /\ BookedCallsAreAnswered /\ [Next]_vars => BookedCallsAreAnswered'
    <2> SUFFICES ASSUME TypeOK, Tidy, TypeOK', BookedCallsAreAnswered, [Next]_vars
                 PROVE  BookedCallsAreAnswered'
      OBVIOUS
    <2>1. CASE Stays
      <3>1. \A c \in DOMAIN calls' : calls'[c].key \in Keys
        BY DEF TypeOK, Call
      <3> QED
        BY <2>1, <3>1 DEF Stays, BookedCallsAreAnswered, AnswersAreTrue, AnswerIsTrue
    <2>2. CASE Sends
      <3> PICK from \in {"cli", "form"}, key \in Keys, content \in Contents, entry \in 0 .. MaxKeys :
             Send(from, key, content, entry)
        BY <2>2 DEF Sends
      <3>1. Sent(from, key, content, entry)
        BY SendAdds
      <3>2. book' = book /\ sent' = sent + 1 /\ sent \in Nat
        BY <2>2 DEF Sends, Send, TypeOK
      <3>3. \A k \in Keys : book'[k].by \in 0 .. sent' /\ book'[k].by # sent + 1
        BY <3>2 DEF BookedCallsAreAnswered
      <3>4. calls'[sent + 1].answer = None
        BY <3>1 DEF Sent
      <3>5. None \notin {"recorded", "replayed"} \cup Definite
        BY DEF None, Definite
      <3>6. AnswersAreTrue'
        BY <3>1, <3>2, <3>4, <3>5 DEF Sent, AnswersAreTrue, AnswerIsTrue, BookedCallsAreAnswered, Definite
      <3> QED
        BY <3>1, <3>2, <3>3, <3>6 DEF Sent, BookedCallsAreAnswered
    <2>3. CASE Handles
      <3> PICK c \in DOMAIN calls : \E outcome \in Possible(calls[c]) : Ends(c, outcome)
        BY <2>3 DEF Handles
      <3> PICK outcome \in Possible(calls[c]) : Ends(c, outcome)
        OBVIOUS
      <3> USE DEF Ends
      <3> DEFINE records == /\ outcome \in {"recorded", "failed"} /\ book[calls[c].key] = Unrecorded
                            /\ book' = [book EXCEPT ![calls[c].key] =
                                 [content |-> calls[c].content, by |-> c, entry |-> calls[c].entry]]
      <3>1. /\ \A d \in DOMAIN calls : calls[d].key \in Keys /\ calls[d].content \in Contents
            /\ c \in 1 .. sent /\ sent \in Nat
            /\ outcome \in Outcomes
        BY PossibleOutcomes DEF TypeOK, Call
      <3>2. \A k \in Keys :
               \/ book'[k] = book[k]
               \/ /\ records /\ k = calls[c].key /\ book[k] = Unrecorded
                  /\ book'[k] = [content |-> calls[c].content, by |-> c, entry |-> calls[c].entry]
        BY <3>1 DEF TypeOK
      <3>3. \A k \in Keys : book[k].by # c
        BY DEF BookedCallsAreAnswered
      <3>4. \A k \in Keys : book'[k].by \in 0 .. sent'
        BY <3>1, <3>2 DEF BookedCallsAreAnswered
      <3>5. \A d \in DOMAIN calls' : \A k \in Keys : book'[k].by = d => calls'[d].stage = "answered"
        BY <3>1, <3>2 DEF BookedCallsAreAnswered
      <3>6. ASSUME NEW d \in DOMAIN calls', d # c PROVE AnswerIsTrue(d)'
        <4>1. calls'[d] = calls[d] /\ d \in DOMAIN calls /\ calls[d].key \in Keys
          BY <3>1, <3>6
        <4>2. /\ calls[d].answer = "recorded" => book[calls[d].key].by = d
              /\ calls[d].answer \in {"recorded", "replayed"} => book[calls[d].key].content = calls[d].content
              /\ calls[d].answer = "AlreadyExists" => book[calls[d].key].content \notin {None, calls[d].content}
              /\ calls[d].answer \in Definite => book[calls[d].key].by # d
          BY <4>1 DEF BookedCallsAreAnswered, AnswersAreTrue, AnswerIsTrue
        <4>3. CASE book'[calls[d].key] = book[calls[d].key]
          BY <4>1, <4>2, <4>3 DEF AnswerIsTrue
        <4>4. CASE book[calls[d].key] = Unrecorded /\ book'[calls[d].key].by = c
          <5>1. calls[d].answer \notin {"recorded", "replayed", "AlreadyExists"}
            BY <3>1, <4>1, <4>2, <4>4, ClientConstants DEF Unrecorded
          <5> QED
            BY <3>6, <4>1, <4>4, <5>1 DEF AnswerIsTrue, Definite
        <4> QED
          BY <3>2, <4>1, <4>3, <4>4
      <3>7. ASSUME c \in DOMAIN calls' PROVE AnswerIsTrue(c)'
        <4>1. /\ calls'[c].answer = StatusOf(outcome)
              /\ calls'[c].key = calls[c].key /\ calls'[c].content = calls[c].content
              /\ calls[c].key \in Keys
          BY <3>1, <3>7
        <4>2. outcome = "recorded" => /\ book'[calls[c].key].by = c
                                      /\ book'[calls[c].key].content = calls[c].content
          BY <3>1 DEF TypeOK
        <4>3. outcome \in {"replayed", "reused"} =>
                 /\ book' = book
                 /\ outcome = "replayed" => book[calls[c].key].content = calls[c].content
                 /\ outcome = "reused" => book[calls[c].key].content \notin {None, calls[c].content}
          <5>1. outcome \in {"replayed", "reused"} =>
                   book[calls[c].key] # Unrecorded /\ book' = book
            BY ClientConstants DEF Possible
          <5>2. outcome = "replayed" => book[calls[c].key].content = calls[c].content
            BY ClientConstants DEF Possible
          <5>3. outcome = "reused" => book[calls[c].key].content # calls[c].content
            BY ClientConstants DEF Possible
          <5>4. book[calls[c].key] # Unrecorded => book[calls[c].key].content # None
            BY <3>1, ClientConstants DEF TypeOK
          <5> QED
            BY <5>1, <5>2, <5>3, <5>4
        <4>4. outcome \notin {"recorded", "failed"} => book'[calls[c].key].by # c
          BY <3>1, <3>3
        <4> QED
          BY <3>1, <4>1, <4>2, <4>3, <4>4, WhatIsDefinite DEF AnswerIsTrue
      <3>8. AnswersAreTrue'
        BY <3>6, <3>7 DEF AnswersAreTrue
      <3> QED
        BY <3>4, <3>5, <3>8 DEF BookedCallsAreAnswered
    <2> QED
      BY <2>1, <2>2, <2>3, StepKinds
  <1>3. BookedCallsAreAnswered => AnswersAreTrue
    BY DEF BookedCallsAreAnswered
  <1> QED
    BY <1>1, <1>2, <1>3, ClientTypes, PTL DEF Spec

----------------------------------------------------------------------------
\* The banner and the call the form waits for agree with what was last asked.
BannerInv ==
    /\ form.asked \in 0 .. sent
    /\ form.asked \in DOMAIN calls =>
          form.last = [key |-> calls[form.asked].key, content |-> calls[form.asked].content]
    /\ form.banner =>
          /\ ~form.submitting
          /\ form.last \in [key : Keys, content : Contents]
          /\ book[form.last.key].content = form.last.content
          /\ form.asked \in DOMAIN calls => calls[form.asked].told # None

\* What is recorded stays, and so does what was asked and told of a call that is still out.
LEMMA PastStays ==
    ASSUME TypeOK, Tidy, [Next]_vars
    PROVE  /\ \A k \in Keys : book[k].content # None => book'[k] = book[k]
           /\ 0 .. sent \subseteq 0 .. sent'
           /\ \A c \in DOMAIN calls' \cap 0 .. sent :
                 /\ c \in DOMAIN calls
                 /\ calls'[c].key = calls[c].key /\ calls'[c].content = calls[c].content
                 /\ calls[c].told # None => calls'[c].told # None
  <1>1. sent \in Nat /\ \A c \in DOMAIN calls : calls[c] \in Call
    BY DEF TypeOK
  <1>2. CASE Stays
    BY <1>1, <1>2 DEF Stays
  <1>3. CASE Sends
    <2> PICK from \in {"cli", "form"}, key \in Keys, content \in Contents, entry \in 0 .. MaxKeys :
           Send(from, key, content, entry)
      BY <1>3 DEF Sends
    <2>1. Sent(from, key, content, entry) /\ sent' = sent + 1 /\ book' = book
      BY <1>3, SendAdds DEF Sends, Send
    <2> QED
      BY <1>1, <2>1 DEF Sent
  <1>4. CASE Handles
    <2> PICK c \in DOMAIN calls : \E outcome \in Possible(calls[c]) : Ends(c, outcome)
      BY <1>4 DEF Handles
    <2> PICK outcome \in Possible(calls[c]) : Ends(c, outcome)
      OBVIOUS
    <2>1. \A k \in Keys : book[k].content # None => book'[k] = book[k]
      BY DEF Ends, TypeOK, Unrecorded
    <2> QED
      BY <1>1, <2>1 DEF Ends
  <1> QED
    BY <1>2, <1>3, <1>4, StepKinds

\* A replay's banner speaks of the form's last submission and of what really is
\* recorded, for any number of calls, keys and replicas.
THEOREM BannersAreTrue == Spec => []BannerIsTheLastSubmission
  <1> USE ClientConstants
  <1>1. Init => BannerInv
    BY DEF Init, Closed, BannerInv
  <1>2. TypeOK /\ Tidy /\ TypeOK' /\ AnswersAreTrue /\ BannerInv /\ [Next]_vars => BannerInv'
    <2> SUFFICES ASSUME TypeOK, Tidy, TypeOK', AnswersAreTrue, BannerInv, [Next]_vars
                 PROVE  BannerInv'
      OBVIOUS
    <2>1. form \in Form /\ sent \in Nat /\ 0 \notin DOMAIN calls' /\ 0 \in 0 .. sent'
      BY DEF TypeOK
    <2>2. ASSUME /\ form'.asked = form.asked /\ form'.last = form.last
                 /\ form'.banner = form.banner /\ form'.submitting = form.submitting
          PROVE  BannerInv'
      <3>1. form.banner => book'[form.last.key] = book[form.last.key]
        BY PastStays DEF BannerInv
      <3> QED
        BY <2>2, <3>1, PastStays DEF BannerInv
    <2>3. ASSUME form'.asked = 0, ~form'.banner PROVE BannerInv'
      BY <2>1, <2>3 DEF BannerInv
    <2>4. CASE form' = form
      BY <2>2, <2>4
    <2>5. CASE Leaves
      <3>1. form'.asked = 0 /\ form'.banner = FALSE
        BY <2>5 DEF Leaves, Closed
      <3> QED
        BY <2>3, <3>1
    <2>6. CASE Mount \/ Edit \/ Generate
      <3>1. /\ form'.asked = form.asked /\ form'.last = form.last
            /\ form'.banner = form.banner /\ form'.submitting = form.submitting
        BY <2>1, <2>6 DEF Mount, Edit, Generate, Form
      <3> QED
        BY <2>2, <3>1
    <2>7. CASE Submit
      <3>1. CASE form' = [form EXCEPT !.banner = FALSE, !.asked = 0, !.last = Nothing]
        <4>1. form'.asked = 0 /\ form'.banner = FALSE
          BY <2>1, <3>1 DEF Form
        <4> QED
          BY <2>3, <4>1
      <3>2. CASE /\ form.open
                 /\ Send("form", form.key, form.content, form.entry)
                 /\ form' = [form EXCEPT !.banner = FALSE, !.submitting = TRUE, !.asked = sent + 1,
                                         !.last = Pressed]
        <4>1. form.key \in Keys /\ form.content \in Contents /\ form.entry \in 0 .. MaxKeys
          BY <2>1, <3>2 DEF Tidy, Form, Keys
        <4>2. Sent("form", form.key, form.content, form.entry) /\ sent' = sent + 1
          BY <3>2, <4>1, SendAdds DEF Send
        <4>3. form'.asked = sent + 1 /\ form'.banner = FALSE /\ form'.last = Pressed
          BY <2>1, <3>2 DEF Form
        <4>4. sent + 1 \in 0 .. sent'
          BY <2>1, <4>2
        <4> QED
          BY <4>2, <4>3, <4>4 DEF BannerInv, Sent, Pressed
      <3> QED
        BY <2>7, <3>1, <3>2 DEF Submit
    <2>8. ASSUME NEW c \in DOMAIN calls, NEW verdict, Tell(c, verdict),
                 verdict = "replayed" => AnswerIsTrue(c) /\ calls[c].answer = "replayed"
          PROVE  BannerInv'
      <3>1. CASE form.asked = c /\ form' = Ended(verdict) /\ verdict # "replayed"
        <4>1. form'.asked = 0 /\ form'.banner = form.banner
          BY <2>1, <3>1 DEF Ended, Form
        <4>2. ~form.banner
          BY <2>8, <3>1 DEF BannerInv, Tell
        <4> QED
          BY <2>3, <4>1, <4>2
      <3>2. CASE form.asked = c /\ form' = Ended(verdict) /\ verdict = "replayed"
        <4>1. /\ form'.asked = c /\ form'.last = form.last
              /\ form'.banner = TRUE /\ form'.submitting = FALSE
          BY <2>1, <3>2 DEF Ended, Form
        <4>2. calls[c] \in Call
          BY DEF TypeOK
        <4>3. form.last = [key |-> calls[c].key, content |-> calls[c].content]
          BY <3>2 DEF BannerInv
        <4>4. form.last \in [key : Keys, content : Contents]
          BY <4>2, <4>3 DEF Call
        <4>5. book[form.last.key].content = form.last.content
          BY <2>8, <3>2, <4>3 DEF AnswerIsTrue
        <4>6. book' = book /\ sent' = sent
          BY <2>8 DEF Tell
        <4>7. verdict \in Verdicts /\ None # "replayed"
          BY <2>8, <3>2, <4>2 DEF Verdicts, Call, None
        <4>8. c \in DOMAIN calls' => calls'[c].told = "replayed" /\ calls'[c].key = calls[c].key
                                     /\ calls'[c].content = calls[c].content
          BY <2>8, <3>2, <4>7, TellKeeps
        <4> QED
          BY <3>2, <4>1, <4>3, <4>4, <4>5, <4>6, <4>7, <4>8 DEF BannerInv
      <3> QED
        BY <2>4, <2>5, <2>8, <3>1, <3>2 DEF Tell, Show
    <2>9. ASSUME NEW c \in DOMAIN calls,
                 Refuse(c) \/ Deliver(c) \/ LearnCut(c) \/ Lose(c) \/ GiveUp(c)
          PROVE  BannerInv'
      <3>1. AnswerIsTrue(c)
        BY DEF AnswersAreTrue
      <3>2. CASE Deliver(c)
        BY <2>8, <3>1, <3>2 DEF Deliver
      <3>3. CASE Refuse(c) \/ LearnCut(c) \/ Lose(c)
        <4>1. Tell(c, "Unavailable")
          BY <3>3 DEF Refuse, LearnCut, Lose
        <4> QED
          BY <2>8, <4>1
      <3>4. CASE GiveUp(c)
        <4>1. Tell(c, "DeadlineExceeded")
          BY <3>4 DEF GiveUp
        <4> QED
          BY <2>8, <4>1
      <3> QED
        BY <2>9, <3>2, <3>3, <3>4
    <2>10. Post \/ (\E c : Accept(c)) \/ (\E r \in Replica : \E c : Handle(r, c))
              \/ (\E r \in Replica : DieWithCalls(r)) \/ UNCHANGED clientVars => form' = form
      BY DEF Post, Accept, Handle, DieWithCalls, clientVars
    <2> QED
      BY <2>4, <2>5, <2>6, <2>7, <2>9, <2>10 DEF Next, Proceeds, Leave, vars
  <1>3. BannerInv => BannerIsTheLastSubmission
    BY DEF BannerInv, BannerIsTheLastSubmission, Nothing, Keys
  <1> QED
    BY <1>1, <1>2, <1>3, ClientTypes, AnswersHold, PTL DEF Spec

----------------------------------------------------------------------------
\* What becomes of an amount, for every size of a unit and of the range, where a run
\* has small ones.

\* A positive multiple is no smaller.
LEMMA Larger ==
    ASSUME NEW d \in Nat \ {0}, NEW k \in Int, k >= 1
    PROVE  d * k >= d
  OBVIOUS

\* What the quotient and the remainder are.
LEMMA DivMod ==
    ASSUME NEW d \in Nat \ {0}, NEW n \in Int
    PROVE  /\ n \div d \in Int /\ (n % d) \in Int
           /\ 0 <= (n % d) /\ (n % d) < d
           /\ n = d * (n \div d) + (n % d)
  OBVIOUS

\* A number has one quotient with a remainder below the divisor.
LEMMA Division ==
    ASSUME NEW d \in Nat \ {0}, NEW q \in Int, NEW r \in Nat, r < d
    PROVE  (q * d + r) \div d = q
  <1>1. PICK n \in Int : n = q * d + r
    OBVIOUS
  <1>2. PICK k \in Int, m \in Int : k = n \div d /\ m = (n % d) /\ 0 <= m /\ m < d /\ n = d * k + m
    BY DivMod
  <1>3. d * (k - q) = r - m
    BY <1>1, <1>2
  <1>4. ~(k - q >= 1)
    BY <1>2, <1>3, Larger
  <1>5. ~(q - k >= 1)
    <2>1. d * (q - k) = m - r
      BY <1>1, <1>2
    <2> QED
      BY <1>2, <2>1, Larger
  <1> QED
    BY <1>1, <1>2, <1>4, <1>5

\* A quotient that drops the fraction leaves one of the number's own sign.
LEMMA TruncatedSplits ==
    ASSUME NEW d \in Nat \ {0}, NEW n \in Int
    PROVE  \E t, r \in Int :
              /\ t = Truncated(n, d) /\ r = n - t * d
              /\ -d < r /\ r < d
              /\ ~(t > 0 /\ r < 0) /\ ~(t < 0 /\ r > 0)
  <1>1. CASE n >= 0
    <2>1. PICK k \in Int, m \in Int : k = n \div d /\ m = (n % d) /\ 0 <= m /\ m < d /\ n = d * k + m
      BY DivMod
    <2>2. Truncated(n, d) = k /\ m = n - k * d
      BY <1>1, <2>1 DEF Truncated
    <2>3. ~(k < 0)
      <3>1. k < 0 => d * (-k) >= d
        BY Larger
      <3> QED
        BY <1>1, <2>1, <3>1
    <2>4. -d < m /\ m < d /\ ~(k > 0 /\ m < 0) /\ ~(k < 0 /\ m > 0)
      BY <2>1, <2>3
    <2> QED
      BY <2>2, <2>4
  <1>2. CASE ~(n >= 0)
    <2>1. PICK k \in Int, m \in Int :
            k = (-n) \div d /\ m = ((-n) % d) /\ 0 <= m /\ m < d /\ -n = d * k + m
      BY DivMod
    <2>2. PICK t \in Int, r \in Int : t = -k /\ r = -m
      OBVIOUS
    <2>3. t = Truncated(n, d)
      BY <1>2, <2>1, <2>2 DEF Truncated
    <2>4. r = n - t * d
      BY <2>1, <2>2
    <2>5. ~(t > 0)
      <3>1. k < 0 => d * (-k) >= d
        BY <2>1, Larger
      <3> QED
        BY <1>2, <2>1, <2>2, <3>1
    <2>6. -d < r /\ r < d /\ ~(r > 0)
      BY <2>1, <2>2
    <2> QED
      BY <2>3, <2>4, <2>5, <2>6
  <1> QED
    BY <1>1, <1>2

\* A unit's count and a fraction of the same sign come back as they were put together.
LEMMA TruncatedJoins ==
    ASSUME NEW d \in Nat \ {0}, NEW u \in Int, NEW r \in Int, -d < r, r < d,
           ~(u > 0 /\ r < 0), ~(u < 0 /\ r > 0)
    PROVE  Truncated(u * d + r, d) = u
  <1>1. PICK n \in Int : n = u * d + r
    OBVIOUS
  <1>2. CASE u >= 0 /\ r >= 0
    <2>1. u * d >= 0
      BY <1>2
    <2>2. n >= 0
      BY <1>1, <1>2, <2>1
    <2>3. n \div d = u
      BY <1>1, <1>2, Division
    <2> QED
      BY <1>1, <2>2, <2>3 DEF Truncated
  <1>3. CASE u <= 0 /\ r <= 0
    <2>1. -n = (-u) * d + (-r)
      BY <1>1
    <2>2. (-n) \div d = -u
      BY <1>3, <2>1, Division
    <2>3. CASE n >= 0
      <3>1. (-u) * d >= 0
        BY <1>3
      <3>2. n = 0 /\ r = 0 /\ u * d = 0
        BY <1>1, <1>3, <2>1, <2>3, <3>1
      <3>3. n \div d = u
        BY <1>1, <3>2, Division
      <3> QED
        BY <1>1, <2>3, <3>3 DEF Truncated
    <2> QED
      BY <1>1, <2>2, <2>3 DEF Truncated
  <1> QED
    BY <1>2, <1>3

\* What FromDecimal makes of an amount in range is well formed and is that amount.
LEMMA ReportedIsWellFormed ==
    ASSUME NEW decimal \in Int, ~OutOfRange(decimal)
    PROVE  /\ FromDecimal(decimal, "USD") \in WellFormed
           /\ ToDecimal(FromDecimal(decimal, "USD")) = decimal
  <1> USE WireConstants, CommandLineConstants
  <1> DEFINE t == Truncated(decimal, NanosPerUnit)
             r == decimal - t * NanosPerUnit
             money == FromDecimal(decimal, "USD")
  <1>1. money = [currency |-> "USD", units |-> t, nanos |-> r]
    BY DEF FromDecimal
  <1>2. /\ t \in Int /\ r \in Int /\ -NanosPerUnit < r /\ r < NanosPerUnit
        /\ ~(t > 0 /\ r < 0) /\ ~(t < 0 /\ r > 0)
    BY TruncatedSplits
  <1>3. -(MaxUnits + 1) <= t /\ t <= MaxUnits
    BY DEF OutOfRange, Int64
  <1> HIDE DEF t, r, money
  <1>4. money \in Amounts
    BY <1>1, <1>2, <1>3 DEF Amounts
  <1>5. ~Malformed(money)
    BY <1>1, <1>2, <1>4 DEF Malformed
  <1>6. ToDecimal(money) = decimal
    BY <1>1, <1>2 DEF ToDecimal, r
  <1> QED
    BY <1>4, <1>5, <1>6 DEF WellFormed, money

\* An amount that is let through is in range and comes back as itself.
LEMMA WellFormedIsReported ==
    ASSUME NEW currencies,
           NEW money \in [currency : currencies, units : -(MaxUnits + 1) .. MaxUnits, nanos : Int],
           ~Malformed(money)
    PROVE  /\ ToDecimal(money) \in Int /\ ~OutOfRange(ToDecimal(money))
           /\ FromDecimal(ToDecimal(money), money.currency) = money
  <1> USE WireConstants
  <1>1. ~Malformed(money)
    OBVIOUS
  <1>2. PICK currency \in currencies, u \in Int, n \in Int :
          /\ money = [currency |-> currency, units |-> u, nanos |-> n]
          /\ -(MaxUnits + 1) <= u /\ u <= MaxUnits
    OBVIOUS
  <1>3. money.currency = currency /\ money.units = u /\ money.nanos = n
    BY <1>2
  <1>4. ~(n < -(NanosPerUnit - 1)) /\ ~(n > NanosPerUnit - 1) /\ ~(u > 0 /\ n < 0) /\ ~(u < 0 /\ n > 0)
    BY <1>1, <1>3 DEF Malformed
  <1>5. -NanosPerUnit < n /\ n < NanosPerUnit
    BY <1>2, <1>4
  <1>6. Truncated(u * NanosPerUnit + n, NanosPerUnit) = u
    BY <1>2, <1>4, <1>5, TruncatedJoins
  <1>7. ToDecimal(money) = u * NanosPerUnit + n
    BY <1>3 DEF ToDecimal
  <1>8. ToDecimal(money) \in Int /\ ToDecimal(money) - u * NanosPerUnit = n
    BY <1>2, <1>7
  <1>9. ~OutOfRange(ToDecimal(money))
    BY <1>2, <1>6, <1>7 DEF OutOfRange, Int64
  <1> QED
    BY <1>2, <1>3, <1>6, <1>7, <1>8, <1>9 DEF FromDecimal

\* No amount is rounded, wrapped or refused without cause on its way between the wire,
\* the tables and the command line, whatever a unit divides into, however
\* large the range and however many digits an operator types.
LEMMA EveryAmount == EveryAmountSurvives
  <1> USE WireConstants, CommandLineConstants
  <1>1. \A money \in WellFormed : /\ FromDecimal(ToDecimal(money), money.currency) = money
                                   /\ ~OutOfRange(ToDecimal(money))
    <2> SUFFICES ASSUME NEW money \in WellFormed
                 PROVE  /\ FromDecimal(ToDecimal(money), money.currency) = money
                        /\ ~OutOfRange(ToDecimal(money))
      OBVIOUS
    <2> DEFINE currencies == {"USD"}
    <2>1. /\ ~Malformed(money)
          /\ money \in [currency : currencies, units : -(MaxUnits + 1) .. MaxUnits, nanos : Int]
      BY DEF WellFormed, Amounts
    <2> HIDE DEF currencies
    <2> QED
      BY <2>1, WellFormedIsReported
  <1>2. ASSUME NEW decimal \in Int
        PROVE  /\ OutOfRange(decimal) <=> decimal \notin {ToDecimal(money) : money \in WellFormed}
               /\ ~OutOfRange(decimal) => Printed(FromDecimal(decimal, "USD")) = decimal
    <2>1. OutOfRange(decimal) => decimal \notin {ToDecimal(money) : money \in WellFormed}
      BY <1>1
    <2>2. ~OutOfRange(decimal) => decimal \in {ToDecimal(money) : money \in WellFormed}
      BY ReportedIsWellFormed
    <2>3. ~OutOfRange(decimal) => Printed(FromDecimal(decimal, "USD")) = decimal
      BY ReportedIsWellFormed DEF Printed, WellFormed
    <2> QED
      BY <2>1, <2>2, <2>3
  <1>3. ASSUME NEW typed \in Int,
               NEW argument,
               argument = [account |-> <<"Assets", "", "cash">>, amount |-> typed, currency |-> "USD"],
               ~PostingArgumentRefused(argument)
        PROVE  Printed(PostingInput(argument).amount) * Finer = typed
    <2>1. argument.amount = typed /\ argument.currency = "USD"
      BY <1>3
    <2>2. (typed % Finer) = 0 /\ ~OutOfRange(Truncated(typed, Finer))
      BY <1>3, <2>1 DEF PostingArgumentRefused
    <2>3. Truncated(typed, Finer) \in Int /\ Truncated(typed, Finer) * Finer = typed
      <3>1. PICK k \in Int : typed = k * Finer
        <4>1. typed = Finer * (typed \div Finer) + (typed % Finer) /\ typed \div Finer \in Int
          BY DivMod
        <4> QED
          BY <2>2, <4>1
      <3>2. PICK r \in Int : r = 0 /\ -Finer < r /\ r < Finer
        OBVIOUS
      <3>3. Truncated(k * Finer + r, Finer) = k
        <4>1. ~(k > 0 /\ r < 0) /\ ~(k < 0 /\ r > 0)
          BY <3>2
        <4> QED
          BY <3>2, <4>1, TruncatedJoins
      <3>4. k * Finer + r = typed
        BY <3>1, <3>2
      <3> QED
        BY <3>1, <3>3, <3>4
    <2>4. Printed(FromDecimal(Truncated(typed, Finer), "USD")) = Truncated(typed, Finer)
      BY <1>2, <2>2, <2>3
    <2> QED
      BY <2>1, <2>3, <2>4 DEF PostingInput
  <1>4. /\ -(MaxUnits + 3) * NanosPerUnit .. (MaxUnits + 3) * NanosPerUnit \subseteq Int
        /\ -(MaxUnits + 3) * NanosPerUnit * Finer .. (MaxUnits + 3) * NanosPerUnit * Finer \subseteq Int
    OBVIOUS
  <1> QED
    BY <1>1, <1>2, <1>3, <1>4 DEF EveryAmountSurvives

\* So a run with units and a range of any size finds every amount as it was.
THEOREM AmountsAlwaysSurvive == Spec => []AmountsSurvive
  <1>1. AmountsSurvive
    BY EveryAmount DEF AmountsSurvive
  <1> QED
    BY <1>1, PTL

----------------------------------------------------------------------------
\* A name the ledger stores for an account type is the name of that type.
LEMMA StoredTypeIsKnown ==
    ASSUME NEW type, RecordableType(type)
    PROVE  LET name == AccountTypeToString(type)
           IN  StringToAccountType(name) # 0 /\ AccountTypeToString(StringToAccountType(name)) = name
  <1>1. type \in DOMAIN TypeNames /\ type # 0 /\ UpperCased[TypeNames[type]] = TypeNames[type]
    BY WireConstants DEF RecordableType
  <1>2. AccountTypeToString(type) = TypeNames[type]
    BY <1>1 DEF AccountTypeToString
  <1> DEFINE found == CHOOSE t \in DOMAIN TypeNames : TypeNames[t] = UpperCased[TypeNames[type]]
  <1>3. found \in DOMAIN TypeNames /\ TypeNames[found] = TypeNames[type]
    BY <1>1
  <1>4. StringToAccountType(TypeNames[type]) = found
    BY <1>1 DEF StringToAccountType
  <1> HIDE DEF found
  <1>5. found # 0 /\ AccountTypeToString(found) = TypeNames[found]
    BY <1>3, WireConstants DEF AccountTypeToString
  <1> QED
    BY <1>2, <1>3, <1>4, <1>5

\* What one posting of a request that is let through becomes.
LEMMA PostingIsSettled ==
    ASSUME NEW posting \in PostingInputMessage, ~PostingRefused(posting)
    PROVE  LET stored == StoredPosting(posting)
           IN  /\ stored.amount \in Int /\ stored.amount # 0 /\ ~OutOfRange(stored.amount)
               /\ stored.currency = UpperCased[posting.amount.currency]
               /\ stored.currency = UpperCased[stored.currency]
               /\ stored.account = StoredAccount(posting.account)
               /\ AccountTypeToString(StringToAccountType(stored.account.type)) = stored.account.type
               /\ StringToAccountType(stored.account.type) # 0
               /\ FromDecimal(ToDecimal(posting.amount), posting.amount.currency) = posting.amount
  <1> DEFINE amount == posting.amount
             currencies == DOMAIN UpperCased
  <1>1. /\ ~Malformed(amount) /\ amount # Absent /\ ToDecimal(amount) # 0
        /\ RecordableType(posting.account.type)
    BY DEF PostingRefused, Malformed
  <1>2. amount \in [currency : currencies, units : -(MaxUnits + 1) .. MaxUnits, nanos : Int]
    BY <1>1 DEF PostingInputMessage, MoneyMessage
  <1>3. amount.currency \in DOMAIN UpperCased
    BY <1>2
  <1>4. UpperCased[UpperCased[amount.currency]] = UpperCased[amount.currency]
    BY <1>3, WireConstants
  <1>5. ToDecimal(amount) \in Int /\ ~OutOfRange(ToDecimal(amount)) /\ FromDecimal(ToDecimal(amount), amount.currency) = amount
    <2> HIDE DEF currencies, amount
    <2> QED
      BY <1>1, <1>2, WellFormedIsReported
  <1>6. /\ StoredPosting(posting).amount = ToDecimal(amount)
        /\ StoredPosting(posting).currency = UpperCased[amount.currency]
        /\ StoredPosting(posting).account = StoredAccount(posting.account)
        /\ StoredAccount(posting.account).type = AccountTypeToString(posting.account.type)
    BY DEF StoredPosting, StoredAccount
  <1>7. LET name == AccountTypeToString(posting.account.type)
        IN  StringToAccountType(name) # 0 /\ AccountTypeToString(StringToAccountType(name)) = name
    BY <1>1, StoredTypeIsKnown
  <1> QED
    BY <1>1, <1>4, <1>5, <1>6, <1>7

\* The amounts of a draft add up to what the request's did.
LEMMA SumsAreKept ==
    ASSUME NEW request, request.postings \in Seq(PostingInputMessage),
           \A i \in DOMAIN request.postings : ~PostingRefused(request.postings[i])
    PROVE  FoldLeft(LAMBDA sum, posting : sum + posting.amount, 0, DraftFromRequest(request).postings)
              = Sum(request.postings)
  <1> DEFINE q == request.postings
             p == DraftFromRequest(request).postings
             N == Len(q)
             f == [i \in 1 .. N |-> ToDecimal(q[i].amount)]
  <1>1. N \in Nat /\ DOMAIN q = 1 .. N /\ \A i \in 1 .. N : q[i] \in PostingInputMessage
    OBVIOUS
  <1>2. DOMAIN p = 1 .. N /\ \A i \in 1 .. N : p[i].amount = ToDecimal(q[i].amount)
    BY <1>1 DEF DraftFromRequest, StoredPosting
  <1>3. \A i \in 1 .. N : ToDecimal(q[i].amount) \in Int
    <2> SUFFICES ASSUME NEW i \in 1 .. N PROVE ToDecimal(q[i].amount) \in Int
      OBVIOUS
    <2>1. q[i] \in PostingInputMessage /\ ~PostingRefused(q[i])
      BY <1>1
    <2>2. StoredPosting(q[i]).amount \in Int
      BY <2>1, PostingIsSettled
    <2> QED
      BY <2>2 DEF StoredPosting
  <1> HIDE DEF p, q, N
  <1>4. f \in [1 .. N -> Int] /\ DOMAIN f = 1 .. N
    BY <1>3
  <1>5. \A i \in 1 .. N : f[i] = ToDecimal(q[i].amount) /\ f[i] = p[i].amount
    BY <1>2
  <1> HIDE DEF f
  <1>6. \A s \in SUBSET (1 .. N) : s # {} => Max(s) \in 1 .. N
    BY <1>1, MaxFacts
  <1> DEFINE Stored(u) == [s \in SUBSET DOMAIN p |-> IF s = {} THEN 0 ELSE u[s \ {Max(s)}] + p[Max(s)].amount]
             Given(u) == [s \in SUBSET DOMAIN q |->
                            IF s = {} THEN 0 ELSE u[s \ {Max(s)}] + ToDecimal(q[Max(s)].amount)]
             Added(u) == [s \in SUBSET DOMAIN f |-> IF s = {} THEN 0 ELSE u[s \ {Max(s)}] + f[Max(s)]]
  <1>7. \A u : Stored(u) = Added(u)
    BY <1>2, <1>4, <1>5, <1>6
  <1>8. \A u : Given(u) = Added(u)
    BY <1>1, <1>4, <1>5, <1>6
  <1>9. FoldLeft(LAMBDA sum, posting : sum + posting.amount, 0, p) = (CHOOSE u : u = Stored(u))[1 .. N]
    BY <1>2 DEF FoldLeft, MapThenFoldSet
  <1>10. Sum(q) = (CHOOSE u : u = Given(u))[1 .. N]
    BY <1>1 DEF Sum, FoldLeft, MapThenFoldSet
  <1>11. PICK tallies : tallies = Added(tallies)
    BY <1>1, <1>4, TalliesExist DEF AreTallies
  <1>12. \A u : u = Added(u) => u[1 .. N] = Tally(f, N)
    BY <1>1, <1>4, TallyFacts DEF AreTallies
  <1> HIDE DEF Stored, Given, Added
  <1>13. (CHOOSE u : u = Stored(u)) = Added(CHOOSE u : u = Stored(u))
    BY <1>7, <1>11, Zenon
  <1>14. (CHOOSE u : u = Given(u)) = Added(CHOOSE u : u = Given(u))
    BY <1>8, <1>11, Zenon
  <1>15. FoldLeft(LAMBDA sum, posting : sum + posting.amount, 0, p) = Sum(q)
    BY <1>9, <1>10, <1>12, <1>13, <1>14, Zenon
  <1> QED
    BY <1>15 DEF p, q

\* A request that is let through is a draft the ledger can keep.
LEMMA DraftIsSettled ==
    ASSUME NEW request, request.postings \in Seq(PostingInputMessage), ~Refused(request)
    PROVE  /\ Settled(DraftFromRequest(request))
           /\ \A i \in DOMAIN request.postings :
                 LET amount == request.postings[i].amount
                 IN  FromDecimal(ToDecimal(amount), amount.currency) = amount
  <1> DEFINE q == request.postings
             draft == DraftFromRequest(request)
             p == draft.postings
  <1>1. Len(q) \in Nat /\ DOMAIN q = 1 .. Len(q) /\ \A i \in DOMAIN q : q[i] \in PostingInputMessage
    OBVIOUS
  <1>2. /\ draft.key = request.key /\ draft.note = request.note /\ draft.metadata = request.metadata
        /\ draft.verify = {StoredAccount(request.verify[i]) : i \in DOMAIN request.verify}
        /\ DOMAIN p = DOMAIN q /\ \A i \in DOMAIN q : p[i] = StoredPosting(q[i])
    BY DEF DraftFromRequest
  <1>3. /\ request.key # "" /\ request.note # "" /\ "" \notin DOMAIN request.metadata
        /\ ~(Len(q) < 2) /\ Sum(q) = 0
        /\ \A i \in DOMAIN q : ~PostingRefused(q[i])
        /\ \A i \in DOMAIN q : UpperCased[q[i].amount.currency] = UpperCased[q[1].amount.currency]
        /\ \A i \in DOMAIN request.verify : ~VerifyRefused(request.verify[i], q)
    BY DEF Refused, MixedCurrencies
  <1>4. Len(p) >= 2
    <2>1. p = [i \in 1 .. Len(q) |-> StoredPosting(q[i])]
      BY <1>1 DEF DraftFromRequest
    <2> DEFINE stored == {StoredPosting(q[i]) : i \in 1 .. Len(q)}
    <2>2. p \in Seq(stored) /\ DOMAIN p = 1 .. Len(q)
      <3>1. p \in [1 .. Len(q) -> stored]
        BY <2>1
      <3> HIDE DEF p, q, draft, stored
      <3> QED
        BY <1>1, <3>1
    <2> HIDE DEF p, q, draft, stored
    <2>3. Len(p) \in Nat /\ DOMAIN p = 1 .. Len(p)
      BY <2>2
    <2>4. Len(q) \in Nat /\ ~(Len(q) < 2)
      BY <1>1, <1>3
    <2>5. Len(q) \in 1 .. Len(p)
      BY <2>2, <2>3, <2>4
    <2> QED
      BY <2>3, <2>4, <2>5
  <1>5. FoldLeft(LAMBDA sum, posting : sum + posting.amount, 0, p) = 0
    BY <1>3, SumsAreKept
  <1>6. draft.verify \subseteq {p[i].account : i \in DOMAIN p}
    <2> SUFFICES ASSUME NEW v \in DOMAIN request.verify
                 PROVE  StoredAccount(request.verify[v]) \in {p[i].account : i \in DOMAIN p}
      BY <1>2
    <2>1. PICK i \in DOMAIN q : StoredAccount(q[i].account) = StoredAccount(request.verify[v])
      BY <1>3 DEF VerifyRefused
    <2>2. p[i].account = StoredAccount(q[i].account) /\ i \in DOMAIN p
      <3> HIDE DEF p, q, draft
      <3> QED
        BY <1>2, <2>1 DEF StoredPosting
    <2> QED
      BY <2>1, <2>2
  <1> HIDE DEF p, q, draft
  <1>7. \A i \in DOMAIN q :
           LET amount == q[i].amount
           IN  FromDecimal(ToDecimal(amount), amount.currency) = amount
    BY <1>1, <1>3, PostingIsSettled
  <1>8. ASSUME NEW i \in DOMAIN p
        PROVE  /\ p[i].amount # 0 /\ ~OutOfRange(p[i].amount)
               /\ p[i].currency = p[1].currency
               /\ p[i].currency = UpperCased[p[i].currency]
               /\ AccountTypeToString(StringToAccountType(p[i].account.type)) = p[i].account.type
               /\ StringToAccountType(p[i].account.type) # 0
    <2>1. i \in DOMAIN q /\ 1 \in DOMAIN q
      <3>1. DOMAIN p = DOMAIN q /\ Len(q) \in Nat /\ DOMAIN q = 1 .. Len(q) /\ ~(Len(q) < 2)
        BY <1>1, <1>2, <1>3
      <3> QED
        BY <3>1
    <2>2. \A j \in DOMAIN q : p[j].currency = UpperCased[q[j].amount.currency]
      BY <1>2 DEF StoredPosting
    <2>3. p[i].currency = p[1].currency
      BY <1>3, <2>1, <2>2
    <2>4. p[i] = StoredPosting(q[i]) /\ q[i] \in PostingInputMessage /\ ~PostingRefused(q[i])
      BY <1>1, <1>2, <1>3, <2>1
    <2> QED
      BY <2>3, <2>4, PostingIsSettled
  <1> QED
    BY <1>2, <1>3, <1>4, <1>5, <1>6, <1>7, <1>8 DEF Settled, p, q, draft

\* Whatever is sent, by whichever route and with whatever token, only a writer's call
\* with a draft the ledger can keep reaches the ledger.
THEOREM OnlyRecordableDrafts == Spec => []OnlyRecordableDraftsReachTheLedger
  <1>1. RecordableDraftsOnly
    <2> SUFFICES ASSUME NEW call \in Calls, ReachesTheLedger(call)
                 PROVE  /\ call.token # Absent /\ call.token.valid
                        /\ "ledger:write" \in call.token.scopes
                        /\ Settled(DraftFromRequest(call.request))
                        /\ \A i \in DOMAIN call.request.postings :
                              LET amount == call.request.postings[i].amount
                              IN  FromDecimal(ToDecimal(amount), amount.currency) = amount
      BY DEF RecordableDraftsOnly
    <2>1. /\ call.request # Absent /\ Authorized(Record, call.token) = "OK" /\ ~Refused(call.request)
      BY DEF ReachesTheLedger, Answered, Undecoded
    <2>2. call.token # Absent /\ call.token.valid /\ "ledger:write" \in call.token.scopes
      BY <2>1 DEF Authorized, RequiredScopes, Record, HealthCheck
    <2>3. call.request.postings \in Seq(PostingInputMessage)
      BY <2>1, RequestConstants
    <2> QED
      BY <2>1, <2>2, <2>3, DraftIsSettled
  <1>2. OnlyRecordableDraftsReachTheLedger
    BY <1>1 DEF OnlyRecordableDraftsReachTheLedger
  <1> QED
    BY <1>2, PTL

\* Whatever the drafts say, and whatever characters their texts are made of, no two of
\* them are hashed from the same bytes: a key replays what it was asked for and nothing
\* else.
THEOREM FingerprintsTellApart == Spec => []FingerprintTellsDraftsApart
  <1>1. FingerprintTellsDraftsApart
    BY DraftsAreToldApart DEF FingerprintTellsDraftsApart
  <1> QED
    BY <1>1, PTL
================================================================================
