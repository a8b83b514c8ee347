-------------------------------- MODULE Clients --------------------------------
(***************************************************************************)
(* The ledger's two clients, the command line and the web form, recording  *)
(* through replicas that come and go. The ledger is what Book promises of  *)
(* a key; calls and answers are lost, delayed and given up on.             *)
(***************************************************************************)
EXTENDS Replicas, CommandLine, FormAmounts, Requests, Fingerprints

CONSTANTS
    Contents,       \* what an operator can ask to be recorded
    Incomplete,     \* those the ledger refuses; the form refuses them itself
    Posted,         \* bound: what is posted at the command line
    Refusals,       \* bound: what else the ledger refuses in a run
    MaxCalls,       \* bound: calls sent
    MaxKeys         \* bound: idempotency keys

None == "none"

ASSUME ClientConstants ==
    /\ None \notin Contents
    /\ Incomplete \subseteq Contents /\ Posted \subseteq Contents
    /\ Refusals \subseteq {"tooFarAhead", "overdrawn", "backdated"}
    /\ MaxCalls \in Nat /\ MaxKeys \in Nat

VARIABLES
    sent,       \* calls sent so far; a call is the number it was sent as
    calls,      \* those that are not over, on the wire, in a handler and at their clients
    book,       \* what each key recorded, for which call and which entry of the form
    generated,  \* keys made up so far; a key is the number it was made up as
    form        \* the web UI's entry form

clientVars == <<sent, calls, book, generated, form>>
vars == <<replicaVars, clientVars>>

Keys == 1 .. MaxKeys
Unrecorded == [content |-> None, by |-> 0, entry |-> 0]
Nothing == [key |-> 0, content |-> None]

\* What becomes of a call in RecordTransaction; whether "failed" recorded, nobody knows.
Outcomes == {"recorded", "replayed", "reused", "malformed", "retryable", "failed"} \cup Refusals

\* Slip: every failure is worth a retry.
StatusOfHopeful(outcome) ==
    CASE outcome \in {"recorded", "replayed"} -> outcome
      [] outcome \in {"malformed", "tooFarAhead"} -> "InvalidArgument"
      [] outcome \in {"overdrawn", "backdated"} -> "FailedPrecondition"
      [] outcome = "reused" -> "AlreadyExists"
      [] outcome \in {"retryable", "failed"} -> "Aborted"

StatusOf(outcome) ==
    CASE outcome \in {"recorded", "replayed"} -> outcome
      [] outcome \in {"malformed", "tooFarAhead"} -> "InvalidArgument"
      [] outcome \in {"overdrawn", "backdated"} -> "FailedPrecondition"
      [] outcome = "reused" -> "AlreadyExists"
      [] outcome = "retryable" -> "Aborted"
      [] outcome = "failed" -> "Internal"

Answers == {StatusOf(outcome) : outcome \in Outcomes}

\* An answer is a refusal, and the call it answers recorded nothing.
Definite == {"AlreadyExists", "InvalidArgument", "FailedPrecondition", "Aborted"}

Call == [from : {"cli", "form"}, key : Keys, content : Contents, entry : 0 .. MaxKeys,
         stage : {"sent", "handling", "answered", "cut"}, answer : Answers \cup {None},
         told : Answers \cup {"Unavailable", "DeadlineExceeded", None}]

\* last is what the latest press of the button asked for, while it is out or shown.
Form == [open : BOOLEAN, key : 0 .. MaxKeys, content : Contents, entry : 0 .. MaxKeys,
         submitting : BOOLEAN, asked : 0 .. MaxCalls, banner : BOOLEAN,
         last : [key : Keys, content : Contents] \cup {Nothing}]

TypeOK ==
    /\ phase \in [Replica -> Phases]
    /\ holder \in Replica \cup {Nobody}
    /\ tables \in BOOLEAN
    /\ handlers \in [Replica -> SUBSET DOMAIN calls]
    /\ starts \in 0 .. MaxStarts
    /\ ends \in 0 .. MaxEnds
    /\ sent \in 0 .. MaxCalls
    /\ DOMAIN calls \subseteq 1 .. sent
    /\ \A c \in DOMAIN calls : calls[c] \in Call
    /\ book \in [Keys -> [content : Contents \ Incomplete, by : 1 .. MaxCalls, entry : 0 .. MaxKeys]
                            \cup {Unrecorded}]
    /\ generated \in 0 .. MaxKeys
    /\ form \in Form

Send(from, key, content, entry) ==
    /\ sent < MaxCalls
    /\ sent' = sent + 1
    /\ calls' = [c \in DOMAIN calls \cup {sent + 1} |->
                    IF c \in DOMAIN calls THEN calls[c]
                    ELSE [from |-> from, key |-> key, content |-> content, entry |-> entry,
                          stage |-> "sent", answer |-> None, told |-> None]]

\* A call is over once it is answered and its client has been told something: nothing
\* more can come of it, and it is not kept. One given up on before is kept to the end.
Kept(cs) == [c \in {d \in DOMAIN cs : cs[d].told = None \/ cs[d].stage # "answered"} |-> cs[c]]

----------------------------------------------------------------------------
\* A post, under a key given or, when none is, made up. Each run
\* of the command line is one call, and ends with it; one terminal runs one at a time.
Post ==
    /\ \A c \in DOMAIN calls : calls[c].from = "cli" => calls[c].told # None
    /\ \E key \in Keys, content \in Posted :
          /\ key <= generated + 1
          /\ Send("cli", key, content, 0)
          /\ generated' = IF key > generated THEN key ELSE generated
    /\ UNCHANGED <<replicaVars, book, form>>

\* The errors that are the ledger's own and those it never saw.
Wording(verdict) ==
    CASE verdict \in {"recorded", "replayed"} -> verdict
      [] verdict = "AlreadyExists" -> "reused"
      [] verdict = "Unavailable" -> "unreachable"
      [] OTHER -> "rejected"

----------------------------------------------------------------------------
Closed(content) ==
    [open |-> FALSE, key |-> 0, content |-> content, entry |-> 0, submitting |-> FALSE,
     asked |-> 0, banner |-> FALSE, last |-> Nothing]

\* Slip: the form is mounted without a key.
MountKeyless ==
    /\ ~form.open
    /\ form' = [form EXCEPT !.open = TRUE]
    /\ UNCHANGED <<replicaVars, sent, calls, book, generated>>

\* The form is mounted with a key of its own and nothing filled in.
Mount ==
    /\ ~form.open /\ generated < MaxKeys
    /\ generated' = generated + 1
    /\ form' = [form EXCEPT !.open = TRUE, !.key = generated + 1, !.entry = generated + 1]
    /\ UNCHANGED <<replicaVars, sent, calls, book>>

\* Nothing keeps an operator from editing while a call is out.
Edit ==
    /\ form.open
    /\ \E content \in Contents \ {form.content} : form' = [form EXCEPT !.content = content]
    /\ UNCHANGED <<replicaVars, sent, calls, book, generated>>

\* The button that makes up another key: another entry, as far as the ledger knows.
Generate ==
    /\ form.open /\ generated < MaxKeys
    /\ generated' = generated + 1
    /\ form' = [form EXCEPT !.key = generated + 1, !.entry = generated + 1]
    /\ UNCHANGED <<replicaVars, sent, calls, book>>

Leaves == \E content \in Incomplete : form' = Closed(content)

\* The answer may come to a page that has been left.
Leave ==
    /\ form.open
    /\ Leaves
    /\ UNCHANGED <<replicaVars, sent, calls, book, generated>>

Pressed == [key |-> form.key, content |-> form.content]

\* Slip: the banner is cleared once the form's own checks have passed.
SubmitBannerUp ==
    /\ form.open /\ ~form.submitting
    /\ \/ /\ form.content \in Incomplete
          /\ form' = [form EXCEPT !.asked = 0, !.last = Pressed]
          /\ UNCHANGED <<sent, calls>>
       \/ /\ form.content \notin Incomplete
          /\ Send("form", form.key, form.content, form.entry)
          /\ form' = [form EXCEPT !.banner = FALSE, !.submitting = TRUE, !.asked = sent + 1,
                                  !.last = Pressed]
    /\ UNCHANGED <<replicaVars, book, generated>>

\* The button is disabled while a submission is out.
Submit ==
    /\ form.open /\ ~form.submitting
    /\ \/ /\ form.content \in Incomplete
          /\ form' = [form EXCEPT !.banner = FALSE, !.asked = 0, !.last = Nothing]
          /\ UNCHANGED <<sent, calls>>
       \/ /\ form.content \notin Incomplete
          /\ Send("form", form.key, form.content, form.entry)
          /\ form' = [form EXCEPT !.banner = FALSE, !.submitting = TRUE, !.asked = sent + 1,
                                  !.last = Pressed]
    /\ UNCHANGED <<replicaVars, book, generated>>

\* The submission is over; a replay raises the banner.
Ended(verdict) ==
    IF verdict = "replayed" THEN [form EXCEPT !.submitting = FALSE, !.banner = TRUE]
    ELSE [form EXCEPT !.submitting = FALSE, !.asked = 0, !.last = Nothing]

\* Slip: a failed submission gets a key of its own for the next attempt.
ShowRekeyed(c, verdict) ==
    /\ IF verdict = "recorded" THEN Leaves /\ UNCHANGED generated
       ELSE IF form.asked = c /\ verdict # "replayed" /\ generated < MaxKeys
         THEN /\ form' = [Ended(verdict) EXCEPT !.key = generated + 1]
              /\ generated' = generated + 1
         ELSE /\ form' = IF form.asked = c THEN Ended(verdict) ELSE form
              /\ UNCHANGED generated

\* Slip: only an answer the form can show ends the submission.
ShowUnended(c, verdict) ==
    /\ IF verdict = "recorded" THEN Leaves
       ELSE form' = IF form.asked = c /\ verdict = "replayed" THEN Ended(verdict) ELSE form
    /\ UNCHANGED generated

\* What was recorded routes to the listing, from whatever page the operator is on by
\* then. Anything else is shown where it was asked for, if the form is still there, and
\* leaves its key and its content as they are.
Show(c, verdict) ==
    /\ IF verdict = "recorded" THEN Leaves
       ELSE form' = IF form.asked = c THEN Ended(verdict) ELSE form
    /\ UNCHANGED generated

\* A client hears of a call once.
Tell(c, verdict) ==
    /\ calls[c].told = None
    /\ calls' = Kept([calls EXCEPT ![c].told = verdict])
    /\ \/ calls[c].from = "cli" /\ UNCHANGED <<form, generated>>
       \/ calls[c].from = "form" /\ Show(c, verdict)
    /\ UNCHANGED <<replicaVars, sent, book>>

----------------------------------------------------------------------------
\* Some replica takes the call, also one whose client no longer waits.
Accept(c) ==
    /\ calls[c].stage = "sent"
    /\ \E r \in Replica :
          /\ Taking(r)
          /\ handlers' = [handlers EXCEPT ![r] = @ \cup {c}]
    /\ calls' = [calls EXCEPT ![c].stage = "handling"]
    /\ UNCHANGED <<phase, holder, tables, starts, ends, sent, book, generated, form>>

\* It reached a replica that serves no new calls, or none at all.
Refuse(c) ==
    /\ calls[c].stage = "sent"
    /\ \E r \in Replica : ~Taking(r)
    /\ Tell(c, "Unavailable")

\* What can come of the call, as the book stands.
Possible(call) ==
    IF call.content \in Incomplete THEN {"malformed"}
    ELSE {"failed", "retryable"}
         \cup (IF book[call.key] = Unrecorded THEN {"recorded"} \cup Refusals
               ELSE IF book[call.key].content = call.content THEN {"replayed"} ELSE {"reused"})

\* The handler runs to its end: atomic, as Book has it. A commit may go unacknowledged.
\* In a process that panicked the pool is closed, and the handler fails, unless it has its
\* connection already.
Handle(r, c) ==
    /\ c \in handlers[r]
    /\ \E outcome \in Possible(calls[c]) :
          /\ calls' = Kept([calls EXCEPT ![c].stage = "answered", ![c].answer = StatusOf(outcome)])
          /\ \/ /\ outcome \in {"recorded", "failed"} /\ book[calls[c].key] = Unrecorded
                /\ book' = [book EXCEPT ![calls[c].key] =
                              [content |-> calls[c].content, by |-> c, entry |-> calls[c].entry]]
             \/ outcome # "recorded" /\ UNCHANGED book
    /\ handlers' = [handlers EXCEPT ![r] = @ \ {c}]
    /\ UNCHANGED <<phase, holder, tables, starts, ends, sent, generated, form>>

Deliver(c) == calls[c].stage = "answered" /\ Tell(c, calls[c].answer)

\* The call or its answer is lost on the way, or with the replica that had it.
Lose(c) == calls[c].stage # "cut" /\ Tell(c, "Unavailable")
LearnCut(c) == calls[c].stage = "cut" /\ Tell(c, "Unavailable")

\* The command line waits ten seconds; the call goes on without it.
GiveUp(c) == calls[c].from = "cli" /\ Tell(c, "DeadlineExceeded")

\* A dying replica cuts the calls it was handling.
DieWithCalls(r) ==
    /\ Die(r)
    /\ calls' = [c \in DOMAIN calls |->
                    IF c \in handlers[r] THEN [calls[c] EXCEPT !.stage = "cut"] ELSE calls[c]]
    /\ UNCHANGED <<sent, book, generated, form>>

Init ==
    /\ ReplicasInit
    /\ sent = 0
    /\ calls = <<>>
    /\ book = [key \in Keys |-> Unrecorded]
    /\ generated = 0
    /\ form \in {Closed(content) : content \in Incomplete}

\* What becomes of a call that neither its client nor a process has to decide on.
Proceeds(c) ==
    \/ Accept(c) \/ Refuse(c) \/ Deliver(c) \/ LearnCut(c)
    \/ \E r \in Replica : Handle(r, c)

Next ==
    \/ \E r \in Replica :
          \/ (Start(r) \/ Main(r) \/ Signal(r)) /\ UNCHANGED clientVars
          \/ DieWithCalls(r)
    \/ Post \/ Mount \/ Edit \/ Generate \/ Leave \/ Submit
    \/ \E c \in DOMAIN calls :
          Proceeds(c) \/ Lose(c) \/ GiveUp(c)

Spec == Init /\ [][Next]_vars

Waited(c) == c \in DOMAIN calls /\ calls[c].told = None

\* Processes run; a request that a client waits on reaches some replica, a handler
\* returns, and an answer arrives or its loss is noticed. Nobody has to start a process
\* or use a client, and a call that is given up on may stay wherever it is.
FairSpec ==
    /\ Spec
    /\ \A r \in Replica : WF_vars(Main(r) /\ UNCHANGED clientVars)
    /\ \A c \in 1 .. MaxCalls : WF_vars(Waited(c) /\ Proceeds(c))

----------------------------------------------------------------------------
AnswerIsTrue(c) ==
    LET call == calls[c]
        known == book[call.key]
    IN  /\ call.answer = "recorded" => known.by = c
        /\ call.answer \in {"recorded", "replayed"} => known.content = call.content
        /\ call.answer = "AlreadyExists" => known.content \notin {None, call.content}
        /\ call.answer \in Definite => known.by # c

\* What a client is told is so, whatever became of the replica and of earlier attempts:
\* what was recorded or replayed is in the book as it was asked for, a reused key holds
\* something else, and after a definite refusal or "try again" this call left nothing.
AnswersAreTrue == \A c \in DOMAIN calls : AnswerIsTrue(c)

\* However often an operator presses Record, whatever fails between, one entry is
\* recorded once, until the operator asks for another key.
EntryRecordedOnce ==
    \A k, l \in Keys :
        book[k].entry # 0 /\ book[k].entry = book[l].entry => k = l

\* The banner speaks of the form's last submission, which is over, and what it asked for
\* really is recorded: it never outlives it to describe the next one.
BannerIsTheLastSubmission ==
    form.banner =>
        /\ ~form.submitting
        /\ form.last # Nothing
        /\ book[form.last.key].content = form.last.content

\* The parts that keep no state are the same in every state, so the first will do: no
\* amount the command line sends, the ledger keeps or a listing reports is changed on its
\* way,
AmountsSurvive == Init => EveryAmountSurvives

\* what the form sends is the amount it checked, and as good as the one that was typed,
FormAmountsHold == Init => EveryFormAmountHolds

\* and only an authorized call with a draft the ledger can keep gets as far as the ledger.
OnlyRecordableDraftsReachTheLedger == Init => RecordableDraftsOnly

\* What a key recorded is replayed only for the content it recorded, the one its
\* fingerprint is of.
FingerprintTellsDraftsApart == Init => TellsApart(Drafts)

\* A submission ends, whatever happens to the replica that has it.
EverySubmissionEnds == form.submitting ~> ~form.submitting

\* "A dial or transport failure is not a ledger rejection, and is not worded like one":
\* what the command line called a rejection, the ledger has answered.
RejectionsAreTheLedgers ==
    \A c \in DOMAIN calls :
        /\ calls[c].from = "cli" /\ calls[c].told # None
        /\ Wording(calls[c].told) = "rejected"
        => calls[c].stage = "answered"
================================================================================
