--------------------------- MODULE PaymentGateways ---------------------------
(***************************************************************************)
(* One payment at a gateway: captures, refunds and cancellations called by *)
(* operators, the claim and lease that make a repeated call safe, the      *)
(* ledger of captured money, and the webhooks and polls that move the      *)
(* status of the payment at the same time.                                 *)
(*                                                                         *)
(* A call of capture, refund or cancel is a sequence of steps: it reads    *)
(* the payment, claims its operation, reserves the amount, calls the       *)
(* provider, and completes in one transaction, or takes the reservation    *)
(* back.  Other calls, webhooks and polls run between any two of them, and *)
(* the process may die after any of them.                                  *)
(*                                                                         *)
(* Money is counted in units.  An omitted amount is 0; a reservation of 0  *)
(* is the null column.                                                     *)
(*                                                                         *)
(* An operator named Fault... is a plausible mistake in the operator that  *)
(* follows it and is used by nothing.                                      *)
(***************************************************************************)
EXTENDS Integers, FiniteSets

CONSTANTS
  Callers,      \* calls of capture, refund and cancel, each made once
  OpIds,        \* the operation ids the callers send
  Actions,      \* the actions called, of capture, refund and cancel
  Amounts,      \* the amounts asked for; Omitted: whatever is left
  Authorized,   \* transaction.amount
  Writers,      \* runs of webhook jobs and of status polls
  Events,       \* the statuses webhooks bring, one idempotency key each
  Polled,       \* the statuses a poll of the provider can answer
  Sessions,     \* the statuses a session is created with
  Mishaps,      \* the kinds of things that may go wrong: see below
  MaxMishaps    \* of how many of these kinds something goes wrong at most

Omitted == 0
Nothing == 0            \* a null reservation, a call not made
Nobody  == "nobody"     \* no attempt token
None    == "none"

ManualActions == {"capture", "refund", "cancel"}

(* "death": the process of a call dies;                                    *)
(* "slow": a call outlasts the lease of its operation;                     *)
(* "lost": the provider does what it is asked and the answer never arrives;*)
(* "unreachable": a call of an operation the provider has already carried  *)
(* out, for an earlier attempt, does not get through;                      *)
(* "short": the provider captures less than it is asked;                   *)
(* "overtaken": a call claims an operation that another call of it has     *)
(* claimed, reserved for and failed since the first one read the payment;  *)
(* "crash": the process of a webhook job dies;                             *)
(* "unregistered": a webhook job finds no adapter for the provider;        *)
(* "unreleased": a webhook job fails and the database does not take the    *)
(* release of its claim either.                                            *)
Kinds == {"death", "slow", "lost", "unreachable", "short", "overtaken",
          "crash", "unregistered", "unreleased"}

ASSUME GatewayAssumption ==
  /\ Authorized \in Nat \ {0}
  /\ Amounts \subseteq Nat
  /\ Actions \subseteq ManualActions
  /\ Sessions \subseteq {"pending", "authorized", "captured"}
  /\ Mishaps \subseteq Kinds
  /\ MaxMishaps \in Nat
  /\ Nobody \notin Callers
  /\ None \notin Events

VARIABLES
  status,     \* transaction.unifiedStatus
  captured,   \* transaction.capturedAmount, the ledger
  ops,        \* the gateway_payment_operations rows, by operation id
  call,       \* what each call holds in memory
  writer,     \* what each webhook job or poll holds in memory
  claims,     \* the gateway_webhook_events rows
  taken,      \* external: what the provider took under each operation's key
  mishaps,    \* history: the kinds of things that have gone wrong
  applied,    \* history: the events some run has written
  raised      \* history: whether a webhook or poll has raised the ledger

payment == <<status, captured>>
vars == <<status, captured, ops, call, writer, claims, taken, mishaps,
          applied, raised>>

-----------------------------------------------------------------------------
(* The status machine.                                                     *)

Statuses == {"pending", "authorized", "captured", "partially_captured",
             "refunded", "partially_refunded", "cancelled", "failed",
             "expired"}

Terminal == {"refunded", "cancelled", "failed", "expired"}

Moves ==
  [pending            |-> {"authorized", "captured", "failed", "expired",
                           "cancelled"},
   authorized         |-> {"captured", "partially_captured", "cancelled",
                           "failed"},
   captured           |-> {"refunded", "partially_refunded"},
   partially_captured |-> {"captured", "refunded", "partially_refunded",
                           "cancelled"},
   partially_refunded |-> {"refunded"},
   refunded  |-> {}, cancelled |-> {}, failed |-> {}, expired |-> {}]

ValidTransition(from, to) == to \in Moves[from]

Targets ==
  [capture |-> {"captured", "partially_captured"},
   refund  |-> {"refunded", "partially_refunded"},
   cancel  |-> {"cancelled"}]

CanApply(action, from) ==
  /\ from \notin Terminal
  /\ \/ from \in Targets[action]
     \/ \E s \in Targets[action] : ValidTransition(from, s)

\* What a status reported from outside makes of the status that was read.
Reported(read, s) == IF ValidTransition(read, s) THEN s ELSE read

\* A result that is not ahead of the payment changes nothing; one that cannot
\* follow its status is refused.
Behind(current, s) == s = current \/ ValidTransition(s, current)
ResultAllowed(current, s) == Behind(current, s) \/ ValidTransition(current, s)
AfterResult(current, s) == IF Behind(current, s) THEN current ELSE s

-----------------------------------------------------------------------------
(* The rows and the memory of the callers.                                 *)

Units == 0..Authorized

\* What amounts of the operations come to: their units, told apart by operation
\* and number, and counted.
UnitsOf(amount) ==
  {u \in OpIds \X (1..Authorized) : u[2] <= amount[u[1]]}

Total(amount) == Cardinality(UnitsOf(amount))

Operation ==
  [state    : {None, "in_progress", "succeeded", "failed"},
   action   : ManualActions \cup {None},
   amount   : Amounts \cup {Omitted},
   token    : Callers \cup {Nobody},
   expired  : BOOLEAN,
   reserved : Units,
   result   : Statuses \cup {None}]

NoOperation == [state |-> None, action |-> None, amount |-> Omitted,
                token |-> Nobody, expired |-> FALSE, reserved |-> Nothing,
                result |-> None]

Stages == {"idle", "read", "claimed", "asked", "taken", "answered",
           "committing", "failing", "released", "done", "dead"}

Call ==
  [at       : Stages,
   op       : OpIds \cup {None},
   action   : ManualActions \cup {None},
   amount   : Amounts \cup {Omitted},
   status   : Statuses \cup {None},   \* the payment as last read
   captured : Nat,
   held     : Units,                  \* reservedUnits
   asks     : Units,                  \* providerAmount
   invoked  : BOOLEAN,                \* providerInvoked
   answer   : Statuses \cup {None}]

Idle == [at |-> "idle", op |-> None, action |-> None, amount |-> Omitted,
         status |-> None, captured |-> 0, held |-> Nothing, asks |-> Nothing,
         invoked |-> FALSE, answer |-> None]

Writer ==
  [at       : {"idle", "claimed", "read", "written", "polling"},
   event    : Events \cup {None},
   status   : Statuses \cup {None},
   captured : Nat]

Resting == [at |-> "idle", event |-> None, status |-> None, captured |-> 0]

Ended == [Idle EXCEPT !.at = "done"]
Dead  == [Idle EXCEPT !.at = "dead"]

TypeOK ==
  /\ status \in Statuses
  /\ captured \in Nat
  /\ ops \in [OpIds -> Operation]
  /\ call \in [Callers -> Call]
  /\ writer \in [Writers -> Writer]
  /\ claims \subseteq Events
  /\ taken \in [OpIds -> Units]
  /\ mishaps \subseteq Mishaps
  /\ applied \subseteq Events
  /\ raised \in BOOLEAN

\* A session of an automatic capture comes back captured, with a full ledger.
Init ==
  /\ status \in Sessions
  /\ captured = IF status = "captured" THEN Authorized ELSE 0
  /\ ops = [o \in OpIds |-> NoOperation]
  /\ call = [c \in Callers |-> Idle]
  /\ writer = [w \in Writers |-> Resting]
  /\ claims = {}
  /\ taken = [o \in OpIds |-> Nothing]
  /\ mishaps = {}
  /\ applied = {}
  /\ raised = (status = "captured")

\* Something goes wrong, of a kind that may.
Happens(k) ==
  /\ k \in Mishaps
  /\ mishaps' = mishaps \cup {k}
  /\ Cardinality(mishaps \cup {k}) <= MaxMishaps

\* It does if the condition holds.
HappensIf(condition, k) ==
  IF condition THEN Happens(k) ELSE UNCHANGED mishaps

-----------------------------------------------------------------------------
(* Reading the payment and claiming the operation.                         *)

\* A transaction that completes an operation holds the row of the operation.
Locked(o) == \E c \in Callers : call[c].at = "committing" /\ call[c].op = o

Begin(c, o, action, amount) ==
  /\ call[c].at = "idle"
  /\ call' = [call EXCEPT ![c] =
       [Idle EXCEPT !.at = "read", !.op = o, !.action = action,
                    !.amount = amount,
                    !.status = status, !.captured = captured]]
  /\ UNCHANGED <<payment, ops, writer, claims, taken, mishaps, applied, raised>>

\* What the call asks of the ledger as it read it.
Requested(c) ==
  IF call[c].amount = Omitted THEN Authorized - call[c].captured
                              ELSE call[c].amount

\* The cumulative ceiling, against the ledger as it was read.
WithinRemaining(c) ==
  /\ call[c].captured < Authorized
  /\ Requested(c) > 0
  /\ Requested(c) <= Authorized - call[c].captured

InitialAllowed(c) ==
  /\ CanApply(call[c].action, call[c].status)
  /\ call[c].action = "capture" => WithinRemaining(c)

SameRequest(c) ==
  LET row == ops[call[c].op] IN
  row.action = call[c].action /\ row.amount = call[c].amount

\* The call of the provider is under way; what the payment was like when it
\* was read plays no part in it any more.
Asking(c, held, units) ==
  [Idle EXCEPT !.at = "asked", !.op = call[c].op, !.action = call[c].action,
               !.held = held, !.asks = units]

\* Only a capture has work to do before the provider is called.
AfterClaim(c, held) ==
  IF call[c].action = "capture"
  THEN [call[c] EXCEPT !.at = "claimed", !.held = held]
  ELSE Asking(c, Nothing, Nothing)

InsertOperation(c) ==
  LET o == call[c].op IN
  /\ call[c].at = "read"
  /\ ops[o].state = None
  /\ InitialAllowed(c)
  /\ ops' = [ops EXCEPT ![o] =
       [NoOperation EXCEPT !.state = "in_progress", !.token = c,
                           !.action = call[c].action,
                           !.amount = call[c].amount]]
  /\ call' = [call EXCEPT ![c] = AfterClaim(c, Nothing)]
  /\ UNCHANGED <<payment, writer, claims, taken, mishaps, applied, raised>>

\* Fault: an operation in progress can be claimed before its lease expires.
FaultReclaimable(row) == row.state \in {"failed", "in_progress"}

Reclaimable(row) ==
  row.state = "failed" \/ (row.state = "in_progress" /\ row.expired)

\* A failed attempt, or one whose lease has expired, is taken over; the
\* reservation it holds comes with it.
ReclaimOperation(c) ==
  LET o == call[c].op IN
  /\ call[c].at = "read"
  /\ ~Locked(o)
  /\ SameRequest(c)
  /\ Reclaimable(ops[o])
  /\ HappensIf(ops[o].reserved > call[c].captured, "overtaken")
  /\ ops' = [ops EXCEPT ![o].state = "in_progress", ![o].token = c,
                        ![o].expired = FALSE]
  /\ call' = [call EXCEPT ![c] = AfterClaim(c, ops[o].reserved)]
  /\ UNCHANGED <<payment, writer, claims, taken, applied, raised>>

\* A refused request, another request under the same id, an operation still
\* in progress, and the replay of one that has succeeded.
EndWithoutClaim(c) ==
  LET row == ops[call[c].op] IN
  /\ call[c].at = "read"
  /\ IF row.state = None THEN ~InitialAllowed(c)
                         ELSE ~SameRequest(c) \/ ~Reclaimable(row)
  /\ call' = [call EXCEPT ![c] = Ended]
  /\ UNCHANGED <<payment, ops, writer, claims, taken, mishaps, applied, raised>>

\* Ten minutes pass.
LeaseExpires(o) ==
  /\ ops[o].state = "in_progress"
  /\ ~ops[o].expired
  /\ HappensIf(call[ops[o].token].at # "dead", "slow")
  /\ ops' = [ops EXCEPT ![o].expired = TRUE]
  /\ UNCHANGED <<payment, call, writer, claims, taken, applied, raised>>

-----------------------------------------------------------------------------
(* The reservation.                                                        *)

\* Fault: the provider is asked for the total that the capture arrives at.
FaultProviderAmount(c, units) == call[c].captured + units

\* "The rest" is named once part of the authorization is captured.
ProviderAmount(c, units) ==
  IF call[c].amount # Omitted THEN call[c].amount
  ELSE IF call[c].captured > 0 THEN units
  ELSE Authorized

\* Fault: the ledger is increased without comparing it with what was read.
FaultLedgerUnmoved(c) == TRUE

\* The compare-and-swap: the ledger still is what the call read.
LedgerUnmoved(c) == captured = call[c].captured

ReuseReservation(c) ==
  /\ call[c].at = "claimed"
  /\ call[c].held # Nothing
  /\ call' = [call EXCEPT
       ![c] = Asking(c, call[c].held, ProviderAmount(c, call[c].held))]
  /\ UNCHANGED <<payment, ops, writer, claims, taken, mishaps, applied, raised>>

CanReserve(c) ==
  /\ WithinRemaining(c)
  /\ LedgerUnmoved(c)
  /\ ops[call[c].op].reserved = Nothing

\* The ledger and the row of the operation change in one transaction.
ReserveCaptureAmount(c) ==
  LET o == call[c].op
      units == Requested(c) IN
  /\ call[c].at = "claimed"
  /\ call[c].held = Nothing
  /\ ~Locked(o)
  /\ CanReserve(c)
  /\ captured' = call[c].captured + units
  /\ ops' = [ops EXCEPT ![o].reserved = units]
  /\ call' = [call EXCEPT ![c] = Asking(c, units, ProviderAmount(c, units))]
  /\ UNCHANGED <<status, writer, claims, taken, mishaps, applied, raised>>

ReserveConflict(c) ==
  /\ call[c].at = "claimed"
  /\ call[c].held = Nothing
  /\ ~CanReserve(c)
  /\ call' = [call EXCEPT ![c].at = "failing"]
  /\ UNCHANGED <<payment, ops, writer, claims, taken, mishaps, applied, raised>>

-----------------------------------------------------------------------------
(* The provider.  It takes money once for one idempotency key, and the key *)
(* is derived from the operation id.                                       *)

MoneyTaken == Total(taken)

ProviderActs(c) ==
  LET o == call[c].op IN
  /\ call[c].at = "asked"
  /\ IF call[c].action = "capture" /\ taken[o] = Nothing
     THEN \E units \in 1..call[c].asks :
            /\ HappensIf(units < call[c].asks, "short")
            /\ taken' = [taken EXCEPT ![o] = units]
     ELSE UNCHANGED <<taken, mishaps>>
  /\ call' = [call EXCEPT ![c].at = "taken"]
  /\ UNCHANGED <<payment, ops, writer, claims, applied, raised>>

\* A refund and a cancellation are answered with a status of theirs, a
\* capture by whether the authorization is used up.
Answers(c) ==
  IF call[c].action # "capture" THEN Targets[call[c].action]
  ELSE IF MoneyTaken >= Authorized THEN {"captured"}
  ELSE {"partially_captured"}

AnswerArrives(c) ==
  /\ call[c].at = "taken"
  /\ \E s \in Answers(c) :
       call' = [call EXCEPT ![c].at = "answered", ![c].invoked = TRUE,
                            ![c].answer = s]
  /\ UNCHANGED <<payment, ops, writer, claims, taken, mishaps, applied, raised>>

\* The provider refuses, or is not configured or not reached.
CallRefused(c) ==
  /\ call[c].at = "asked"
  /\ HappensIf(taken[call[c].op] # Nothing, "unreachable")
  /\ call' = [call EXCEPT ![c].at = "failing"]
  /\ UNCHANGED <<payment, ops, writer, claims, taken, applied, raised>>

\* The provider acted, and the call still ends with an error.
AnswerLost(c) ==
  /\ call[c].at = "taken"
  /\ Happens("lost")
  /\ call' = [call EXCEPT ![c].at = "failing"]
  /\ UNCHANGED <<payment, ops, writer, claims, taken, applied, raised>>

-----------------------------------------------------------------------------
(* Completion, in one transaction: the row of the operation is updated and *)
(* held, the payment is read, and both are written at the commit.          *)

\* Fault: an attempt that ends finds its operation by the id alone.
FaultHoldsClaim(c) == TRUE

HoldsClaim(c) ==
  LET row == ops[call[c].op] IN
  row.state = "in_progress" /\ row.token = c

CompleteOperation(c) ==
  /\ call[c].at = "answered"
  /\ ~Locked(call[c].op)
  /\ call' = [call EXCEPT
       ![c].at = IF HoldsClaim(c) /\ ResultAllowed(status, call[c].answer)
                 THEN "committing" ELSE "failing",
       ![c].status = status, ![c].captured = captured]
  /\ UNCHANGED <<payment, ops, writer, claims, taken, mishaps, applied, raised>>

\* What the ledger read becomes once the amount really captured is known.
Settled(c) ==
  LET rest == call[c].captured - call[c].held + taken[call[c].op] IN
  IF rest < 0 THEN 0 ELSE rest

\* Only the columns that change are written.
CommitOperation(c) ==
  LET o == call[c].op
      s == AfterResult(call[c].status, call[c].answer) IN
  /\ call[c].at = "committing"
  /\ ops' = [ops EXCEPT ![o].state = "succeeded", ![o].result = call[c].answer,
                        ![o].expired = FALSE]
  /\ status' = IF s = call[c].status THEN status ELSE s
  /\ captured' = IF call[c].held = Nothing \/ Settled(c) = call[c].captured
                 THEN captured ELSE Settled(c)
  /\ call' = [call EXCEPT ![c] = Ended]
  /\ UNCHANGED <<writer, claims, taken, mishaps, applied, raised>>

\* The transaction fails and is rolled back.
CommitFails(c) ==
  /\ call[c].at = "committing"
  /\ call' = [call EXCEPT ![c].at = "failing"]
  /\ UNCHANGED <<payment, ops, writer, claims, taken, mishaps, applied, raised>>

-----------------------------------------------------------------------------
(* The way back.                                                           *)

\* Fault: the slice goes back even if the call of the provider returned.
FaultMayRelease(c) == call[c].action = "capture" /\ call[c].held # Nothing

\* The slice goes back unless the call of the provider returned.
MayRelease(c) ==
  /\ call[c].action = "capture"
  /\ call[c].held # Nothing
  /\ ~call[c].invoked

\* The payment and the row of the operation change in one transaction, if
\* the row holds just this reservation.
ReleaseCaptureAmount(c) ==
  LET o == call[c].op
      rest == captured - call[c].held IN
  /\ call[c].at = "failing"
  /\ ~Locked(o)
  /\ MayRelease(c)
  /\ ops[o].reserved = call[c].held
  /\ captured' = IF rest < 0 THEN 0 ELSE rest
  /\ ops' = [ops EXCEPT ![o].reserved = Nothing]
  /\ call' = [call EXCEPT ![c].at = "released"]
  /\ UNCHANGED <<status, writer, claims, taken, mishaps, applied, raised>>

\* Nothing to release, the provider was called, or the release loses against
\* another writer: the reservation stays.
KeepReservation(c) ==
  /\ call[c].at = "failing"
  /\ call' = [call EXCEPT ![c].at = "released"]
  /\ UNCHANGED <<payment, ops, writer, claims, taken, mishaps, applied, raised>>

FailOperation(c) ==
  LET o == call[c].op IN
  /\ call[c].at = "released"
  /\ ~Locked(o)
  /\ ops' = IF HoldsClaim(c)
            THEN [ops EXCEPT ![o].state = "failed", ![o].expired = FALSE]
            ELSE ops
  /\ call' = [call EXCEPT ![c] = Ended]
  /\ UNCHANGED <<payment, writer, claims, taken, mishaps, applied, raised>>

\* The process of the call dies; an open transaction is rolled back.
CallerDies(c) ==
  /\ call[c].at \notin {"idle", "done", "dead"}
  /\ Happens("death")
  /\ call' = [call EXCEPT ![c] = Dead]
  /\ UNCHANGED <<payment, ops, writer, claims, taken, applied, raised>>

-----------------------------------------------------------------------------
(* Webhooks.  A job claims the event by its idempotency key, reads the     *)
(* payment and writes it; an error on the way gives the claim back and the *)
(* queue, or the provider, brings the event again.                         *)

Unclaimed(e) == e \notin claims

ClaimWebhook(w, e) ==
  /\ writer[w].at = "idle"
  /\ Unclaimed(e)
  /\ claims' = claims \cup {e}
  /\ writer' = [writer EXCEPT ![w] = [Resting EXCEPT !.at = "claimed",
                                                     !.event = e]]
  /\ UNCHANGED <<payment, ops, call, taken, mishaps, applied, raised>>

SyncReads(w) ==
  /\ writer[w].at = "claimed"
  /\ writer' = [writer EXCEPT ![w].at = "read", ![w].status = status,
                              ![w].captured = captured]
  /\ UNCHANGED <<payment, ops, call, claims, taken, mishaps, applied, raised>>

\* What the ledger is raised to when a status from outside says that all of
\* the authorization was captured; nothing if it holds that much already.
Aligned(s, read) ==
  IF s = "captured" /\ read < Authorized THEN {Authorized} ELSE {}

\* A status from outside, applied to the payment as the writer read it.
WriteReported(w, s) ==
  LET next   == Reported(writer[w].status, s)
      ledger == Aligned(s, writer[w].captured) IN
  IF next = writer[w].status
  THEN UNCHANGED <<status, captured, raised>>
  ELSE /\ status' = next
       /\ IF ledger = {} THEN UNCHANGED <<captured, raised>>
          ELSE captured' \in ledger /\ raised' = TRUE

SyncWrites(w) ==
  /\ writer[w].at = "read"
  /\ WriteReported(w, writer[w].event)
  /\ applied' = applied \cup {writer[w].event}
  /\ writer' = [writer EXCEPT ![w] = [Resting EXCEPT
       !.at = "written", !.event = writer[w].event]]
  /\ UNCHANGED <<ops, call, claims, taken, mishaps>>

\* Events and logs are written after the payment.
WebhookEnds(w) ==
  /\ writer[w].at = "written"
  /\ writer' = [writer EXCEPT ![w] = Resting]
  /\ UNCHANGED <<payment, ops, call, claims, taken, mishaps, applied, raised>>

\* Fault: the claim of an event that could not be processed stays.
FaultReleaseClaim(w) == claims

ReleaseClaim(w) == claims \ {writer[w].event}

\* The claim is given back, by a write of its own that may fail as well.
WebhookThrows(w) ==
  /\ writer[w].at \in {"claimed", "read", "written"}
  /\ \/ claims' = ReleaseClaim(w) /\ UNCHANGED mishaps
     \/ Happens("unreleased") /\ UNCHANGED claims
  /\ writer' = [writer EXCEPT ![w] = Resting]
  /\ UNCHANGED <<payment, ops, call, taken, applied, raised>>

\* The job ends without an error, and so keeps its claim.
AdapterMissing(w) ==
  /\ writer[w].at = "claimed"
  /\ Happens("unregistered")
  /\ writer' = [writer EXCEPT ![w] = Resting]
  /\ UNCHANGED <<payment, ops, call, claims, taken, applied, raised>>

\* The row of the event stays behind.
WebhookDies(w) ==
  /\ writer[w].at \in {"claimed", "read", "written"}
  /\ Happens("crash")
  /\ writer' = [writer EXCEPT ![w] = Resting]
  /\ UNCHANGED <<payment, ops, call, claims, taken, applied, raised>>

-----------------------------------------------------------------------------
(* Status polls: the payment is read, then the provider is asked.          *)

PollReads(w) ==
  /\ writer[w].at = "idle"
  /\ Polled # {}
  /\ writer' = [writer EXCEPT ![w] = [at |-> "polling", event |-> None,
                                      status |-> status,
                                      captured |-> captured]]
  /\ UNCHANGED <<payment, ops, call, claims, taken, mishaps, applied, raised>>

PollWrites(w, s) ==
  /\ writer[w].at = "polling"
  /\ WriteReported(w, s)
  /\ writer' = [writer EXCEPT ![w] = Resting]
  /\ UNCHANGED <<ops, call, claims, taken, mishaps, applied>>

\* The provider cannot be reached; the poll goes on with the next payment.
PollFails(w) ==
  /\ writer[w].at = "polling"
  /\ writer' = [writer EXCEPT ![w] = Resting]
  /\ UNCHANGED <<payment, ops, call, claims, taken, mishaps, applied, raised>>

-----------------------------------------------------------------------------
CallerStep(c) ==
  \/ \E o \in OpIds, a \in Actions, n \in Amounts : Begin(c, o, a, n)
  \/ InsertOperation(c) \/ ReclaimOperation(c) \/ EndWithoutClaim(c)
  \/ ReuseReservation(c) \/ ReserveCaptureAmount(c) \/ ReserveConflict(c)
  \/ ProviderActs(c) \/ AnswerArrives(c) \/ CallRefused(c) \/ AnswerLost(c)
  \/ CompleteOperation(c) \/ CommitOperation(c) \/ CommitFails(c)
  \/ ReleaseCaptureAmount(c) \/ KeepReservation(c) \/ FailOperation(c)
  \/ CallerDies(c)

WriterStep(w) ==
  \/ \E e \in Events : ClaimWebhook(w, e)
  \/ SyncReads(w) \/ SyncWrites(w) \/ WebhookEnds(w) \/ WebhookThrows(w)
  \/ AdapterMissing(w) \/ WebhookDies(w)
  \/ PollReads(w) \/ PollFails(w)
  \/ \E s \in Polled : PollWrites(w, s)

Next ==
  \/ \E c \in Callers : CallerStep(c)
  \/ \E w \in Writers : WriterStep(w)
  \/ \E o \in OpIds : LeaseExpires(o)

Spec == Init /\ [][Next]_vars

-----------------------------------------------------------------------------
(* Properties.                                                             *)

\* What an operation has a claim to in the ledger: what it captured, or what
\* it has reserved while that is not known.
Owed(o) == IF ops[o].state = "succeeded" THEN taken[o] ELSE ops[o].reserved

\* What makes a webhook job leave the row of an event it has not handled.
LeftBehind == {"crash", "unregistered", "unreleased"}

\* What the ledger and the single live attempt rest on: no call outlasts its
\* lease, every answer arrives, retries get through, the provider takes what
\* it is asked.  Processes of calls may die, and webhook jobs may leave their
\* rows behind.
Undisturbed == mishaps \subseteq {"death", "crash", "unregistered", "unreleased"}

\* Undisturbed, no operation has taken money that nothing is reserved for, at
\* no moment of its attempts, retries and deaths included, and the ledger never
\* passes the authorization.
TakenIsReserved ==
  Undisturbed =>
    /\ \A o \in OpIds : taken[o] <= Owed(o)
    /\ captured <= Authorized

\* Undisturbed, the ledger holds what every operation has a claim to; without a
\* report from outside it holds nothing else: no reservation is lost and none
\* leaks.
LedgerCoversCaptures ==
  Undisturbed =>
    /\ Total([o \in OpIds |-> Owed(o)]) <= captured
    /\ ~raised => Total([o \in OpIds |-> Owed(o)]) = captured

Working == {"claimed", "asked", "taken", "answered", "committing", "failing",
            "released"}

\* As long as no call outlasts its lease, no two of them work on one operation
\* at the same time, however often it is sent, fails or dies.
OneLiveAttempt ==
  "slow" \notin mishaps =>
    \A c, d \in Callers :
      (/\ call[c].op = call[d].op
       /\ call[c].at \in Working
       /\ call[d].at \in Working) => c = d

\* An operation that has succeeded stays so, with the result its replays
\* return, whatever late attempts, expired leases and failures follow.
SettledForGood ==
  [][\A o \in OpIds : ops[o].state = "succeeded" =>
       ops'[o].state = "succeeded" /\ ops'[o].result = ops[o].result]_vars

\* An event with a row has been written to the payment or one run, and only
\* one, is about to: no error of the processing lets an event be skipped.
\* Only as long as no run dies, finds no adapter, or fails and then fails to
\* give its claim back too: each of these leaves its row behind, and the event
\* is skipped for good.
ClaimedIsHandled ==
  /\ mishaps \cap LeftBehind = {} => \A e \in claims :
       e \in applied \/ \E w \in Writers : writer[w].event = e
  /\ \A v, w \in Writers :
       writer[v].event = writer[w].event /\ writer[v].event # None => v = w

-----------------------------------------------------------------------------
(* The ledger and the rows keep the promise of CapturePromise.             *)

Reservations == [o \in OpIds |-> ops[o].reserved]

Promise == INSTANCE CapturePromise
             WITH Operations <- OpIds, free <- Authorized - captured,
                  slice <- Reservations,
                  settled <- {o \in OpIds : ops[o].state = "succeeded"}

\* As long as it is undisturbed, every step of the calls, retries, deaths and
\* reports is a step of the promise or leaves it unchanged: no slice is set
\* aside that the authorization has no room for, none is given back that money
\* was taken of, none is taken twice, in part or without having been set aside.
KeepsCapturePromise ==
  Promise!Init /\ [][Undisturbed' => Promise!Next]_(Promise!vars)

-----------------------------------------------------------------------------
\* "Make it impossible for repeated partial captures to add up past the
\* authorized amount": the money taken stays within the authorization.
CapturesWithinAuthorized == MoneyTaken <= Authorized
=============================================================================
