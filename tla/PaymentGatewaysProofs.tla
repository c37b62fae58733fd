------------------------ MODULE PaymentGatewaysProofs ------------------------
(***************************************************************************)
(* Theorems about a payment at a gateway, for any number of calls,         *)
(* operations, webhooks and mishaps: the domains of its rows, one live     *)
(* attempt per operation, operations settled for good, webhook events that *)
(* are not skipped, the ledger as the sum of what the operations have a    *)
(* claim to, and the promise of the captures.                              *)
(***************************************************************************)
EXTENDS PaymentGateways, FiniteSetTheorems, FunctionTheorems, TLAPS

-----------------------------------------------------------------------------
(* The status machine.                                                     *)

LEMMA MovesStayInStatuses ==
  ASSUME NEW from \in Statuses, NEW to, ValidTransition(from, to)
  PROVE  to \in Statuses
BY DEF ValidTransition, Moves, Statuses

LEMMA TargetsAreStatuses ==
  ASSUME NEW a \in ManualActions
  PROVE  Targets[a] \subseteq Statuses
BY DEF ManualActions, Targets, Statuses

-----------------------------------------------------------------------------
(* Calls and rows.                                                         *)

Underway == Working \cup {"read"}

\* What a call holds, against the rows of the operations: it works on an
\* operation, and when it comes to the reservation the row is of its request.
CallOK(x, rows) ==
  /\ x.at \in Underway => x.op \in OpIds /\ x.action \in ManualActions
  /\ x.at = "claimed" =>
       /\ rows[x.op].state # None
       /\ rows[x.op].amount = x.amount
       /\ x.held # Nothing /\ x.amount # Omitted => x.held = x.amount
  /\ x.at \in {"answered", "committing"} => x.answer \in Statuses
  /\ x.at = "committing" => x.status \in Statuses

CallsOK == \A c \in Callers : CallOK(call[c], ops)

\* A reservation is of the amount asked for, if one was.
RowsOK ==
  \A o \in OpIds : ops[o].reserved # Nothing /\ ops[o].amount # Omitted =>
    ops[o].reserved = ops[o].amount

WriterOK(y) ==
  /\ y.at \in {"read", "polling"} => y.status \in Statuses
  /\ y.at \in {"claimed", "read", "written"} => y.event \in Events
  /\ y.at \in {"idle", "polling"} => y.event = None

WritersOK == \A w \in Writers : WriterOK(writer[w])

PayTypes == TypeOK /\ CallsOK /\ RowsOK /\ WritersOK

\* A row keeps its request.
RowsKept ==
  \A o \in OpIds : ops[o].state # None =>
    ops'[o].state # None /\ ops'[o].amount = ops[o].amount

LEMMA OneCallChanges ==
  ASSUME TypeOK, CallsOK, NEW c \in Callers, NEW x \in Call,
         call' = [call EXCEPT ![c] = x], RowsKept, CallOK(x, ops')
  PROVE  call' \in [Callers -> Call] /\ CallsOK'
<1>1. call \in [Callers -> Call]
  BY DEF TypeOK
<1>2. call' \in [Callers -> Call]
  BY <1>1
<1>3. call'[c] = x /\ \A k \in Callers : k # c => call'[k] = call[k]
  BY <1>1
<1>4. ASSUME NEW k \in Callers, k # c
      PROVE  CallOK(call'[k], ops')
  BY <1>3, <1>4 DEF CallsOK, CallOK, RowsKept, Underway, Working
<1> QED
  BY <1>2, <1>3, <1>4 DEF CallsOK

LEMMA OneRowChanges ==
  ASSUME TypeOK, RowsOK, NEW o \in OpIds, NEW row \in Operation,
         ops' = [ops EXCEPT ![o] = row],
         ops[o].state # None => row.state # None /\ row.amount = ops[o].amount,
         row.reserved # Nothing /\ row.amount # Omitted => row.reserved = row.amount
  PROVE  ops' \in [OpIds -> Operation] /\ RowsOK' /\ RowsKept
<1>1. ops \in [OpIds -> Operation]
  BY DEF TypeOK
<1>2. ops' \in [OpIds -> Operation] /\ ops'[o] = row
      /\ \A q \in OpIds : q # o => ops'[q] = ops[q]
  BY <1>1
<1> QED
  BY <1>2 DEF RowsOK, RowsKept

LEMMA NoRowChanges ==
  ASSUME TypeOK, RowsOK, ops' = ops
  PROVE  ops' \in [OpIds -> Operation] /\ RowsOK' /\ RowsKept
BY DEF TypeOK, RowsOK, RowsKept

LEMMA HappensType ==
  ASSUME TypeOK, NEW k, Happens(k)
  PROVE  mishaps' \subseteq Mishaps /\ mishaps \subseteq mishaps' /\ k \in mishaps'
BY DEF TypeOK, Happens

LEMMA HappensIfType ==
  ASSUME TypeOK, NEW p, NEW k, HappensIf(p, k)
  PROVE  mishaps' \subseteq Mishaps /\ mishaps \subseteq mishaps'
BY DEF TypeOK, Happens, HappensIf

LEMMA UnitsType ==
  /\ Authorized \in Nat \ {0} /\ Units \subseteq Nat /\ Nothing \in Units
  /\ Amounts \cup {Omitted} \subseteq Nat
BY GatewayAssumption DEF Units, Nothing, Omitted

LEMMA FixedCallsType ==
  /\ Idle \in Call /\ Ended \in Call /\ Dead \in Call
  /\ Idle.at = "idle" /\ Ended.at = "done" /\ Dead.at = "dead"
BY UnitsType DEF Idle, Ended, Dead, Call, Stages

LEMMA EndedCallOK ==
  ASSUME NEW rows
  PROVE  CallOK(Idle, rows) /\ CallOK(Ended, rows) /\ CallOK(Dead, rows)
BY FixedCallsType DEF CallOK, Underway, Working

\* A step of a call that only moves it on.
LEMMA CallMovesOn ==
  ASSUME PayTypes, NEW c \in Callers, call[c].at \in Underway,
         NEW to \in {"failing", "released", "taken"},
         call' = [call EXCEPT ![c].at = to], RowsKept
  PROVE  call' \in [Callers -> Call] /\ CallsOK'
<1> DEFINE x == [call[c] EXCEPT !.at = to]
<1>1. call[c] \in Call /\ CallOK(call[c], ops)
  BY DEF PayTypes, TypeOK, CallsOK
<1>2. x \in Call
  BY <1>1 DEF Call, Stages
<1>3. CallOK(x, ops')
  BY <1>1 DEF CallOK, Call, Underway, Working
<1>4. call' = [call EXCEPT ![c] = x]
  OBVIOUS
<1> HIDE DEF x
<1> QED
  BY <1>2, <1>3, <1>4, OneCallChanges DEF PayTypes

LEMMA CallEnds ==
  ASSUME PayTypes, NEW c \in Callers, NEW x \in {Ended, Dead},
         call' = [call EXCEPT ![c] = x], RowsKept
  PROVE  call' \in [Callers -> Call] /\ CallsOK'
BY FixedCallsType, EndedCallOK, OneCallChanges DEF PayTypes

LEMMA PayInitTypes == Init => PayTypes
<1> SUFFICES ASSUME Init PROVE PayTypes
  OBVIOUS
<1> USE GatewayAssumption DEF Init
<1>1. NoOperation \in Operation
  BY UnitsType DEF NoOperation, Operation
<1>2. Resting \in Writer
  BY DEF Resting, Writer
<1>3. captured \in Nat
  BY UnitsType
<1>4. TypeOK
  BY <1>1, <1>2, <1>3, FixedCallsType, UnitsType DEF TypeOK, Statuses
<1>5. CallsOK
  BY EndedCallOK DEF CallsOK
<1>6. RowsOK /\ WritersOK
  BY DEF RowsOK, WritersOK, WriterOK, NoOperation, Resting
<1> QED
  BY <1>4, <1>5, <1>6 DEF PayTypes

-----------------------------------------------------------------------------
(* Steps of the calls.                                                     *)

\* What a step of a call must show; it leaves the writers alone.
LEMMA CallerStepTypes ==
  ASSUME PayTypes, UNCHANGED <<writer, claims, applied, raised>>,
         status' \in Statuses, captured' \in Nat,
         ops' \in [OpIds -> Operation] /\ RowsOK',
         call' \in [Callers -> Call] /\ CallsOK',
         taken' \in [OpIds -> Units], mishaps' \subseteq Mishaps
  PROVE  PayTypes'
BY DEF PayTypes, TypeOK, WritersOK

LEMMA BeginTypes ==
  ASSUME PayTypes, NEW c \in Callers, NEW o \in OpIds, NEW a \in Actions,
         NEW n \in Amounts, Begin(c, o, a, n)
  PROVE  PayTypes'
<1> DEFINE x == [Idle EXCEPT !.at = "read", !.op = o, !.action = a,
                             !.amount = n, !.status = status,
                             !.captured = captured]
<1>1. x \in Call /\ x.at = "read" /\ x.op = o /\ x.action = a
  BY UnitsType, GatewayAssumption
     DEF PayTypes, TypeOK, Idle, Call, Stages
<1>2. CallOK(x, ops')
  BY <1>1, GatewayAssumption DEF CallOK, Underway, Working
<1>3. call' = [call EXCEPT ![c] = x]
  BY DEF Begin
<1> HIDE DEF x
<1>4. ops' = ops /\ UNCHANGED <<payment, writer, claims, taken, mishaps, applied, raised>>
  BY DEF Begin
<1>5. ops' \in [OpIds -> Operation] /\ RowsOK' /\ RowsKept
  BY <1>4, NoRowChanges DEF PayTypes
<1>6. call' \in [Callers -> Call] /\ CallsOK'
  BY <1>1, <1>2, <1>3, <1>5, OneCallChanges DEF PayTypes
<1> QED
  BY <1>4, <1>5, <1>6, CallerStepTypes DEF PayTypes, TypeOK, payment

\* What a call is told after its claim.
LEMMA AfterClaimTypes ==
  ASSUME PayTypes, NEW c \in Callers, call[c].at = "read",
         NEW h \in Units, NEW rows, rows[call[c].op].state # None,
         rows[call[c].op].amount = call[c].amount,
         h # Nothing /\ call[c].amount # Omitted => h = call[c].amount
  PROVE  AfterClaim(c, h) \in Call /\ CallOK(AfterClaim(c, h), rows)
<1>1. call[c] \in Call /\ CallOK(call[c], ops)
  BY DEF PayTypes, TypeOK, CallsOK
<1>2. call[c].op \in OpIds /\ call[c].action \in ManualActions
  BY <1>1 DEF CallOK, Underway
<1>3. CASE call[c].action = "capture"
  <2> DEFINE x == [call[c] EXCEPT !.at = "claimed", !.held = h]
  <2>1. x \in Call /\ x.at = "claimed" /\ x.held = h /\ x.op = call[c].op
        /\ x.action = call[c].action /\ x.amount = call[c].amount
    BY <1>1 DEF Call, Stages
  <2>2. AfterClaim(c, h) = x
    BY <1>3 DEF AfterClaim
  <2> HIDE DEF x
  <2>3. CallOK(x, rows)
    BY <1>2, <2>1 DEF CallOK
  <2> QED
    BY <2>1, <2>2, <2>3
<1>4. CASE call[c].action # "capture"
  <2> DEFINE x == Asking(c, Nothing, Nothing)
  <2>1. x \in Call /\ x.at = "asked" /\ x.op = call[c].op
        /\ x.action = call[c].action
    BY <1>2, UnitsType DEF Asking, Idle, Call, Stages
  <2>2. AfterClaim(c, h) = x
    BY <1>4 DEF AfterClaim
  <2> HIDE DEF x
  <2>3. CallOK(x, rows)
    BY <1>2, <2>1 DEF CallOK
  <2> QED
    BY <2>1, <2>2, <2>3
<1> QED
  BY <1>3, <1>4

LEMMA InsertTypes ==
  ASSUME PayTypes, NEW c \in Callers, InsertOperation(c)
  PROVE  PayTypes'
<1> DEFINE o   == call[c].op
           row == [NoOperation EXCEPT !.state = "in_progress", !.token = c,
                                      !.action = call[c].action,
                                      !.amount = call[c].amount]
           x   == AfterClaim(c, Nothing)
<1>1. call[c] \in Call /\ call[c].at = "read" /\ o \in OpIds
      /\ call[c].action \in ManualActions
  BY DEF InsertOperation, PayTypes, TypeOK, CallsOK, CallOK, Underway
<1>2. row \in Operation /\ row.state = "in_progress" /\ row.amount = call[c].amount
      /\ row.reserved = Nothing
  BY <1>1, UnitsType DEF NoOperation, Operation, Call
<1>3. ops' = [ops EXCEPT ![o] = row] /\ ops[o].state = None
      /\ call' = [call EXCEPT ![c] = x]
      /\ UNCHANGED <<payment, writer, claims, taken, mishaps, applied, raised>>
  BY DEF InsertOperation
<1> HIDE DEF row
<1>4. ops' \in [OpIds -> Operation] /\ RowsOK' /\ RowsKept
  BY <1>1, <1>2, <1>3, OneRowChanges DEF PayTypes
<1>5. ops'[o] = row
  BY <1>1, <1>3 DEF PayTypes, TypeOK
<1>6. x \in Call /\ CallOK(x, ops')
  BY <1>1, <1>2, <1>5, UnitsType, AfterClaimTypes DEF None
<1> HIDE DEF x, o
<1>7. call' \in [Callers -> Call] /\ CallsOK'
  BY <1>3, <1>4, <1>6, OneCallChanges DEF PayTypes
<1> QED
  BY <1>3, <1>4, <1>7, CallerStepTypes DEF PayTypes, TypeOK, payment

LEMMA ReclaimTypes ==
  ASSUME PayTypes, NEW c \in Callers, ReclaimOperation(c)
  PROVE  PayTypes'
<1> DEFINE o   == call[c].op
           row == [ops[o] EXCEPT !.state = "in_progress", !.token = c,
                                 !.expired = FALSE]
           x   == AfterClaim(c, ops[o].reserved)
<1>1. call[c] \in Call /\ call[c].at = "read" /\ o \in OpIds
      /\ ops[o] \in Operation
  BY DEF ReclaimOperation, PayTypes, TypeOK, CallsOK, CallOK, Underway
<1>2. row \in Operation /\ row.state = "in_progress" /\ row.amount = ops[o].amount
      /\ row.reserved = ops[o].reserved
  BY <1>1 DEF Operation
<1>3. ops' = [ops EXCEPT ![o] = row] /\ ops[o].amount = call[c].amount
      /\ call' = [call EXCEPT ![c] = x]
      /\ UNCHANGED <<payment, writer, claims, taken, applied, raised>>
  BY <1>1 DEF ReclaimOperation, SameRequest, PayTypes, TypeOK
<1> HIDE DEF row
<1>4. ops' \in [OpIds -> Operation] /\ RowsOK' /\ RowsKept
  BY <1>1, <1>2, <1>3, OneRowChanges DEF PayTypes, RowsOK, None
<1>5. ops'[o] = row
  BY <1>1, <1>3 DEF PayTypes, TypeOK
<1>6. ops[o].reserved \in Units
  BY <1>1 DEF Operation
<1>7. x \in Call /\ CallOK(x, ops')
  BY <1>1, <1>2, <1>3, <1>5, <1>6, AfterClaimTypes DEF None, PayTypes, RowsOK
<1>8. mishaps' \subseteq Mishaps
  BY HappensIfType DEF ReclaimOperation, PayTypes
<1> HIDE DEF x, o
<1>9. call' \in [Callers -> Call] /\ CallsOK'
  BY <1>3, <1>4, <1>7, OneCallChanges DEF PayTypes
<1> QED
  BY <1>3, <1>4, <1>8, <1>9, CallerStepTypes DEF PayTypes, TypeOK, payment

\* Steps that only move a call on, or end it.
LEMMA MovingStepTypes ==
  ASSUME PayTypes, NEW c \in Callers, call[c].at \in Underway,
         NEW to \in {"failing", "released", "taken"},
         call' = [call EXCEPT ![c].at = to],
         UNCHANGED <<payment, ops, writer, claims, applied, raised>>,
         taken' \in [OpIds -> Units], mishaps' \subseteq Mishaps
  PROVE  PayTypes'
<1>1. ops' \in [OpIds -> Operation] /\ RowsOK' /\ RowsKept
  BY NoRowChanges DEF PayTypes
<1>2. call' \in [Callers -> Call] /\ CallsOK'
  BY <1>1, CallMovesOn
<1> QED
  BY <1>1, <1>2, CallerStepTypes DEF PayTypes, TypeOK, payment

LEMMA EndingStepTypes ==
  ASSUME PayTypes, NEW c \in Callers, NEW x \in {Ended, Dead},
         call' = [call EXCEPT ![c] = x],
         UNCHANGED <<payment, ops, writer, claims, taken, applied, raised>>,
         mishaps' \subseteq Mishaps
  PROVE  PayTypes'
<1>1. ops' \in [OpIds -> Operation] /\ RowsOK' /\ RowsKept
  BY NoRowChanges DEF PayTypes
<1>2. call' \in [Callers -> Call] /\ CallsOK'
  BY <1>1, CallEnds
<1> QED
  BY <1>1, <1>2, CallerStepTypes DEF PayTypes, TypeOK, payment

LEMMA LeaseTypes ==
  ASSUME PayTypes, NEW o \in OpIds, LeaseExpires(o)
  PROVE  PayTypes'
<1> DEFINE row == [ops[o] EXCEPT !.expired = TRUE]
<1>1. ops[o] \in Operation
  BY DEF PayTypes, TypeOK
<1>2. row \in Operation /\ row.state = ops[o].state /\ row.amount = ops[o].amount
      /\ row.reserved = ops[o].reserved
  BY <1>1 DEF Operation
<1>3. ops' = [ops EXCEPT ![o] = row]
      /\ UNCHANGED <<payment, call, writer, claims, taken, applied, raised>>
  BY DEF LeaseExpires
<1> HIDE DEF row
<1>4. ops' \in [OpIds -> Operation] /\ RowsOK' /\ RowsKept
  BY <1>2, <1>3, OneRowChanges DEF PayTypes, RowsOK
<1>5. CallsOK'
  BY <1>3, <1>4 DEF PayTypes, CallsOK, CallOK, RowsKept, Underway, Working
<1>6. mishaps' \subseteq Mishaps
  BY HappensIfType DEF LeaseExpires, PayTypes
<1> QED
  BY <1>3, <1>4, <1>5, <1>6, CallerStepTypes DEF PayTypes, TypeOK, payment

\* A call that starts to ask the provider.
LEMMA AskingTypes ==
  ASSUME PayTypes, NEW c \in Callers, call[c].at \in Underway,
         NEW h \in Units, NEW n \in Units, NEW rows
  PROVE  Asking(c, h, n) \in Call /\ CallOK(Asking(c, h, n), rows)
<1> DEFINE x == Asking(c, h, n)
<1>1. call[c].op \in OpIds /\ call[c].action \in ManualActions
  BY DEF PayTypes, CallsOK, CallOK
<1>2. x \in Call /\ x.at = "asked" /\ x.op = call[c].op
      /\ x.action = call[c].action
  BY <1>1, UnitsType DEF Asking, Idle, Call, Stages
<1> HIDE DEF x
<1>3. CallOK(x, rows)
  BY <1>1, <1>2 DEF CallOK
<1> QED
  BY <1>2, <1>3 DEF x

LEMMA ReuseTypes ==
  ASSUME PayTypes, NEW c \in Callers, ReuseReservation(c)
  PROVE  PayTypes'
<1> DEFINE h == call[c].held
           n == ProviderAmount(c, h)
           x == Asking(c, h, n)
<1>1. call[c] \in Call /\ call[c].at = "claimed" /\ CallOK(call[c], ops)
      /\ call[c].held # Nothing
  BY DEF ReuseReservation, PayTypes, TypeOK, CallsOK
<1>2. h \in Units /\ (call[c].amount # Omitted => call[c].amount = h)
  BY <1>1 DEF CallOK, Call
<1>3. Authorized \in Units
  BY UnitsType DEF Units
<1>4. n \in Units
  BY <1>2, <1>3 DEF ProviderAmount
<1>5. call' = [call EXCEPT ![c] = x]
      /\ UNCHANGED <<payment, ops, writer, claims, taken, mishaps, applied, raised>>
  BY DEF ReuseReservation
<1> HIDE DEF h, n
<1>6. x \in Call /\ CallOK(x, ops')
  BY <1>1, <1>2, <1>4, AskingTypes DEF Underway, Working
<1> HIDE DEF x
<1>7. ops' \in [OpIds -> Operation] /\ RowsOK' /\ RowsKept
  BY <1>5, NoRowChanges DEF PayTypes
<1>8. call' \in [Callers -> Call] /\ CallsOK'
  BY <1>5, <1>6, <1>7, OneCallChanges DEF PayTypes
<1> QED
  BY <1>5, <1>7, <1>8, CallerStepTypes DEF PayTypes, TypeOK, payment

LEMMA ReserveTypes ==
  ASSUME PayTypes, NEW c \in Callers, ReserveCaptureAmount(c)
  PROVE  PayTypes'
<1> DEFINE o   == call[c].op
           u   == Requested(c)
           n   == ProviderAmount(c, u)
           row == [ops[o] EXCEPT !.reserved = u]
           x   == Asking(c, u, n)
<1>1. call[c] \in Call /\ call[c].at = "claimed" /\ CallOK(call[c], ops)
      /\ o \in OpIds /\ ops[o] \in Operation
  BY DEF ReserveCaptureAmount, PayTypes, TypeOK, CallsOK, CallOK, Underway, Working
<1>2. ops[o].state # None /\ ops[o].amount = call[c].amount
  BY <1>1 DEF CallOK
<1>3. call[c].amount \in Nat /\ call[c].captured \in Nat /\ Authorized \in Nat
  BY <1>1, UnitsType DEF Call
<1>4. u > 0 /\ u <= Authorized - call[c].captured
      /\ (call[c].amount # Omitted => call[c].amount = u) /\ u \in Int
  BY <1>3 DEF ReserveCaptureAmount, CanReserve, WithinRemaining, Requested
<1> HIDE DEF u
<1>5. u \in Units /\ Authorized \in Units
  BY <1>3, <1>4 DEF Units
<1>6. n \in Units
  BY <1>4, <1>5 DEF ProviderAmount
<1>7. row \in Operation /\ row.state = ops[o].state /\ row.amount = ops[o].amount
      /\ row.reserved = u
  BY <1>1, <1>5 DEF Operation
<1>8. ops' = [ops EXCEPT ![o] = row] /\ call' = [call EXCEPT ![c] = x]
      /\ captured' = call[c].captured + u
      /\ UNCHANGED <<status, writer, claims, taken, mishaps, applied, raised>>
  BY DEF ReserveCaptureAmount, u
<1>9. captured' \in Nat
  BY <1>3, <1>4, <1>8
<1> HIDE DEF row, n
<1>10. x \in Call /\ CallOK(x, ops')
  BY <1>1, <1>5, <1>6, AskingTypes DEF Underway, Working
<1>11. ops' \in [OpIds -> Operation] /\ RowsOK' /\ RowsKept
  BY <1>1, <1>2, <1>4, <1>7, <1>8, OneRowChanges DEF PayTypes
<1> HIDE DEF x, o
<1>12. call' \in [Callers -> Call] /\ CallsOK'
  BY <1>8, <1>10, <1>11, OneCallChanges DEF PayTypes
<1> QED
  BY <1>8, <1>9, <1>11, <1>12, CallerStepTypes DEF PayTypes, TypeOK

LEMMA ProviderTypes ==
  ASSUME PayTypes, NEW c \in Callers, ProviderActs(c)
  PROVE  PayTypes'
<1>1. call[c] \in Call /\ call[c].at \in Underway /\ call[c].op \in OpIds
  BY DEF ProviderActs, PayTypes, TypeOK, CallsOK, CallOK, Underway, Working
<1>2. call' = [call EXCEPT ![c].at = "taken"]
      /\ UNCHANGED <<payment, ops, writer, claims, applied, raised>>
  BY DEF ProviderActs
<1>3. taken' \in [OpIds -> Units] /\ mishaps' \subseteq Mishaps
  <2>1. CASE call[c].action = "capture" /\ taken[call[c].op] = Nothing
    <3>1. PICK u \in 1..call[c].asks :
            /\ HappensIf(u < call[c].asks, "short")
            /\ taken' = [taken EXCEPT ![call[c].op] = u]
      BY <2>1 DEF ProviderActs
    <3>2. call[c].asks \in Units /\ Authorized \in Nat
      BY <1>1, UnitsType DEF Call
    <3>3. u \in Units
      BY <3>2 DEF Units
    <3> QED
      BY <1>1, <3>1, <3>3, HappensIfType DEF PayTypes, TypeOK
  <2>2. CASE ~(call[c].action = "capture" /\ taken[call[c].op] = Nothing)
    BY <2>2 DEF ProviderActs, PayTypes, TypeOK
  <2> QED
    BY <2>1, <2>2
<1> QED
  BY <1>1, <1>2, <1>3, MovingStepTypes

LEMMA AnswerTypes ==
  ASSUME PayTypes, NEW c \in Callers, AnswerArrives(c)
  PROVE  PayTypes'
<1>1. call[c] \in Call /\ call[c].op \in OpIds /\ call[c].action \in ManualActions
  BY DEF AnswerArrives, PayTypes, TypeOK, CallsOK, CallOK, Underway, Working
<1>2. PICK s \in Answers(c) :
        call' = [call EXCEPT ![c].at = "answered", ![c].invoked = TRUE,
                             ![c].answer = s]
  BY DEF AnswerArrives
<1> DEFINE x == [call[c] EXCEPT !.at = "answered", !.invoked = TRUE,
                                !.answer = s]
<1>3. s \in Statuses
  BY <1>1, TargetsAreStatuses DEF Answers, Statuses
<1>4. x \in Call /\ x.at = "answered" /\ x.op = call[c].op
      /\ x.action = call[c].action /\ x.answer = s
  BY <1>1, <1>3 DEF Call, Stages
<1>5. call' = [call EXCEPT ![c] = x]
  BY <1>2
<1>6. UNCHANGED <<payment, ops, writer, claims, taken, mishaps, applied, raised>>
  BY DEF AnswerArrives
<1> HIDE DEF x
<1>7. CallOK(x, ops')
  BY <1>1, <1>3, <1>4 DEF CallOK
<1>8. ops' \in [OpIds -> Operation] /\ RowsOK' /\ RowsKept
  BY <1>6, NoRowChanges DEF PayTypes
<1>9. call' \in [Callers -> Call] /\ CallsOK'
  BY <1>4, <1>5, <1>7, <1>8, OneCallChanges DEF PayTypes
<1> QED
  BY <1>6, <1>8, <1>9, CallerStepTypes DEF PayTypes, TypeOK, payment

LEMMA CompleteTypes ==
  ASSUME PayTypes, NEW c \in Callers, CompleteOperation(c)
  PROVE  PayTypes'
<1> DEFINE to == IF HoldsClaim(c) /\ ResultAllowed(status, call[c].answer)
                 THEN "committing" ELSE "failing"
           x  == [call[c] EXCEPT !.at = to, !.status = status,
                                 !.captured = captured]
<1>1. call[c] \in Call /\ call[c].at = "answered" /\ CallOK(call[c], ops)
      /\ status \in Statuses /\ captured \in Nat
  BY DEF CompleteOperation, PayTypes, TypeOK, CallsOK
<1>2. call' = [call EXCEPT ![c] = x]
      /\ UNCHANGED <<payment, ops, writer, claims, taken, mishaps, applied, raised>>
  BY DEF CompleteOperation
<1>3. to \in {"committing", "failing"}
  OBVIOUS
<1> HIDE DEF to
<1>4. x \in Call /\ x.at = to /\ x.op = call[c].op /\ x.action = call[c].action
      /\ x.answer = call[c].answer /\ x.status = status
  BY <1>1, <1>3 DEF Call, Stages
<1> HIDE DEF x
<1>5. CallOK(x, ops')
  BY <1>1, <1>3, <1>4 DEF CallOK, Underway, Working
<1>6. ops' \in [OpIds -> Operation] /\ RowsOK' /\ RowsKept
  BY <1>2, NoRowChanges DEF PayTypes
<1>7. call' \in [Callers -> Call] /\ CallsOK'
  BY <1>2, <1>4, <1>5, <1>6, OneCallChanges DEF PayTypes
<1> QED
  BY <1>2, <1>6, <1>7, CallerStepTypes DEF PayTypes, TypeOK, payment

LEMMA CommitTypes ==
  ASSUME PayTypes, NEW c \in Callers, CommitOperation(c)
  PROVE  PayTypes'
<1> DEFINE o   == call[c].op
           row == [ops[o] EXCEPT !.state = "succeeded", !.result = call[c].answer,
                                 !.expired = FALSE]
           s   == AfterResult(call[c].status, call[c].answer)
           n   == Settled(c)
<1>1. call[c] \in Call /\ o \in OpIds /\ ops[o] \in Operation
      /\ taken[o] \in Units /\ call[c].answer \in Statuses
      /\ call[c].status \in Statuses
  BY DEF CommitOperation, PayTypes, TypeOK, CallsOK, CallOK, Underway, Working
<1>2. s \in Statuses
  BY <1>1 DEF AfterResult
<1>3. call[c].captured \in Nat /\ call[c].held \in Nat /\ taken[o] \in Nat
  BY <1>1, UnitsType DEF Call
<1>4. n \in Nat
  BY <1>3 DEF Settled
<1>5. row \in Operation /\ row.state = "succeeded" /\ row.amount = ops[o].amount
      /\ row.reserved = ops[o].reserved
  BY <1>1 DEF Operation
<1> HIDE DEF n, s
<1>6. ops' = [ops EXCEPT ![o] = row]
  BY DEF CommitOperation
<1>7. status' \in Statuses /\ captured' \in Nat
  BY <1>2, <1>4 DEF CommitOperation, PayTypes, TypeOK, n, s
<1>8. call' = [call EXCEPT ![c] = Ended]
      /\ UNCHANGED <<writer, claims, taken, mishaps, applied, raised>>
  BY DEF CommitOperation
<1> HIDE DEF row
<1>9. ops' \in [OpIds -> Operation] /\ RowsOK' /\ RowsKept
  BY <1>1, <1>5, <1>6, OneRowChanges DEF PayTypes, RowsOK, None
<1>10. call' \in [Callers -> Call] /\ CallsOK'
  BY <1>8, <1>9, CallEnds
<1> QED
  BY <1>7, <1>8, <1>9, <1>10, CallerStepTypes DEF PayTypes, TypeOK

LEMMA ReleaseTypes ==
  ASSUME PayTypes, NEW c \in Callers, ReleaseCaptureAmount(c)
  PROVE  PayTypes'
<1> DEFINE o   == call[c].op
           row == [ops[o] EXCEPT !.reserved = Nothing]
<1>1. call[c] \in Call /\ o \in OpIds /\ ops[o] \in Operation
      /\ call[c].at \in Underway /\ captured \in Nat
  BY DEF ReleaseCaptureAmount, PayTypes, TypeOK, CallsOK, CallOK, Underway, Working
<1>2. call[c].held \in Nat
  BY <1>1, UnitsType DEF Call
<1>3. captured' \in Nat
  BY <1>1, <1>2 DEF ReleaseCaptureAmount
<1>4. row \in Operation /\ row.state = ops[o].state /\ row.amount = ops[o].amount
      /\ row.reserved = Nothing
  BY <1>1, UnitsType DEF Operation
<1>5. ops' = [ops EXCEPT ![o] = row] /\ call' = [call EXCEPT ![c].at = "released"]
      /\ UNCHANGED <<status, writer, claims, taken, mishaps, applied, raised>>
  BY DEF ReleaseCaptureAmount
<1> HIDE DEF row
<1>6. ops' \in [OpIds -> Operation] /\ RowsOK' /\ RowsKept
  BY <1>1, <1>4, <1>5, OneRowChanges DEF PayTypes
<1>7. call' \in [Callers -> Call] /\ CallsOK'
  BY <1>1, <1>5, <1>6, CallMovesOn
<1> QED
  BY <1>3, <1>5, <1>6, <1>7, CallerStepTypes DEF PayTypes, TypeOK

LEMMA FailTypes ==
  ASSUME PayTypes, NEW c \in Callers, FailOperation(c)
  PROVE  PayTypes'
<1> DEFINE o   == call[c].op
           row == [ops[o] EXCEPT !.state = "failed", !.expired = FALSE]
<1>1. o \in OpIds /\ ops[o] \in Operation
  BY DEF FailOperation, PayTypes, TypeOK, CallsOK, CallOK, Underway, Working
<1>2. row \in Operation /\ row.state = "failed" /\ row.amount = ops[o].amount
      /\ row.reserved = ops[o].reserved
  BY <1>1 DEF Operation
<1>3. ops' = ops \/ ops' = [ops EXCEPT ![o] = row]
  BY DEF FailOperation
<1>4. call' = [call EXCEPT ![c] = Ended]
      /\ UNCHANGED <<payment, writer, claims, taken, mishaps, applied, raised>>
  BY DEF FailOperation
<1> HIDE DEF row
<1>5. CASE ops' = ops
  BY <1>5, NoRowChanges, <1>4, CallEnds, CallerStepTypes DEF PayTypes, TypeOK, payment
<1>6. CASE ops' = [ops EXCEPT ![o] = row]
  <2>1. ops' \in [OpIds -> Operation] /\ RowsOK' /\ RowsKept
    BY <1>1, <1>2, <1>6, OneRowChanges DEF PayTypes, RowsOK, None
  <2>2. call' \in [Callers -> Call] /\ CallsOK'
    BY <1>4, <2>1, CallEnds
  <2> QED
    BY <1>4, <2>1, <2>2, CallerStepTypes DEF PayTypes, TypeOK, payment
<1> QED
  BY <1>3, <1>5, <1>6

\* The other steps of a call only move it on or end it.
LEMMA OtherCallTypes ==
  ASSUME PayTypes, NEW c \in Callers,
         \/ EndWithoutClaim(c) \/ ReserveConflict(c) \/ CallRefused(c)
         \/ AnswerLost(c) \/ CommitFails(c) \/ KeepReservation(c)
         \/ CallerDies(c)
  PROVE  PayTypes'
<1> USE DEF Underway, Working
<1>1. CASE EndWithoutClaim(c)
  BY <1>1, EndingStepTypes DEF EndWithoutClaim, PayTypes, TypeOK
<1>2. CASE ReserveConflict(c)
  BY <1>2, MovingStepTypes DEF ReserveConflict, PayTypes, TypeOK
<1>3. CASE CallRefused(c)
  BY <1>3, MovingStepTypes, HappensIfType DEF CallRefused, PayTypes, TypeOK
<1>4. CASE AnswerLost(c)
  BY <1>4, MovingStepTypes, HappensType DEF AnswerLost, PayTypes, TypeOK
<1>5. CASE CommitFails(c)
  BY <1>5, MovingStepTypes DEF CommitFails, PayTypes, TypeOK
<1>6. CASE KeepReservation(c)
  BY <1>6, MovingStepTypes DEF KeepReservation, PayTypes, TypeOK
<1>7. CASE CallerDies(c)
  BY <1>7, EndingStepTypes, HappensType DEF CallerDies, PayTypes, TypeOK
<1> QED
  BY <1>1, <1>2, <1>3, <1>4, <1>5, <1>6, <1>7

LEMMA CallerTypes ==
  ASSUME PayTypes, NEW c \in Callers, CallerStep(c)
  PROVE  PayTypes'
<1>1. CASE \E o \in OpIds, a \in Actions, n \in Amounts : Begin(c, o, a, n)
  BY <1>1, BeginTypes
<1>2. CASE ~\E o \in OpIds, a \in Actions, n \in Amounts : Begin(c, o, a, n)
  BY <1>2, InsertTypes, ReclaimTypes, ReuseTypes, ReserveTypes, ProviderTypes,
     AnswerTypes, CompleteTypes, CommitTypes, ReleaseTypes, FailTypes,
     OtherCallTypes DEF CallerStep
<1> QED
  BY <1>1, <1>2

-----------------------------------------------------------------------------
(* Steps of webhooks and polls.                                            *)

LEMMA OneWriterChanges ==
  ASSUME PayTypes, NEW w \in Writers, NEW y \in Writer, WriterOK(y),
         writer' = [writer EXCEPT ![w] = y]
  PROVE  writer' \in [Writers -> Writer] /\ WritersOK'
BY DEF PayTypes, TypeOK, WritersOK

LEMMA RestingType == Resting \in Writer /\ WriterOK(Resting) /\ Resting.at = "idle"
                     /\ Resting.event = None
BY DEF Resting, Writer, WriterOK

LEMMA WriterStepTypes ==
  ASSUME PayTypes, UNCHANGED <<ops, call, taken>>,
         status' \in Statuses, captured' \in Nat, raised' \in BOOLEAN,
         writer' \in [Writers -> Writer] /\ WritersOK',
         claims' \subseteq Events, applied' \subseteq Events,
         mishaps' \subseteq Mishaps
  PROVE  PayTypes'
BY DEF PayTypes, TypeOK, CallsOK, RowsOK

LEMMA WriteReportedTypes ==
  ASSUME PayTypes, NEW w \in Writers, writer[w].status \in Statuses, NEW s,
         WriteReported(w, s)
  PROVE  status' \in Statuses /\ captured' \in Nat /\ raised' \in BOOLEAN
<1>1. Reported(writer[w].status, s) \in Statuses
  BY MovesStayInStatuses DEF Reported
<1>2. Aligned(s, writer[w].captured) \subseteq Nat
  BY UnitsType DEF Aligned
<1> QED
  BY <1>1, <1>2 DEF WriteReported, PayTypes, TypeOK

LEMMA WriterTypes ==
  ASSUME PayTypes, NEW w \in Writers, WriterStep(w)
  PROVE  PayTypes'
<1>0. writer[w] \in Writer /\ WriterOK(writer[w])
  BY DEF PayTypes, TypeOK, WritersOK
<1>1. ASSUME NEW e \in Events, ClaimWebhook(w, e) PROVE PayTypes'
  <2> DEFINE y == [Resting EXCEPT !.at = "claimed", !.event = e]
  <2>1. y \in Writer /\ WriterOK(y)
    BY DEF Resting, Writer, WriterOK
  <2>2. writer' = [writer EXCEPT ![w] = y] /\ claims' = claims \cup {e}
        /\ UNCHANGED <<payment, ops, call, taken, mishaps, applied, raised>>
    BY <1>1 DEF ClaimWebhook
  <2> HIDE DEF y
  <2>3. writer' \in [Writers -> Writer] /\ WritersOK'
    BY <2>1, <2>2, OneWriterChanges
  <2> QED
    BY <2>2, <2>3, WriterStepTypes DEF PayTypes, TypeOK, payment
<1>2. CASE SyncReads(w)
  <2> DEFINE y == [writer[w] EXCEPT !.at = "read", !.status = status,
                                    !.captured = captured]
  <2>1. y \in Writer /\ WriterOK(y)
    BY <1>0, <1>2 DEF SyncReads, PayTypes, TypeOK, Writer, WriterOK
  <2>2. writer' = [writer EXCEPT ![w] = y]
        /\ UNCHANGED <<payment, ops, call, claims, taken, mishaps, applied, raised>>
    BY <1>2 DEF SyncReads
  <2> HIDE DEF y
  <2>3. writer' \in [Writers -> Writer] /\ WritersOK'
    BY <2>1, <2>2, OneWriterChanges
  <2> QED
    BY <2>2, <2>3, WriterStepTypes DEF PayTypes, TypeOK, payment
<1>3. CASE SyncWrites(w)
  <2> DEFINE y == [Resting EXCEPT !.at = "written", !.event = writer[w].event]
  <2>1. writer[w].event \in Events /\ writer[w].status \in Statuses
    BY <1>0, <1>3 DEF SyncWrites, WriterOK
  <2>2. y \in Writer /\ WriterOK(y)
    BY <2>1 DEF Resting, Writer, WriterOK
  <2>3. writer' = [writer EXCEPT ![w] = y]
        /\ applied' = applied \cup {writer[w].event}
        /\ WriteReported(w, writer[w].event)
        /\ UNCHANGED <<ops, call, claims, taken, mishaps>>
    BY <1>3 DEF SyncWrites
  <2> HIDE DEF y
  <2>4. writer' \in [Writers -> Writer] /\ WritersOK'
    BY <2>2, <2>3, OneWriterChanges
  <2>5. status' \in Statuses /\ captured' \in Nat /\ raised' \in BOOLEAN
    BY <2>1, <2>3, WriteReportedTypes
  <2> QED
    BY <2>1, <2>3, <2>4, <2>5, WriterStepTypes DEF PayTypes, TypeOK
<1>4. ASSUME \/ WebhookEnds(w) \/ WebhookThrows(w) \/ AdapterMissing(w)
             \/ WebhookDies(w) \/ PollFails(w)
      PROVE  PayTypes'
  <2>1. writer' = [writer EXCEPT ![w] = Resting]
        /\ UNCHANGED <<payment, ops, call, taken, applied, raised>>
        /\ claims' \subseteq claims
    BY <1>4 DEF WebhookEnds, WebhookThrows, AdapterMissing, WebhookDies,
                PollFails, ReleaseClaim
  <2>2. mishaps' \subseteq Mishaps
    BY <1>4, HappensType DEF WebhookEnds, WebhookThrows, AdapterMissing,
                             WebhookDies, PollFails, PayTypes, TypeOK
  <2>3. writer' \in [Writers -> Writer] /\ WritersOK'
    BY <2>1, RestingType, OneWriterChanges
  <2> QED
    BY <2>1, <2>2, <2>3, WriterStepTypes DEF PayTypes, TypeOK, payment
<1>5. CASE PollReads(w)
  <2> DEFINE y == [at |-> "polling", event |-> None, status |-> status,
                   captured |-> captured]
  <2>1. y \in Writer /\ WriterOK(y)
    BY DEF PayTypes, TypeOK, Writer, WriterOK
  <2>2. writer' = [writer EXCEPT ![w] = y]
        /\ UNCHANGED <<payment, ops, call, claims, taken, mishaps, applied, raised>>
    BY <1>5 DEF PollReads
  <2> HIDE DEF y
  <2>3. writer' \in [Writers -> Writer] /\ WritersOK'
    BY <2>1, <2>2, OneWriterChanges
  <2> QED
    BY <2>2, <2>3, WriterStepTypes DEF PayTypes, TypeOK, payment
<1>6. ASSUME NEW s \in Polled, PollWrites(w, s) PROVE PayTypes'
  <2>1. writer' = [writer EXCEPT ![w] = Resting]
        /\ UNCHANGED <<ops, call, claims, taken, mishaps, applied>>
        /\ WriteReported(w, s) /\ writer[w].status \in Statuses
    BY <1>0, <1>6 DEF PollWrites, WriterOK
  <2>2. writer' \in [Writers -> Writer] /\ WritersOK'
    BY <2>1, RestingType, OneWriterChanges
  <2>3. status' \in Statuses /\ captured' \in Nat /\ raised' \in BOOLEAN
    BY <2>1, WriteReportedTypes
  <2> QED
    BY <2>1, <2>2, <2>3, WriterStepTypes DEF PayTypes, TypeOK
<1> QED
  BY <1>1, <1>2, <1>3, <1>4, <1>5, <1>6 DEF WriterStep

LEMMA PayNextTypes == PayTypes /\ [Next]_vars => PayTypes'
<1> SUFFICES ASSUME PayTypes, [Next]_vars PROVE PayTypes'
  OBVIOUS
<1>1. CASE Next
  BY <1>1, CallerTypes, WriterTypes, LeaseTypes DEF Next
<1>2. CASE UNCHANGED vars
  BY <1>2 DEF vars, payment, PayTypes, TypeOK, CallsOK, RowsOK, WritersOK
<1> QED
  BY <1>1, <1>2

LEMMA PayAlwaysTyped == Spec => []PayTypes
BY PayInitTypes, PayNextTypes, PTL DEF Spec

\* Every row, and all that calls, webhook jobs and polls hold in memory, stays
\* in its domain: in particular a call asks for no more than the authorization
\* and reserves no more, and the status is one of the nine.
THEOREM PaymentTypes == Spec => []TypeOK
BY PayAlwaysTyped, PTL DEF PayTypes

-----------------------------------------------------------------------------
(* Attempts.                                                               *)

\* Without an outlasted lease, a call at work holds the claim of its operation.
LiveCallsHold ==
  "slow" \notin mishaps =>
    \A c \in Callers : call[c].at \in Working =>
      HoldsClaim(c) /\ ~ops[call[c].op].expired

\* The row of a transaction that completes cannot be taken from it.
CommittersHold ==
  \A c \in Callers : call[c].at = "committing" => HoldsClaim(c)

AttemptsOK == LiveCallsHold /\ CommittersHold

\* What is said of the claims of the operations in a step, and of settled rows.
ClaimsStand ==
  \A o \in OpIds : /\ ops'[o].state = ops[o].state
                   /\ ops'[o].token = ops[o].token
                   /\ ops'[o].expired = ops[o].expired
                   /\ ops'[o].result = ops[o].result

SettledStay ==
  \A o \in OpIds : ops[o].state = "succeeded" =>
    ops'[o].state = "succeeded" /\ ops'[o].result = ops[o].result

\* No other call is about to complete an operation, nor at work on it unless
\* leases have been outlasted.
Alone(c, o) ==
  \A d \in Callers : d # c /\ call[d].op = o =>
    call[d].at # "committing" /\ ("slow" \notin mishaps => call[d].at \notin Working)

LEMMA MishapsGrow ==
  ASSUME PayTypes, [Next]_vars
  PROVE  mishaps \subseteq mishaps'
<1>1. TypeOK
  BY DEF PayTypes
<1>2. ASSUME NEW c \in Callers, CallerStep(c)
      PROVE  mishaps \subseteq mishaps'
  <2>1. CASE ReclaimOperation(c)
    BY <1>1, <2>1, HappensIfType DEF ReclaimOperation
  <2>2. CASE ProviderActs(c)
    BY <1>1, <2>2, HappensIfType DEF ProviderActs
  <2>3. CASE CallRefused(c)
    BY <1>1, <2>3, HappensIfType DEF CallRefused
  <2>4. CASE AnswerLost(c)
    BY <1>1, <2>4, HappensType DEF AnswerLost
  <2>5. CASE CallerDies(c)
    BY <1>1, <2>5, HappensType DEF CallerDies
  <2>6. CASE UNCHANGED mishaps
    BY <2>6
  <2> QED
    BY <1>2, <2>1, <2>2, <2>3, <2>4, <2>5, <2>6
       DEF CallerStep, Begin, InsertOperation, EndWithoutClaim,
           ReuseReservation, ReserveCaptureAmount, ReserveConflict,
           AnswerArrives, CompleteOperation, CommitOperation, CommitFails,
           ReleaseCaptureAmount, KeepReservation, FailOperation
<1>3. ASSUME NEW w \in Writers, WriterStep(w)
      PROVE  mishaps \subseteq mishaps'
  <2>1. CASE AdapterMissing(w)
    BY <1>1, <2>1, HappensType DEF AdapterMissing
  <2>2. CASE WebhookDies(w)
    BY <1>1, <2>2, HappensType DEF WebhookDies
  <2>3. CASE UNCHANGED mishaps
    BY <2>3
  <2>4. CASE WebhookThrows(w)
    BY <1>1, <2>4, HappensType DEF WebhookThrows
  <2> QED
    BY <1>3, <2>1, <2>2, <2>3, <2>4
       DEF WriterStep, ClaimWebhook, SyncReads, SyncWrites, WebhookEnds,
           PollReads, PollFails, PollWrites
<1>4. ASSUME NEW o \in OpIds, LeaseExpires(o)
      PROVE  mishaps \subseteq mishaps'
  BY <1>1, <1>4, HappensIfType DEF LeaseExpires
<1> QED
  BY <1>2, <1>3, <1>4 DEF Next, vars

\* A step in which no claim moves, and a call at most works on as it did.
LEMMA ClaimsStandHold ==
  ASSUME PayTypes, AttemptsOK, NEW c \in Callers, NEW x,
         call' = [call EXCEPT ![c] = x], ClaimsStand, mishaps \subseteq mishaps',
         x.at \in Working => call[c].at \in Working /\ x.op = call[c].op,
         x.at = "committing" => HoldsClaim(c)
  PROVE  AttemptsOK' /\ SettledStay
<1>1. call'[c] = x /\ \A d \in Callers : d # c => call'[d] = call[d]
  BY DEF PayTypes, TypeOK
<1>2. \A d \in Callers : call[d].at \in Underway => call[d].op \in OpIds
  BY DEF PayTypes, CallsOK, CallOK
<1>3. "committing" \in Working /\ Working \subseteq Underway
  BY DEF Working, Underway
<1>4. SettledStay
  BY DEF ClaimsStand, SettledStay
<1>5. ASSUME NEW d \in Callers, call'[d].at \in Working
      PROVE  call[d].at \in Working /\ call'[d].op = call[d].op
             /\ call[d].op \in OpIds
  BY <1>1, <1>2, <1>3, <1>5
<1>6. LiveCallsHold'
  BY <1>5 DEF ClaimsStand, AttemptsOK, LiveCallsHold, HoldsClaim
<1>7. ASSUME NEW d \in Callers, call'[d].at = "committing"
      PROVE  HoldsClaim(d)'
  <2>1. call'[d].op = call[d].op /\ call[d].op \in OpIds
    BY <1>3, <1>5, <1>7
  <2>2. HoldsClaim(d)
    BY <1>1, <1>7 DEF AttemptsOK, CommittersHold
  <2> QED
    BY <2>1, <2>2 DEF HoldsClaim, ClaimsStand
<1> QED
  BY <1>4, <1>6, <1>7 DEF AttemptsOK, CommittersHold

\* A step in which a call changes the row of its operation, which it holds or
\* nobody does.
LEMMA RowChangesHold ==
  ASSUME PayTypes, AttemptsOK, NEW c \in Callers, NEW x, NEW o \in OpIds, NEW row,
         call' = [call EXCEPT ![c] = x], ops' = [ops EXCEPT ![o] = row],
         mishaps \subseteq mishaps', ops[o].state # "succeeded",
         Alone(c, o), x.at # "committing",
         x.at \in Working => /\ x.op = o /\ row.state = "in_progress"
                             /\ row.token = c /\ ~row.expired
  PROVE  AttemptsOK' /\ SettledStay
<1>1. call'[c] = x /\ \A d \in Callers : d # c => call'[d] = call[d]
  BY DEF PayTypes, TypeOK
<1>2. \A d \in Callers : call[d].at \in Underway => call[d].op \in OpIds
  BY DEF PayTypes, CallsOK, CallOK
<1>3. "committing" \in Working /\ Working \subseteq Underway
  BY DEF Working, Underway
<1>4. ops'[o] = row /\ \A q \in OpIds : q # o => ops'[q] = ops[q]
  BY DEF PayTypes, TypeOK
<1>5. SettledStay
  BY <1>4 DEF SettledStay
<1>6. LiveCallsHold'
  BY <1>1, <1>2, <1>3, <1>4 DEF Alone, AttemptsOK, LiveCallsHold, HoldsClaim
<1>7. CommittersHold'
  BY <1>1, <1>2, <1>3, <1>4 DEF Alone, AttemptsOK, CommittersHold, HoldsClaim
<1> QED
  BY <1>5, <1>6, <1>7 DEF AttemptsOK

\* Another call at work on the operation that a call holds is that call.
LEMMA OthersAway ==
  ASSUME AttemptsOK, NEW c \in Callers, NEW o, ops[o].token = c
  PROVE  Alone(c, o)
BY DEF Alone, AttemptsOK, LiveCallsHold, CommittersHold, HoldsClaim

LEMMA InsertHolds ==
  ASSUME PayTypes, AttemptsOK, NEW c \in Callers, InsertOperation(c)
  PROVE  AttemptsOK' /\ SettledStay
<1> DEFINE o   == call[c].op
           x   == AfterClaim(c, Nothing)
           row == [NoOperation EXCEPT !.state = "in_progress", !.token = c,
                                      !.action = call[c].action,
                                      !.amount = call[c].amount]
<1>1. call[c].at = "read" /\ o \in OpIds /\ ops[o].state = None
      /\ call' = [call EXCEPT ![c] = x] /\ ops' = [ops EXCEPT ![o] = row]
      /\ mishaps' = mishaps
  BY DEF InsertOperation, PayTypes, CallsOK, CallOK, Underway
<1>2. row.state = "in_progress" /\ row.token = c /\ ~row.expired
  BY DEF NoOperation
<1>3. x.at \in {"claimed", "asked"} /\ x.op = o
  <2>1. call[c] \in Call
    BY DEF PayTypes, TypeOK
  <2> QED
    BY <2>1 DEF AfterClaim, Asking, Idle, Call
<1>4. Alone(c, o)
  BY <1>1 DEF Alone, AttemptsOK, LiveCallsHold, CommittersHold, HoldsClaim, None
<1> HIDE DEF x, row, o
<1> QED
  BY <1>1, <1>2, <1>3, <1>4, RowChangesHold DEF None

LEMMA ReclaimHolds ==
  ASSUME PayTypes, AttemptsOK, NEW c \in Callers, ReclaimOperation(c),
         mishaps \subseteq mishaps'
  PROVE  AttemptsOK' /\ SettledStay
<1> DEFINE o   == call[c].op
           x   == AfterClaim(c, ops[o].reserved)
           row == [ops[o] EXCEPT !.state = "in_progress", !.token = c,
                                 !.expired = FALSE]
<1>1. call[c].at = "read" /\ o \in OpIds /\ ops[o] \in Operation
      /\ Reclaimable(ops[o]) /\ ~Locked(o)
      /\ call' = [call EXCEPT ![c] = x] /\ ops' = [ops EXCEPT ![o] = row]
  BY DEF ReclaimOperation, PayTypes, TypeOK, CallsOK, CallOK, Underway
<1>2. row.state = "in_progress" /\ row.token = c /\ ~row.expired
  BY <1>1 DEF Operation
<1>3. x.at \in {"claimed", "asked"} /\ x.op = o
  <2>1. call[c] \in Call
    BY DEF PayTypes, TypeOK
  <2> QED
    BY <2>1 DEF AfterClaim, Asking, Idle, Call
<1>4. Alone(c, o)
  BY <1>1 DEF Alone, AttemptsOK, LiveCallsHold, HoldsClaim, Reclaimable, Locked
<1>5. ops[o].state # "succeeded"
  BY <1>1 DEF Reclaimable
<1> HIDE DEF x, row, o
<1> QED
  BY <1>1, <1>2, <1>3, <1>4, <1>5, RowChangesHold

\* The end of an attempt that holds its operation.
LEMMA EndHolds ==
  ASSUME PayTypes, AttemptsOK, NEW c \in Callers, call[c].at \in Working,
         HoldsClaim(c), NEW row, mishaps' = mishaps,
         ops' = [ops EXCEPT ![call[c].op] = row],
         call' = [call EXCEPT ![c] = Ended]
  PROVE  AttemptsOK' /\ SettledStay
<1>1. call[c].op \in OpIds
  BY DEF PayTypes, CallsOK, CallOK, Underway
<1>2. ops[call[c].op].token = c /\ ops[call[c].op].state # "succeeded"
  BY DEF HoldsClaim
<1>3. Alone(c, call[c].op)
  BY <1>2, OthersAway
<1>4. Ended.at \notin Working /\ Ended.at # "committing"
  BY FixedCallsType DEF Working
<1> QED
  BY <1>1, <1>2, <1>3, <1>4, RowChangesHold

LEMMA CallerHolds ==
  ASSUME PayTypes, AttemptsOK, NEW c \in Callers, CallerStep(c),
         mishaps \subseteq mishaps'
  PROVE  AttemptsOK' /\ SettledStay
<1>0. call[c] \in Call /\ ops \in [OpIds -> Operation]
  BY DEF PayTypes, TypeOK
<1>1. ASSUME NEW o \in OpIds, NEW a \in Actions, NEW n \in Amounts,
             Begin(c, o, a, n)
      PROVE  AttemptsOK' /\ SettledStay
  <2> DEFINE x == [Idle EXCEPT !.at = "read", !.op = o, !.action = a,
                               !.amount = n, !.status = status,
                               !.captured = captured]
  <2>1. x.at = "read" /\ call' = [call EXCEPT ![c] = x] /\ ops' = ops
    BY <1>1 DEF Begin, Idle
  <2> HIDE DEF x
  <2> QED
    BY <2>1, ClaimsStandHold DEF ClaimsStand, Working
<1>2. CASE ReuseReservation(c)
  <2> DEFINE x == Asking(c, call[c].held, ProviderAmount(c, call[c].held))
  <2>1. x.at = "asked" /\ x.op = call[c].op /\ call' = [call EXCEPT ![c] = x]
        /\ call[c].at = "claimed" /\ ops' = ops
    BY <1>2 DEF ReuseReservation, Asking, Idle
  <2> HIDE DEF x
  <2> QED
    BY <2>1, ClaimsStandHold DEF ClaimsStand, Working
<1>3. CASE ReserveCaptureAmount(c)
  <2> DEFINE x == Asking(c, Requested(c), ProviderAmount(c, Requested(c)))
  <2>1. x.at = "asked" /\ x.op = call[c].op /\ call' = [call EXCEPT ![c] = x]
        /\ call[c].at = "claimed"
    BY <1>3 DEF ReserveCaptureAmount, Asking, Idle
  <2>2. ClaimsStand
    BY <1>0, <1>3 DEF ReserveCaptureAmount, ClaimsStand, Operation
  <2> HIDE DEF x
  <2> QED
    BY <2>1, <2>2, ClaimsStandHold DEF Working
<1>4. CASE AnswerArrives(c)
  <2>1. PICK s \in Answers(c) :
          call' = [call EXCEPT ![c].at = "answered", ![c].invoked = TRUE,
                               ![c].answer = s]
    BY <1>4 DEF AnswerArrives
  <2> DEFINE x == [call[c] EXCEPT !.at = "answered", !.invoked = TRUE,
                                  !.answer = s]
  <2>2. x.at = "answered" /\ x.op = call[c].op
    BY <1>0 DEF Call
  <2>3. call' = [call EXCEPT ![c] = x] /\ call[c].at = "taken" /\ ops' = ops
    BY <1>4, <2>1 DEF AnswerArrives
  <2> HIDE DEF x
  <2> QED
    BY <2>2, <2>3, ClaimsStandHold DEF ClaimsStand, Working
<1>5. CASE CompleteOperation(c)
  <2> DEFINE x == [call[c] EXCEPT
              !.at = IF HoldsClaim(c) /\ ResultAllowed(status, call[c].answer)
                     THEN "committing" ELSE "failing",
              !.status = status, !.captured = captured]
  <2>1. x.op = call[c].op /\ (x.at = "committing" => HoldsClaim(c))
    BY <1>0 DEF Call
  <2>2. call' = [call EXCEPT ![c] = x] /\ call[c].at = "answered" /\ ops' = ops
    BY <1>5 DEF CompleteOperation
  <2> HIDE DEF x
  <2> QED
    BY <2>1, <2>2, ClaimsStandHold DEF ClaimsStand, Working
<1>6. CASE CommitOperation(c)
  <2>1. call[c].at = "committing" /\ HoldsClaim(c)
    BY <1>6 DEF CommitOperation, AttemptsOK, CommittersHold
  <2> DEFINE row == [ops[call[c].op] EXCEPT !.state = "succeeded",
                       !.result = call[c].answer, !.expired = FALSE]
  <2>2. ops' = [ops EXCEPT ![call[c].op] = row]
        /\ call' = [call EXCEPT ![c] = Ended] /\ mishaps' = mishaps
    BY <1>6 DEF CommitOperation
  <2> HIDE DEF row
  <2> QED
    BY <2>1, <2>2, EndHolds DEF Working
<1>7. CASE FailOperation(c)
  <2>1. call[c].at = "released" /\ call' = [call EXCEPT ![c] = Ended]
        /\ mishaps' = mishaps
    BY <1>7 DEF FailOperation
  <2> DEFINE row == [ops[call[c].op] EXCEPT !.state = "failed", !.expired = FALSE]
  <2>2. CASE HoldsClaim(c)
    <3>1. ops' = [ops EXCEPT ![call[c].op] = row]
      BY <1>7, <2>2 DEF FailOperation
    <3> HIDE DEF row
    <3> QED
      BY <2>1, <2>2, <3>1, EndHolds DEF Working
  <2>3. CASE ~HoldsClaim(c)
    <3>1. ops' = ops
      BY <1>7, <2>3 DEF FailOperation
    <3> QED
      BY <2>1, <3>1, FixedCallsType, ClaimsStandHold DEF ClaimsStand, Working
  <2> QED
    BY <2>2, <2>3
<1>8. CASE ReleaseCaptureAmount(c)
  <2> DEFINE x == [call[c] EXCEPT !.at = "released"]
  <2>1. x.at = "released" /\ x.op = call[c].op
    BY <1>0 DEF Call
  <2>2. call' = [call EXCEPT ![c] = x] /\ call[c].at = "failing"
    BY <1>8 DEF ReleaseCaptureAmount
  <2>3. ClaimsStand
    BY <1>0, <1>8 DEF ReleaseCaptureAmount, ClaimsStand, Operation
  <2> HIDE DEF x
  <2> QED
    BY <2>1, <2>2, <2>3, ClaimsStandHold DEF Working
<1>9. ASSUME \/ ReserveConflict(c) \/ CallRefused(c) \/ AnswerLost(c)
             \/ CommitFails(c) \/ KeepReservation(c) \/ ProviderActs(c)
      PROVE  AttemptsOK' /\ SettledStay
  <2>1. ops' = ops /\ call[c].at \in Working
    BY <1>9 DEF ReserveConflict, CallRefused, AnswerLost, CommitFails,
                KeepReservation, ProviderActs, Working
  <2>2. PICK to \in {"failing", "released", "taken"} :
          call' = [call EXCEPT ![c].at = to]
    BY <1>9 DEF ReserveConflict, CallRefused, AnswerLost, CommitFails,
                KeepReservation, ProviderActs
  <2> DEFINE x == [call[c] EXCEPT !.at = to]
  <2>3. x.at = to /\ x.op = call[c].op
    BY <1>0 DEF Call
  <2>4. call' = [call EXCEPT ![c] = x]
    BY <2>2
  <2> HIDE DEF x
  <2> QED
    BY <2>1, <2>2, <2>3, <2>4, ClaimsStandHold DEF ClaimsStand
<1>10. ASSUME EndWithoutClaim(c) \/ CallerDies(c)
       PROVE  AttemptsOK' /\ SettledStay
  <2>1. ops' = ops
    BY <1>10 DEF EndWithoutClaim, CallerDies
  <2>2. PICK x \in {Ended, Dead} : call' = [call EXCEPT ![c] = x]
    BY <1>10 DEF EndWithoutClaim, CallerDies
  <2>3. x.at \notin Working /\ x.at # "committing"
    BY FixedCallsType DEF Working
  <2> QED
    BY <2>1, <2>2, <2>3, ClaimsStandHold DEF ClaimsStand
<1>11. CASE \E o \in OpIds, a \in Actions, n \in Amounts : Begin(c, o, a, n)
  BY <1>1, <1>11
<1>12. CASE ~\E o \in OpIds, a \in Actions, n \in Amounts : Begin(c, o, a, n)
  BY <1>2, <1>3, <1>4, <1>5, <1>6, <1>7, <1>8, <1>9, <1>10, <1>12, InsertHolds,
     ReclaimHolds DEF CallerStep
<1> QED
  BY <1>11, <1>12

LEMMA LeaseHolds ==
  ASSUME PayTypes, AttemptsOK, NEW o \in OpIds, LeaseExpires(o),
         mishaps \subseteq mishaps'
  PROVE  AttemptsOK' /\ SettledStay
<1>1. ops \in [OpIds -> Operation] /\ ops' = [ops EXCEPT ![o].expired = TRUE]
      /\ call' = call
  BY DEF LeaseExpires, PayTypes, TypeOK
<1>2. \A q \in OpIds : ops'[q].state = ops[q].state /\ ops'[q].token = ops[q].token
                       /\ ops'[q].result = ops[q].result
                       /\ (q # o => ops'[q] = ops[q])
  BY <1>1 DEF Operation
<1>3. \A d \in Callers : call[d].at \in Working => call[d].op \in OpIds
  BY DEF PayTypes, CallsOK, CallOK, Underway
<1>4. CommittersHold'
  BY <1>1, <1>2, <1>3 DEF AttemptsOK, CommittersHold, HoldsClaim, Working
<1>5. SettledStay
  BY <1>2 DEF SettledStay
<1>6. ASSUME "slow" \notin mishaps', NEW d \in Callers, call[d].at \in Working
      PROVE  HoldsClaim(d)' /\ ~ops'[call[d].op].expired
  <2>1. HoldsClaim(d) /\ ~ops[call[d].op].expired
    BY <1>6 DEF AttemptsOK, LiveCallsHold
  <2>2. call[d].op # o
    <3>1. ASSUME call[d].op = o PROVE FALSE
      <4>1. call[ops[o].token].at # "dead"
        BY <1>6, <2>1, <3>1 DEF HoldsClaim, Working
      <4>2. Happens("slow")
        BY <4>1 DEF LeaseExpires, HappensIf
      <4> QED
        BY <1>6, <4>2, HappensType DEF PayTypes
    <3> QED
      BY <3>1
  <2> QED
    BY <1>1, <1>2, <1>3, <1>6, <2>1, <2>2 DEF HoldsClaim
<1>7. LiveCallsHold'
  BY <1>1, <1>6 DEF LiveCallsHold
<1> QED
  BY <1>4, <1>5, <1>7 DEF AttemptsOK

LEMMA WriterHolds ==
  ASSUME AttemptsOK, ops' = ops, call' = call, mishaps \subseteq mishaps'
  PROVE  AttemptsOK' /\ SettledStay
BY DEF AttemptsOK, LiveCallsHold, CommittersHold, HoldsClaim, SettledStay

LEMMA AttemptsInit == Init => AttemptsOK
BY FixedCallsType DEF Init, AttemptsOK, LiveCallsHold, CommittersHold, Working

LEMMA AttemptsNext ==
  PayTypes /\ AttemptsOK /\ [Next]_vars => AttemptsOK' /\ SettledStay
<1> SUFFICES ASSUME PayTypes, AttemptsOK, [Next]_vars
             PROVE  AttemptsOK' /\ SettledStay
  OBVIOUS
<1>1. mishaps \subseteq mishaps'
  BY MishapsGrow
<1>2. ASSUME NEW w \in Writers, WriterStep(w) PROVE ops' = ops /\ call' = call
  BY <1>2 DEF WriterStep, ClaimWebhook, SyncReads, SyncWrites, WebhookEnds,
              WebhookThrows, AdapterMissing, WebhookDies, PollReads, PollFails,
              PollWrites
<1> QED
  BY <1>1, <1>2, CallerHolds, LeaseHolds, WriterHolds DEF Next, vars

LEMMA AttemptsAlways == Spec => [](PayTypes /\ AttemptsOK)
BY PayInitTypes, PayNextTypes, AttemptsInit, AttemptsNext, PTL DEF Spec

\* As long as no call outlasts its lease, at most one call is at work on an
\* operation, whatever dies, is lost or is sent again: a second one needs the
\* claim, which the first one's unexpired row refuses it.
THEOREM OneAttemptAtATime == Spec => []OneLiveAttempt
<1>1. AttemptsOK => OneLiveAttempt
  BY DEF AttemptsOK, LiveCallsHold, HoldsClaim, OneLiveAttempt
<1> QED
  BY <1>1, AttemptsAlways, PTL

\* A settled operation stays settled with its result, even when leases run out
\* under live calls: a late attempt finds another token in the row, and none
\* gets at it while a transaction completes it.
THEOREM SettledOperationsStay == Spec => SettledForGood
<1>1. PayTypes /\ AttemptsOK /\ [Next]_vars =>
        [\A o \in OpIds : ops[o].state = "succeeded" =>
           ops'[o].state = "succeeded" /\ ops'[o].result = ops[o].result]_vars
  BY AttemptsNext DEF SettledStay
<1> QED
  BY <1>1, AttemptsAlways, PTL DEF Spec, SettledForGood

-----------------------------------------------------------------------------
(* Webhook events.                                                         *)

\* Events held by runs have their row, each one run, and what has been
\* written; without a run that leaves its row behind, every row is somebody's.
EventsOK ==
  /\ \A w \in Writers : writer[w].event # None => writer[w].event \in claims
  /\ \A w \in Writers : writer[w].at = "written" => writer[w].event \in applied
  /\ ClaimedIsHandled

LEMMA EventsInit == Init => EventsOK
BY DEF Init, EventsOK, ClaimedIsHandled, Resting

\* A step that changes no event, no row and no entry of the payment's history.
LEMMA EventsKept ==
  ASSUME EventsOK, claims' = claims, applied' = applied, mishaps \subseteq mishaps',
         \A w \in Writers : /\ writer'[w].event = writer[w].event
                            /\ writer'[w].at = "written" => writer[w].at = "written"
  PROVE  EventsOK'
BY DEF EventsOK, ClaimedIsHandled

\* A run that lets go of its event without an error has written it, or has
\* none, or leaves its row behind.
LEMMA LettingGo ==
  ASSUME PayTypes, EventsOK, NEW w \in Writers, mishaps \subseteq mishaps',
         writer' = [writer EXCEPT ![w] = Resting],
         claims' = claims, applied' = applied,
         \/ writer[w].event = None \/ writer[w].event \in applied
         \/ mishaps' \cap LeftBehind # {}
  PROVE  EventsOK'
<1>1. writer'[w].event = None /\ writer'[w].at = "idle"
      /\ \A v \in Writers : v # w => writer'[v] = writer[v]
  BY RestingType DEF PayTypes, TypeOK
<1>2. \A v \in Writers : writer'[v].event # None => writer'[v].event \in claims
  BY <1>1 DEF EventsOK
<1>3. \A v \in Writers : writer'[v].at = "written" => writer'[v].event \in applied
  BY <1>1 DEF EventsOK
<1>4. \A u, v \in Writers :
        writer'[u].event = writer'[v].event /\ writer'[u].event # None => u = v
  BY <1>1 DEF EventsOK, ClaimedIsHandled
<1>5. ASSUME mishaps' \cap LeftBehind = {}, NEW e \in claims
      PROVE  e \in applied \/ \E v \in Writers : writer'[v].event = e
  <2>1. mishaps \cap LeftBehind = {}
    BY <1>5
  <2>2. CASE e \in applied
    BY <2>2
  <2>3. CASE e \notin applied
    <3>1. PICK v \in Writers : writer[v].event = e
      BY <2>1, <2>3 DEF EventsOK, ClaimedIsHandled
    <3>2. v # w
      <4>1. e # None
        BY <1>5, GatewayAssumption DEF PayTypes, TypeOK
      <4> QED
        BY <1>5, <2>3, <3>1, <4>1
    <3> QED
      BY <1>1, <3>1, <3>2
  <2> QED
    BY <2>2, <2>3
<1> QED
  BY <1>2, <1>3, <1>4, <1>5 DEF EventsOK, ClaimedIsHandled

LEMMA WriterEvents ==
  ASSUME PayTypes, EventsOK, NEW w \in Writers, WriterStep(w),
         mishaps \subseteq mishaps'
  PROVE  EventsOK'
<1>0. writer \in [Writers -> Writer] /\ WriterOK(writer[w]) /\ None \notin Events
  BY GatewayAssumption DEF PayTypes, TypeOK, WritersOK
<1>1. ASSUME NEW e \in Events, ClaimWebhook(w, e) PROVE EventsOK'
  <2> DEFINE y == [Resting EXCEPT !.at = "claimed", !.event = e]
  <2>1. y.event = e /\ y.at = "claimed"
    BY DEF Resting
  <2>2. writer' = [writer EXCEPT ![w] = y] /\ claims' = claims \cup {e}
        /\ applied' = applied /\ e \notin claims /\ writer[w].event = None
    BY <1>0, <1>1 DEF ClaimWebhook, Unclaimed, WriterOK
  <2> HIDE DEF y
  <2>3. writer'[w] = y /\ \A v \in Writers : v # w => writer'[v] = writer[v]
    BY <1>0, <2>2
  <2>4. \A v \in Writers : writer[v].event # e
    BY <1>0, <2>2 DEF EventsOK
  <2>5. \A v \in Writers : writer'[v].event # None => writer'[v].event \in claims'
    BY <2>1, <2>2, <2>3 DEF EventsOK
  <2>6. \A v \in Writers : writer'[v].at = "written" => writer'[v].event \in applied'
    BY <2>1, <2>2, <2>3 DEF EventsOK
  <2>7. \A u, v \in Writers :
          writer'[u].event = writer'[v].event /\ writer'[u].event # None => u = v
    BY <2>1, <2>3, <2>4 DEF EventsOK, ClaimedIsHandled
  <2>8. ASSUME mishaps' \cap LeftBehind = {}, NEW d \in claims'
        PROVE  d \in applied' \/ \E v \in Writers : writer'[v].event = d
    <3>1. CASE d = e
      BY <2>1, <2>3, <3>1
    <3>2. CASE d # e
      <4>1. d \in claims /\ mishaps \cap LeftBehind = {}
        BY <2>2, <2>8, <3>2
      <4>2. d # None
        BY <1>0, <4>1 DEF PayTypes, TypeOK
      <4> QED
        BY <2>2, <2>3, <4>1, <4>2 DEF EventsOK, ClaimedIsHandled
    <3> QED
      BY <3>1, <3>2
  <2> QED
    BY <2>5, <2>6, <2>7, <2>8 DEF EventsOK, ClaimedIsHandled
<1>2. CASE SyncReads(w)
  <2>1. \A v \in Writers : /\ writer'[v].event = writer[v].event
                           /\ writer'[v].at = "written" => writer[v].at = "written"
    BY <1>0, <1>2 DEF SyncReads, Writer
  <2> QED
    BY <1>2, <2>1, EventsKept DEF SyncReads
<1>3. CASE SyncWrites(w)
  <2> DEFINE y == [Resting EXCEPT !.at = "written", !.event = writer[w].event]
  <2>1. y.event = writer[w].event
    BY DEF Resting
  <2>2. writer' = [writer EXCEPT ![w] = y] /\ claims' = claims
        /\ applied' = applied \cup {writer[w].event}
    BY <1>3 DEF SyncWrites
  <2> HIDE DEF y
  <2>3. writer'[w] = y /\ \A v \in Writers : v # w => writer'[v] = writer[v]
    BY <1>0, <2>2
  <2>4. \A v \in Writers : writer'[v].event = writer[v].event
    BY <2>1, <2>3
  <2> QED
    BY <2>1, <2>2, <2>3, <2>4 DEF EventsOK, ClaimedIsHandled
<1>4. CASE WebhookThrows(w) /\ claims' = ReleaseClaim(w)
  <2>1. writer' = [writer EXCEPT ![w] = Resting]
        /\ claims' = claims \ {writer[w].event} /\ applied' = applied
        /\ writer[w].event # None
    BY <1>0, <1>4 DEF WebhookThrows, ReleaseClaim, WriterOK
  <2>2. writer'[w].event = None /\ writer'[w].at = "idle"
        /\ \A v \in Writers : v # w => writer'[v] = writer[v]
    BY <1>0, <2>1, RestingType
  <2>3. \A v \in Writers : v # w => writer[v].event # writer[w].event
    BY <2>1 DEF EventsOK, ClaimedIsHandled
  <2>4. \A v \in Writers : writer'[v].event # None => writer'[v].event \in claims'
    BY <2>1, <2>2, <2>3 DEF EventsOK
  <2>5. \A v \in Writers : writer'[v].at = "written" => writer'[v].event \in applied'
    BY <2>1, <2>2 DEF EventsOK
  <2>6. \A u, v \in Writers :
          writer'[u].event = writer'[v].event /\ writer'[u].event # None => u = v
    BY <2>2 DEF EventsOK, ClaimedIsHandled
  <2>7. ASSUME mishaps' \cap LeftBehind = {}, NEW d \in claims'
        PROVE  d \in applied' \/ \E v \in Writers : writer'[v].event = d
    <3>1. d \in claims /\ d # writer[w].event
          /\ mishaps \cap LeftBehind = {}
      BY <2>1, <2>7
    <3> QED
      BY <2>1, <2>2, <3>1 DEF EventsOK, ClaimedIsHandled
  <2> QED
    BY <2>4, <2>5, <2>6, <2>7 DEF EventsOK, ClaimedIsHandled
<1>11. CASE WebhookThrows(w) /\ claims' # ReleaseClaim(w)
  <2>1. mishaps' \cap LeftBehind # {} /\ claims' = claims
    BY <1>11, HappensType DEF WebhookThrows, PayTypes, LeftBehind
  <2> QED
    BY <1>11, <2>1, LettingGo DEF WebhookThrows
<1>5. CASE WebhookEnds(w)
  BY <1>5, LettingGo DEF WebhookEnds, EventsOK
<1>6. CASE AdapterMissing(w)
  <2>1. mishaps' \cap LeftBehind # {}
    BY <1>6, HappensType DEF AdapterMissing, PayTypes, LeftBehind
  <2> QED
    BY <1>6, <2>1, LettingGo DEF AdapterMissing
<1>7. CASE WebhookDies(w)
  <2>1. mishaps' \cap LeftBehind # {}
    BY <1>7, HappensType DEF WebhookDies, PayTypes, LeftBehind
  <2> QED
    BY <1>7, <2>1, LettingGo DEF WebhookDies
<1>8. CASE PollReads(w)
  <2>1. \A v \in Writers : /\ writer'[v].event = writer[v].event
                           /\ writer'[v].at = "written" => writer[v].at = "written"
    BY <1>0, <1>8 DEF PollReads, WriterOK
  <2> QED
    BY <1>8, <2>1, EventsKept DEF PollReads
<1>9. CASE PollFails(w)
  BY <1>0, <1>9, LettingGo DEF PollFails, WriterOK
<1>10. ASSUME NEW s \in Polled, PollWrites(w, s) PROVE EventsOK'
  BY <1>0, <1>10, LettingGo DEF PollWrites, WriterOK
<1> QED
  BY <1>1, <1>2, <1>3, <1>4, <1>5, <1>6, <1>7, <1>8, <1>9, <1>10, <1>11
     DEF WriterStep

LEMMA EventsNext == PayTypes /\ EventsOK /\ [Next]_vars => EventsOK'
<1> SUFFICES ASSUME PayTypes, EventsOK, [Next]_vars PROVE EventsOK'
  OBVIOUS
<1>1. mishaps \subseteq mishaps'
  BY MishapsGrow
<1>2. ASSUME NEW c \in Callers, CallerStep(c)
      PROVE  UNCHANGED <<writer, claims, applied>>
  <2>1. CASE \E o \in OpIds, a \in Actions, n \in Amounts : Begin(c, o, a, n)
    BY <2>1 DEF Begin
  <2>2. CASE ~\E o \in OpIds, a \in Actions, n \in Amounts : Begin(c, o, a, n)
    BY <1>2, <2>2
       DEF CallerStep, InsertOperation, ReclaimOperation, EndWithoutClaim,
           ReuseReservation, ReserveCaptureAmount, ReserveConflict,
           ProviderActs, AnswerArrives, CallRefused, AnswerLost,
           CompleteOperation, CommitOperation, CommitFails,
           ReleaseCaptureAmount, KeepReservation, FailOperation, CallerDies
  <2> QED
    BY <2>1, <2>2
<1>3. ASSUME NEW o \in OpIds, LeaseExpires(o)
      PROVE  UNCHANGED <<writer, claims, applied>>
  BY <1>3 DEF LeaseExpires
<1>4. CASE UNCHANGED <<writer, claims, applied>>
  BY <1>1, <1>4, EventsKept
<1> QED
  BY <1>1, <1>2, <1>3, <1>4, WriterEvents DEF Next, vars

\* As long as no run of a webhook job dies, finds no adapter, or fails and then
\* fails to give its claim back too, an event that has a row has been written
\* to the payment or is in the hands of a run, however often it comes and
\* whatever else throws on the way.  No two runs ever hold one event.
THEOREM ClaimedEventsAreHandled == Spec => []ClaimedIsHandled
<1>1. EventsOK => ClaimedIsHandled
  BY DEF EventsOK
<1> QED
  BY <1>1, PayInitTypes, PayNextTypes, EventsInit, EventsNext, PTL DEF Spec

-----------------------------------------------------------------------------
(* The money taken and what is reserved for it.                            *)

\* What a call at work knows of the reservation of its operation, and of the
\* money taken for it.
HeldOK(x, row, money) ==
  x.at \in Working =>
    /\ x.action # "capture" => x.held = Nothing /\ x.at # "claimed"
    /\ x.action = "capture" =>
         /\ x.at # "released" => x.held = row.reserved
         /\ x.at = "claimed" => x.held <= x.captured
         /\ x.at \in {"asked", "taken", "answered", "committing"} =>
              x.held # Nothing /\ x.asks = x.held
         /\ x.at \in {"taken", "answered", "committing"} => money = x.held
         /\ x.at \in {"answered", "committing"} => x.invoked
         /\ x.at = "failing" /\ ~x.invoked => money = Nothing

RowHolds(row, money) ==
  /\ money = Nothing \/ money = row.reserved
  /\ row.state = None => row.reserved = Nothing

ReservationsOK ==
  Undisturbed =>
    /\ captured <= Authorized
    /\ \A o \in OpIds : RowHolds(ops[o], taken[o])
    /\ \A c \in Callers :
         call[c].at \in Working =>
           HeldOK(call[c], ops[call[c].op], taken[call[c].op])

LEMMA UndisturbedBefore ==
  ASSUME Undisturbed', mishaps \subseteq mishaps'
  PROVE  Undisturbed /\ "slow" \notin mishaps
BY DEF Undisturbed

\* A step of a call that leaves rows and money alone.
LEMMA CallReserves ==
  ASSUME PayTypes, ReservationsOK, NEW c \in Callers, NEW x,
         call' = [call EXCEPT ![c] = x], ops' = ops, taken' = taken,
         captured' = captured, mishaps \subseteq mishaps',
         Undisturbed' /\ x.at \in Working => HeldOK(x, ops[x.op], taken[x.op])
  PROVE  ReservationsOK'
<1> SUFFICES ASSUME Undisturbed'
             PROVE  /\ captured' <= Authorized
                    /\ \A o \in OpIds : RowHolds(ops'[o], taken'[o])
                    /\ \A d \in Callers : call'[d].at \in Working =>
                         HeldOK(call'[d], ops'[call'[d].op], taken'[call'[d].op])
  BY DEF ReservationsOK
<1>1. Undisturbed
  BY UndisturbedBefore
<1>2. call'[c] = x /\ \A d \in Callers : d # c => call'[d] = call[d]
  BY DEF PayTypes, TypeOK
<1> QED
  BY <1>1, <1>2 DEF ReservationsOK

\* A step of a call that changes the row of its operation, or the money taken
\* for it, with no other call at work on it.
LEMMA RowReserves ==
  ASSUME PayTypes, ReservationsOK, NEW c \in Callers, NEW x, NEW o \in OpIds,
         NEW row, NEW n, call' = [call EXCEPT ![c] = x],
         ops' = [ops EXCEPT ![o] = row], taken' = [taken EXCEPT ![o] = n],
         mishaps \subseteq mishaps', Alone(c, o),
         Undisturbed' => captured' <= Authorized /\ RowHolds(row, n),
         x.at \in Working => x.op = o,
         Undisturbed' /\ x.at \in Working => HeldOK(x, row, n)
  PROVE  ReservationsOK'
<1> SUFFICES ASSUME Undisturbed'
             PROVE  /\ captured' <= Authorized
                    /\ \A q \in OpIds : RowHolds(ops'[q], taken'[q])
                    /\ \A d \in Callers : call'[d].at \in Working =>
                         HeldOK(call'[d], ops'[call'[d].op], taken'[call'[d].op])
  BY DEF ReservationsOK
<1>1. Undisturbed /\ "slow" \notin mishaps
  BY UndisturbedBefore
<1>2. call'[c] = x /\ \A d \in Callers : d # c => call'[d] = call[d]
  BY DEF PayTypes, TypeOK
<1>3. ops'[o] = row /\ taken'[o] = n
      /\ \A q \in OpIds : q # o => ops'[q] = ops[q] /\ taken'[q] = taken[q]
  BY DEF PayTypes, TypeOK
<1>4. \A q \in OpIds : RowHolds(ops'[q], taken'[q])
  BY <1>1, <1>3 DEF ReservationsOK
<1>5. ASSUME NEW d \in Callers, call'[d].at \in Working
      PROVE  HeldOK(call'[d], ops'[call'[d].op], taken'[call'[d].op])
  <2>1. CASE d = c
    BY <1>2, <1>3, <1>5, <2>1
  <2>2. CASE d # c
    <3>1. call[d].op # o /\ call[d].op \in OpIds
      BY <1>1, <1>2, <1>5, <2>2 DEF Alone, PayTypes, CallsOK, CallOK, Underway
    <3> QED
      BY <1>1, <1>2, <1>3, <1>5, <2>2, <3>1 DEF ReservationsOK
  <2> QED
    BY <2>1, <2>2
<1> QED
  BY <1>4, <1>5

\* What a call gets with its claim.
LEMMA AfterClaimHeld ==
  ASSUME PayTypes, NEW c \in Callers, NEW h \in Units, NEW row, NEW n,
         h = row.reserved, h <= call[c].captured
  PROVE  LET x == AfterClaim(c, h) IN
         /\ x.at \in {"claimed", "asked"} /\ x.op = call[c].op
         /\ HeldOK(x, row, n)
<1>1. call[c] \in Call
  BY DEF PayTypes, TypeOK
<1> DEFINE x == AfterClaim(c, h)
<1>2. CASE call[c].action = "capture"
  <2>1. x.at = "claimed" /\ x.op = call[c].op /\ x.action = "capture"
        /\ x.held = h /\ x.captured = call[c].captured
    BY <1>1, <1>2 DEF AfterClaim, Call
  <2> HIDE DEF x
  <2>2. HeldOK(x, row, n)
    BY <2>1 DEF HeldOK
  <2> QED
    BY <2>1, <2>2 DEF x
<1>3. CASE call[c].action # "capture"
  <2>1. x.at = "asked" /\ x.op = call[c].op /\ x.action # "capture"
        /\ x.held = Nothing
    BY <1>1, <1>3 DEF AfterClaim, Asking, Idle
  <2> HIDE DEF x
  <2>2. HeldOK(x, row, n)
    BY <2>1 DEF HeldOK
  <2> QED
    BY <2>1, <2>2 DEF x
<1> QED
  BY <1>2, <1>3

\* Nobody else is on an operation that is claimed.
LEMMA InsertAlone ==
  ASSUME AttemptsOK, NEW c \in Callers, InsertOperation(c)
  PROVE  Alone(c, call[c].op)
BY DEF InsertOperation, Alone, AttemptsOK, LiveCallsHold, CommittersHold,
       HoldsClaim, None

LEMMA ReclaimAlone ==
  ASSUME AttemptsOK, NEW c \in Callers, ReclaimOperation(c)
  PROVE  Alone(c, call[c].op)
BY DEF ReclaimOperation, Alone, AttemptsOK, LiveCallsHold, HoldsClaim,
       Reclaimable, Locked

\* Nor, unless leases have been outlasted, on one that a call works on.
LEMMA WorkerAlone ==
  ASSUME AttemptsOK, NEW c \in Callers, call[c].at \in Working,
         "slow" \notin mishaps
  PROVE  Alone(c, call[c].op)
BY OthersAway DEF AttemptsOK, LiveCallsHold, HoldsClaim

LEMMA InsertReserves ==
  ASSUME PayTypes, AttemptsOK, ReservationsOK, NEW c \in Callers,
         InsertOperation(c)
  PROVE  ReservationsOK'
<1> DEFINE o   == call[c].op
           x   == AfterClaim(c, Nothing)
           row == [NoOperation EXCEPT !.state = "in_progress", !.token = c,
                                      !.action = call[c].action,
                                      !.amount = call[c].amount]
<1>1. o \in OpIds /\ ops[o].state = None /\ call[c] \in Call
      /\ call' = [call EXCEPT ![c] = x] /\ ops' = [ops EXCEPT ![o] = row]
      /\ taken' = taken /\ captured' = captured /\ mishaps' = mishaps
  BY DEF InsertOperation, payment, PayTypes, TypeOK, CallsOK, CallOK, Underway
<1>2. row.state = "in_progress" /\ row.reserved = Nothing
  BY DEF NoOperation
<1>3. taken' = [taken EXCEPT ![o] = taken[o]]
  BY <1>1 DEF PayTypes, TypeOK
<1>4. Undisturbed => captured <= Authorized /\ RowHolds(row, taken[o])
  BY <1>1, <1>2 DEF ReservationsOK, RowHolds, None
<1>5. Nothing <= call[c].captured
  BY <1>1 DEF Nothing, Call
<1> HIDE DEF row
<1>6. x.op = o /\ HeldOK(x, row, taken[o])
  BY <1>2, <1>5, UnitsType, AfterClaimHeld
<1>7. Alone(c, o)
  BY InsertAlone
<1> HIDE DEF x, o
<1>8. Undisturbed' => Undisturbed
  BY <1>1 DEF Undisturbed
<1> QED
  BY <1>1, <1>3, <1>4, <1>6, <1>7, <1>8, RowReserves

LEMMA ReclaimReserves ==
  ASSUME PayTypes, AttemptsOK, ReservationsOK, NEW c \in Callers,
         ReclaimOperation(c), mishaps \subseteq mishaps'
  PROVE  ReservationsOK'
<1> DEFINE o   == call[c].op
           h   == ops[o].reserved
           x   == AfterClaim(c, h)
           row == [ops[o] EXCEPT !.state = "in_progress", !.token = c,
                                 !.expired = FALSE]
<1>1. o \in OpIds /\ call[c] \in Call /\ ops[o] \in Operation
      /\ call' = [call EXCEPT ![c] = x] /\ ops' = [ops EXCEPT ![o] = row]
      /\ taken' = taken /\ captured' = captured
  BY DEF ReclaimOperation, payment, PayTypes, TypeOK, CallsOK, CallOK, Underway
<1>2. row.state = "in_progress" /\ row.reserved = h /\ h \in Units
  BY <1>1 DEF Operation
<1>3. taken' = [taken EXCEPT ![o] = taken[o]]
  BY <1>1 DEF PayTypes, TypeOK
<1>4. Alone(c, o)
  BY ReclaimAlone
<1>5. CASE Undisturbed'
  <2>1. Undisturbed
    BY <1>5, UndisturbedBefore
  <2>2. captured <= Authorized /\ RowHolds(row, taken[o])
    BY <1>1, <1>2, <2>1 DEF ReservationsOK, RowHolds, None
  <2>3. ~(h > call[c].captured)
    <3>1. ASSUME h > call[c].captured PROVE FALSE
      <4>1. Happens("overtaken")
        BY <3>1 DEF ReclaimOperation, HappensIf
      <4> QED
        BY <1>5, <4>1, HappensType DEF PayTypes, Undisturbed
    <3> QED
      BY <3>1
  <2>4. h <= call[c].captured
    BY <1>1, <1>2, <2>3, UnitsType DEF Call
  <2> HIDE DEF row
  <2>5. x.op = o /\ HeldOK(x, row, taken[o])
    BY <1>2, <2>4, AfterClaimHeld
  <2> HIDE DEF x, o, h
  <2> QED
    BY <1>1, <1>3, <1>4, <2>2, <2>5, RowReserves
<1>6. CASE ~Undisturbed'
  BY <1>6 DEF ReservationsOK
<1> QED
  BY <1>5, <1>6

\* What holds of a call at work while nothing disturbs.
LEMMA WorkerHolds ==
  ASSUME PayTypes, ReservationsOK, NEW c \in Callers, call[c].at \in Working,
         Undisturbed
  PROVE  /\ HeldOK(call[c], ops[call[c].op], taken[call[c].op])
         /\ RowHolds(ops[call[c].op], taken[call[c].op])
         /\ captured <= Authorized /\ call[c].op \in OpIds
         /\ call[c] \in Call /\ ops[call[c].op] \in Operation
BY DEF PayTypes, TypeOK, CallsOK, CallOK, Underway, ReservationsOK

LEMMA ReuseReserves ==
  ASSUME PayTypes, ReservationsOK, NEW c \in Callers, ReuseReservation(c)
  PROVE  ReservationsOK'
<1> DEFINE h == call[c].held
           x == Asking(c, h, ProviderAmount(c, h))
<1>1. call' = [call EXCEPT ![c] = x] /\ ops' = ops /\ taken' = taken
      /\ captured' = captured /\ mishaps' = mishaps
      /\ call[c].at = "claimed" /\ h # Nothing
  BY DEF ReuseReservation, payment
<1>2. x.at = "asked" /\ x.op = call[c].op /\ x.action = call[c].action
      /\ x.held = h /\ x.asks = ProviderAmount(c, h)
  BY DEF Asking, Idle
<1> HIDE DEF x
<1>3. ASSUME Undisturbed PROVE HeldOK(x, ops[x.op], taken[x.op])
  <2>1. HeldOK(call[c], ops[call[c].op], taken[call[c].op]) /\ call[c] \in Call
    BY <1>1, <1>3, WorkerHolds DEF Working
  <2>2. h = ops[call[c].op].reserved /\ h <= call[c].captured
        /\ call[c].action = "capture"
    BY <1>1, <2>1 DEF HeldOK, Working
  <2>3. h \in Nat /\ call[c].captured \in Nat
    BY <2>1, UnitsType DEF Call
  <2>4. call[c].captured > 0
    BY <1>1, <2>2, <2>3 DEF Nothing
  <2>5. call[c].amount # Omitted => call[c].amount = h
    BY <1>1 DEF PayTypes, CallsOK, CallOK
  <2>6. ProviderAmount(c, h) = h
    BY <2>4, <2>5 DEF ProviderAmount
  <2> QED
    BY <1>1, <1>2, <2>2, <2>6 DEF HeldOK
<1>4. Undisturbed' => Undisturbed
  BY <1>1 DEF Undisturbed
<1> HIDE DEF h
<1> QED
  BY <1>1, <1>3, <1>4, CallReserves

LEMMA ReserveReserves ==
  ASSUME PayTypes, AttemptsOK, ReservationsOK, NEW c \in Callers,
         ReserveCaptureAmount(c)
  PROVE  ReservationsOK'
<1> DEFINE o   == call[c].op
           u   == Requested(c)
           x   == Asking(c, u, ProviderAmount(c, u))
           row == [ops[o] EXCEPT !.reserved = u]
<1>1. call' = [call EXCEPT ![c] = x] /\ ops' = [ops EXCEPT ![o] = row]
      /\ taken' = taken /\ captured' = call[c].captured + u
      /\ mishaps' = mishaps /\ call[c].at = "claimed"
      /\ ops[o].reserved = Nothing
  BY DEF ReserveCaptureAmount, CanReserve
<1>2. o \in OpIds /\ call[c] \in Call /\ ops[o] \in Operation
  BY <1>1 DEF PayTypes, TypeOK, CallsOK, CallOK, Underway, Working
<1>3. call[c].amount \in Nat /\ call[c].captured \in Nat /\ Authorized \in Nat
  BY <1>2, UnitsType DEF Call
<1>4. u \in Int /\ u > 0 /\ u <= Authorized - call[c].captured
  BY <1>3 DEF ReserveCaptureAmount, CanReserve, WithinRemaining, Requested
<1>5. ProviderAmount(c, u) = u
  BY <1>3 DEF ProviderAmount, Requested
<1>6. x.at = "asked" /\ x.op = o /\ x.action = call[c].action
      /\ x.held = u /\ x.asks = u
  BY <1>5 DEF Asking, Idle
<1>7. row.reserved = u /\ row.state = ops[o].state
  BY <1>2 DEF Operation
<1>8. taken' = [taken EXCEPT ![o] = taken[o]]
  BY <1>1, <1>2 DEF PayTypes, TypeOK
<1>9. captured' <= Authorized /\ u # Nothing
  BY <1>1, <1>3, <1>4 DEF Nothing
<1> HIDE DEF x, row, u
<1>10. CASE Undisturbed
  <2>1. HeldOK(call[c], ops[o], taken[o]) /\ RowHolds(ops[o], taken[o])
    BY <1>1, <1>10, WorkerHolds DEF Working
  <2>2. taken[o] = Nothing /\ ops[o].state # None
    BY <1>1, <2>1 DEF RowHolds, PayTypes, CallsOK, CallOK
  <2>3. RowHolds(row, taken[o])
    BY <1>7, <2>2 DEF RowHolds
  <2>4. HeldOK(x, row, taken[o])
    BY <1>1, <1>6, <1>7, <1>9, <2>1 DEF HeldOK, Working
  <2>5. Alone(c, o)
    BY <1>1, <1>10, WorkerAlone DEF Working, Undisturbed
  <2> HIDE DEF o
  <2> QED
    BY <1>1, <1>2, <1>6, <1>8, <1>9, <2>3, <2>4, <2>5, RowReserves
<1>11. CASE ~Undisturbed
  BY <1>1, <1>11 DEF ReservationsOK, Undisturbed
<1> QED
  BY <1>10, <1>11

LEMMA ProviderReserves ==
  ASSUME PayTypes, AttemptsOK, ReservationsOK, NEW c \in Callers,
         ProviderActs(c), mishaps \subseteq mishaps'
  PROVE  ReservationsOK'
<1> DEFINE o == call[c].op
           x == [call[c] EXCEPT !.at = "taken"]
<1>1. call' = [call EXCEPT ![c] = x] /\ ops' = ops /\ captured' = captured
      /\ call[c].at = "asked"
  BY DEF ProviderActs, payment
<1>2. o \in OpIds /\ call[c] \in Call /\ ops[o] \in Operation
  BY <1>1 DEF PayTypes, TypeOK, CallsOK, CallOK, Underway, Working
<1>3. x.at = "taken" /\ x.op = o /\ x.action = call[c].action
      /\ x.held = call[c].held /\ x.asks = call[c].asks
  BY <1>2 DEF Call
<1> HIDE DEF x
<1>4. CASE Undisturbed'
  <2>1. Undisturbed /\ "slow" \notin mishaps
    BY <1>4, UndisturbedBefore
  <2>2. HeldOK(call[c], ops[o], taken[o]) /\ RowHolds(ops[o], taken[o])
        /\ captured <= Authorized
    BY <1>1, <2>1, WorkerHolds DEF Working
  <2>3. CASE call[c].action = "capture" /\ taken[o] = Nothing
    <3>1. PICK n \in 1..call[c].asks :
            /\ HappensIf(n < call[c].asks, "short")
            /\ taken' = [taken EXCEPT ![o] = n]
      BY <2>3 DEF ProviderActs
    <3>2. call[c].asks \in Nat
      BY <1>2, UnitsType DEF Call
    <3>3. ~(n < call[c].asks)
      <4>1. ASSUME n < call[c].asks PROVE FALSE
        <5>1. Happens("short")
          BY <3>1, <4>1 DEF HappensIf
        <5> QED
          BY <1>4, <5>1, HappensType DEF PayTypes, Undisturbed
      <4> QED
        BY <4>1
    <3>4. n = call[c].asks
      BY <3>2, <3>3
    <3>5. call[c].held = ops[o].reserved /\ call[c].asks = call[c].held
          /\ call[c].held # Nothing
      BY <1>1, <2>2, <2>3 DEF HeldOK, Working
    <3>6. HeldOK(x, ops[o], n)
      BY <1>3, <2>3, <3>4, <3>5 DEF HeldOK
    <3>7. RowHolds(ops[o], n)
      BY <2>2, <3>4, <3>5 DEF RowHolds
    <3>8. ops' = [ops EXCEPT ![o] = ops[o]]
      BY <1>1, <1>2 DEF PayTypes, TypeOK
    <3>9. Alone(c, o)
      BY <1>1, <2>1, WorkerAlone DEF Working
    <3> HIDE DEF o
    <3> QED
      BY <1>1, <1>2, <1>3, <2>2, <3>1, <3>6, <3>7, <3>8, <3>9, RowReserves
  <2>4. CASE ~(call[c].action = "capture" /\ taken[o] = Nothing)
    <3>1. taken' = taken
      BY <2>4 DEF ProviderActs
    <3>2. HeldOK(x, ops[o], taken[o])
      BY <1>1, <1>3, <2>2, <2>4 DEF HeldOK, RowHolds, Working
    <3> HIDE DEF o
    <3> QED
      BY <1>1, <1>3, <3>1, <3>2, CallReserves
  <2> QED
    BY <2>3, <2>4
<1>5. CASE ~Undisturbed'
  BY <1>5 DEF ReservationsOK
<1> QED
  BY <1>4, <1>5

LEMMA CommitReserves ==
  ASSUME PayTypes, AttemptsOK, ReservationsOK, NEW c \in Callers,
         CommitOperation(c)
  PROVE  ReservationsOK'
<1> DEFINE o   == call[c].op
           row == [ops[o] EXCEPT !.state = "succeeded", !.result = call[c].answer,
                                 !.expired = FALSE]
<1>1. call' = [call EXCEPT ![c] = Ended] /\ ops' = [ops EXCEPT ![o] = row]
      /\ taken' = taken /\ mishaps' = mishaps /\ call[c].at = "committing"
  BY DEF CommitOperation
<1>2. o \in OpIds /\ call[c] \in Call /\ ops[o] \in Operation /\ taken[o] \in Units
  BY <1>1 DEF PayTypes, TypeOK, CallsOK, CallOK, Underway, Working
<1>3. row.reserved = ops[o].reserved /\ row.state = "succeeded"
  BY <1>2 DEF Operation
<1>4. taken' = [taken EXCEPT ![o] = taken[o]]
  BY <1>1, <1>2 DEF PayTypes, TypeOK
<1> HIDE DEF row
<1>5. CASE Undisturbed
  <2>1. HeldOK(call[c], ops[o], taken[o]) /\ RowHolds(ops[o], taken[o])
        /\ captured <= Authorized
    BY <1>1, <1>5, WorkerHolds DEF Working
  <2>2. call[c].held = Nothing \/ call[c].held = taken[o]
    BY <1>1, <2>1 DEF HeldOK, Working
  <2>3. call[c].captured \in Nat /\ call[c].held \in Nat
    BY <1>2, UnitsType DEF Call
  <2>4. call[c].held = Nothing \/ Settled(c) = call[c].captured
    BY <2>2, <2>3 DEF Settled
  <2>5. captured' = captured
    BY <2>4 DEF CommitOperation
  <2>6. RowHolds(row, taken[o])
    BY <1>3, <2>1 DEF RowHolds, None
  <2>7. Alone(c, o)
    BY <1>1, <1>5, WorkerAlone DEF Working, Undisturbed
  <2>8. Ended.at \notin Working
    BY FixedCallsType DEF Working
  <2> HIDE DEF o
  <2> QED
    BY <1>1, <1>2, <1>4, <2>1, <2>5, <2>6, <2>7, <2>8, RowReserves
<1>6. CASE ~Undisturbed
  BY <1>1, <1>6 DEF ReservationsOK, Undisturbed
<1> QED
  BY <1>5, <1>6

LEMMA ReleaseReserves ==
  ASSUME PayTypes, AttemptsOK, ReservationsOK, NEW c \in Callers,
         ReleaseCaptureAmount(c)
  PROVE  ReservationsOK'
<1> DEFINE o   == call[c].op
           x   == [call[c] EXCEPT !.at = "released"]
           row == [ops[o] EXCEPT !.reserved = Nothing]
<1>1. call' = [call EXCEPT ![c] = x] /\ ops' = [ops EXCEPT ![o] = row]
      /\ taken' = taken /\ mishaps' = mishaps /\ call[c].at = "failing"
      /\ call[c].action = "capture" /\ ~call[c].invoked
  BY DEF ReleaseCaptureAmount, MayRelease
<1>2. o \in OpIds /\ call[c] \in Call /\ ops[o] \in Operation
  BY <1>1 DEF PayTypes, TypeOK, CallsOK, CallOK, Underway, Working
<1>3. row.reserved = Nothing
  BY <1>2 DEF Operation
<1>4. x.at = "released" /\ x.op = o /\ x.action = "capture"
  BY <1>1, <1>2 DEF Call
<1>5. taken' = [taken EXCEPT ![o] = taken[o]]
  BY <1>1, <1>2 DEF PayTypes, TypeOK
<1> HIDE DEF row, x
<1>6. CASE Undisturbed
  <2>1. HeldOK(call[c], ops[o], taken[o]) /\ captured <= Authorized
    BY <1>1, <1>6, WorkerHolds DEF Working
  <2>2. taken[o] = Nothing
    BY <1>1, <2>1 DEF HeldOK, Working
  <2>3. RowHolds(row, taken[o])
    BY <1>3, <2>2 DEF RowHolds
  <2>4. HeldOK(x, row, taken[o])
    BY <1>4 DEF HeldOK
  <2>5. call[c].held \in Nat /\ captured \in Nat /\ Authorized \in Nat
    BY <1>2, UnitsType DEF Call, PayTypes, TypeOK
  <2>6. captured' <= Authorized
    BY <2>1, <2>5 DEF ReleaseCaptureAmount
  <2>7. Alone(c, o)
    BY <1>1, <1>6, WorkerAlone DEF Working, Undisturbed
  <2> HIDE DEF o
  <2> QED
    BY <1>1, <1>2, <1>4, <1>5, <2>3, <2>4, <2>6, <2>7, RowReserves
<1>7. CASE ~Undisturbed
  BY <1>1, <1>7 DEF ReservationsOK, Undisturbed
<1> QED
  BY <1>6, <1>7

LEMMA FailReserves ==
  ASSUME PayTypes, AttemptsOK, ReservationsOK, NEW c \in Callers,
         FailOperation(c)
  PROVE  ReservationsOK'
<1> DEFINE o   == call[c].op
           row == [ops[o] EXCEPT !.state = "failed", !.expired = FALSE]
<1>1. call' = [call EXCEPT ![c] = Ended] /\ (ops' = ops \/ ops' = [ops EXCEPT ![o] = row])
      /\ taken' = taken /\ captured' = captured /\ mishaps' = mishaps
      /\ call[c].at = "released"
  BY DEF FailOperation, payment
<1>2. o \in OpIds /\ call[c] \in Call /\ ops[o] \in Operation
  BY <1>1 DEF PayTypes, TypeOK, CallsOK, CallOK, Underway, Working
<1>3. row.reserved = ops[o].reserved /\ row.state = "failed"
  BY <1>2 DEF Operation
<1>4. taken' = [taken EXCEPT ![o] = taken[o]]
  BY <1>1, <1>2 DEF PayTypes, TypeOK
<1>5. Ended.at \notin Working
  BY FixedCallsType DEF Working
<1> HIDE DEF row
<1>6. CASE Undisturbed /\ ops' # ops
  <2>1. RowHolds(ops[o], taken[o]) /\ captured <= Authorized
    BY <1>1, <1>6, WorkerHolds DEF Working
  <2>2. RowHolds(row, taken[o])
    BY <1>3, <2>1 DEF RowHolds, None
  <2>3. Alone(c, o)
    BY <1>1, <1>6, WorkerAlone DEF Working, Undisturbed
  <2> HIDE DEF o
  <2> QED
    BY <1>1, <1>2, <1>4, <1>5, <1>6, <2>1, <2>2, <2>3, RowReserves
<1>7. CASE ops' = ops
  BY <1>1, <1>5, <1>7, CallReserves
<1>8. CASE ~Undisturbed
  BY <1>1, <1>8 DEF ReservationsOK, Undisturbed
<1> QED
  BY <1>6, <1>7, <1>8

\* The other steps leave rows and money alone.
LEMMA OtherCallReserves ==
  ASSUME PayTypes, ReservationsOK, NEW c \in Callers, mishaps \subseteq mishaps',
         \/ EndWithoutClaim(c) \/ ReserveConflict(c) \/ AnswerArrives(c)
         \/ CallRefused(c) \/ AnswerLost(c) \/ CompleteOperation(c)
         \/ CommitFails(c) \/ KeepReservation(c) \/ CallerDies(c)
  PROVE  ReservationsOK'
<1>0. call[c] \in Call
  BY DEF PayTypes, TypeOK
<1>1. ops' = ops /\ taken' = taken /\ captured' = captured
  BY DEF EndWithoutClaim, ReserveConflict, AnswerArrives, CallRefused, AnswerLost,
         CompleteOperation, CommitFails, KeepReservation, CallerDies, payment
<1>2. ASSUME EndWithoutClaim(c) \/ CallerDies(c) PROVE ReservationsOK'
  <2>1. PICK x \in {Ended, Dead} : call' = [call EXCEPT ![c] = x]
    BY <1>2 DEF EndWithoutClaim, CallerDies
  <2>2. x.at \notin Working
    BY FixedCallsType DEF Working
  <2> QED
    BY <1>1, <2>1, <2>2, CallReserves
<1>3. ASSUME ReserveConflict(c) \/ CallRefused(c) \/ CommitFails(c)
             \/ KeepReservation(c) \/ AnswerLost(c)
      PROVE  ReservationsOK'
  <2>1. PICK to \in {"failing", "released"} : call' = [call EXCEPT ![c].at = to]
    BY <1>3 DEF ReserveConflict, CallRefused, CommitFails, KeepReservation,
                AnswerLost
  <2> DEFINE x == [call[c] EXCEPT !.at = to]
  <2>2. x.at = to /\ x.op = call[c].op /\ x.action = call[c].action
        /\ x.held = call[c].held /\ x.invoked = call[c].invoked
    BY <1>0 DEF Call
  <2>3. call' = [call EXCEPT ![c] = x]
    BY <2>1
  <2>4. call'[c].at = to
    BY <2>2, <2>3 DEF PayTypes, TypeOK
  <2> HIDE DEF x
  <2>5. ASSUME Undisturbed' PROVE HeldOK(x, ops[x.op], taken[x.op])
    <3>1. call[c].at \in Working
      BY <1>3 DEF ReserveConflict, CallRefused, CommitFails, KeepReservation,
                  AnswerLost, Working
    <3>2. HeldOK(call[c], ops[call[c].op], taken[call[c].op])
          /\ RowHolds(ops[call[c].op], taken[call[c].op])
      BY <2>5, <3>1, UndisturbedBefore, WorkerHolds
    <3>3. CASE ReserveConflict(c)
      <4>1. call[c].at = "claimed" /\ call[c].held = Nothing
        BY <3>3 DEF ReserveConflict
      <4>2. taken[call[c].op] = Nothing
        BY <3>2, <4>1 DEF HeldOK, RowHolds, Working
      <4> QED
        BY <2>1, <2>2, <3>2, <4>1, <4>2 DEF HeldOK, Working
    <3>4. CASE CallRefused(c)
      <4>1. call[c].at = "asked"
        BY <3>4 DEF CallRefused
      <4>2. taken[call[c].op] = Nothing
        <5>1. ASSUME taken[call[c].op] # Nothing PROVE FALSE
          <6>1. Happens("unreachable")
            BY <3>4, <5>1 DEF CallRefused, HappensIf
          <6> QED
            BY <2>5, <6>1, HappensType DEF PayTypes, Undisturbed
        <5> QED
          BY <5>1
      <4> QED
        BY <2>1, <2>2, <3>2, <4>1, <4>2 DEF HeldOK, Working
    <3>5. CASE CommitFails(c)
      BY <2>1, <2>2, <3>2, <3>5 DEF CommitFails, HeldOK, Working
    <3>6. CASE KeepReservation(c)
      <4>1. to = "released"
        BY <2>4, <3>6 DEF KeepReservation, PayTypes, TypeOK, Call
      <4> QED
        BY <2>2, <3>1, <3>2, <4>1 DEF HeldOK
    <3>7. CASE AnswerLost(c)
      BY <2>5, <3>7, HappensType DEF AnswerLost, PayTypes, Undisturbed
    <3> QED
      BY <1>3, <3>3, <3>4, <3>5, <3>6, <3>7
  <2> QED
    BY <1>1, <2>3, <2>5, CallReserves
<1>4. CASE AnswerArrives(c)
  <2>1. PICK s \in Answers(c) :
          call' = [call EXCEPT ![c].at = "answered", ![c].invoked = TRUE,
                               ![c].answer = s]
    BY <1>4 DEF AnswerArrives
  <2> DEFINE x == [call[c] EXCEPT !.at = "answered", !.invoked = TRUE,
                                  !.answer = s]
  <2>2. x.at = "answered" /\ x.op = call[c].op /\ x.action = call[c].action
        /\ x.held = call[c].held /\ x.asks = call[c].asks /\ x.invoked
    BY <1>0 DEF Call
  <2>3. call' = [call EXCEPT ![c] = x] /\ call[c].at = "taken"
    BY <1>4, <2>1 DEF AnswerArrives
  <2> HIDE DEF x
  <2>4. ASSUME Undisturbed' PROVE HeldOK(x, ops[x.op], taken[x.op])
    <3>1. HeldOK(call[c], ops[call[c].op], taken[call[c].op])
      BY <2>3, <2>4, UndisturbedBefore, WorkerHolds DEF Working
    <3> QED
      BY <2>2, <2>3, <3>1 DEF HeldOK, Working
  <2> QED
    BY <1>1, <2>3, <2>4, CallReserves
<1>5. CASE CompleteOperation(c)
  <2> DEFINE to == IF HoldsClaim(c) /\ ResultAllowed(status, call[c].answer)
                   THEN "committing" ELSE "failing"
             x  == [call[c] EXCEPT !.at = to, !.status = status,
                                   !.captured = captured]
  <2>1. to \in {"committing", "failing"}
    OBVIOUS
  <2>2. call' = [call EXCEPT ![c] = x] /\ call[c].at = "answered"
    BY <1>5 DEF CompleteOperation
  <2> HIDE DEF to
  <2>3. x.at = to /\ x.op = call[c].op /\ x.action = call[c].action
        /\ x.held = call[c].held /\ x.asks = call[c].asks
        /\ x.invoked = call[c].invoked
    BY <1>0 DEF Call
  <2> HIDE DEF x
  <2>4. ASSUME Undisturbed' PROVE HeldOK(x, ops[x.op], taken[x.op])
    <3>1. HeldOK(call[c], ops[call[c].op], taken[call[c].op])
      BY <2>2, <2>4, UndisturbedBefore, WorkerHolds DEF Working
    <3> QED
      BY <2>1, <2>2, <2>3, <3>1 DEF HeldOK, Working
  <2> QED
    BY <1>1, <2>2, <2>4, CallReserves
<1> QED
  BY <1>2, <1>3, <1>4, <1>5

LEMMA CallerReserves ==
  ASSUME PayTypes, AttemptsOK, ReservationsOK, NEW c \in Callers, CallerStep(c),
         mishaps \subseteq mishaps'
  PROVE  ReservationsOK'
<1>1. ASSUME NEW o \in OpIds, NEW a \in Actions, NEW n \in Amounts,
             Begin(c, o, a, n)
      PROVE  ReservationsOK'
  <2> DEFINE x == [Idle EXCEPT !.at = "read", !.op = o, !.action = a,
                               !.amount = n, !.status = status,
                               !.captured = captured]
  <2>1. x.at = "read" /\ call' = [call EXCEPT ![c] = x] /\ ops' = ops
        /\ taken' = taken /\ captured' = captured
    BY <1>1 DEF Begin, Idle, payment
  <2> HIDE DEF x
  <2> QED
    BY <2>1, CallReserves DEF Working
<1>2. CASE \E o \in OpIds, a \in Actions, n \in Amounts : Begin(c, o, a, n)
  BY <1>1, <1>2
<1>3. CASE ~\E o \in OpIds, a \in Actions, n \in Amounts : Begin(c, o, a, n)
  BY <1>3, InsertReserves, ReclaimReserves, ReuseReserves, ReserveReserves,
     ProviderReserves, CommitReserves, ReleaseReserves, FailReserves,
     OtherCallReserves DEF CallerStep
<1> QED
  BY <1>2, <1>3

LEMMA LeaseReserves ==
  ASSUME PayTypes, ReservationsOK, NEW o \in OpIds, LeaseExpires(o),
         mishaps \subseteq mishaps'
  PROVE  ReservationsOK'
<1>1. ops \in [OpIds -> Operation] /\ ops' = [ops EXCEPT ![o].expired = TRUE]
      /\ call' = call /\ taken' = taken /\ captured' = captured
  BY DEF LeaseExpires, payment, PayTypes, TypeOK
<1>2. \A q \in OpIds : ops'[q].state = ops[q].state
                       /\ ops'[q].reserved = ops[q].reserved
  BY <1>1 DEF Operation
<1>3. \A d \in Callers : call[d].at \in Working => call[d].op \in OpIds
  BY DEF PayTypes, CallsOK, CallOK, Underway
<1>4. Undisturbed' => Undisturbed
  BY UndisturbedBefore
<1> QED
  BY <1>1, <1>2, <1>3, <1>4 DEF ReservationsOK, RowHolds, HeldOK

LEMMA WriterReserves ==
  ASSUME PayTypes, ReservationsOK, NEW w \in Writers, WriterStep(w),
         mishaps \subseteq mishaps'
  PROVE  ReservationsOK'
<1>1. ops' = ops /\ call' = call /\ taken' = taken
  BY DEF WriterStep, ClaimWebhook, SyncReads, SyncWrites, WebhookEnds,
         WebhookThrows, AdapterMissing, WebhookDies, PollReads, PollFails,
         PollWrites
<1>2. Undisturbed' => Undisturbed
  BY UndisturbedBefore
<1>3. captured' = captured \/ captured' = Authorized
  BY DEF WriterStep, ClaimWebhook, SyncReads, SyncWrites, WebhookEnds,
         WebhookThrows, AdapterMissing, WebhookDies, PollReads, PollFails,
         PollWrites, WriteReported, Aligned, payment
<1>4. Authorized <= Authorized
  BY UnitsType
<1> QED
  BY <1>1, <1>2, <1>3, <1>4 DEF ReservationsOK

LEMMA ReservationsInit == Init => ReservationsOK
<1> SUFFICES ASSUME Init PROVE ReservationsOK
  OBVIOUS
<1>1. captured <= Authorized
  BY UnitsType DEF Init
<1>2. \A o \in OpIds : RowHolds(ops[o], taken[o])
  BY DEF Init, RowHolds, NoOperation
<1>3. \A c \in Callers : call[c].at \notin Working
  BY FixedCallsType DEF Init, Working
<1> QED
  BY <1>1, <1>2, <1>3 DEF ReservationsOK

LEMMA ReservationsNext ==
  PayTypes /\ AttemptsOK /\ ReservationsOK /\ [Next]_vars => ReservationsOK'
<1> SUFFICES ASSUME PayTypes, AttemptsOK, ReservationsOK, [Next]_vars
             PROVE  ReservationsOK'
  OBVIOUS
<1>1. mishaps \subseteq mishaps'
  BY MishapsGrow
<1>2. CASE UNCHANGED vars
  BY <1>2 DEF vars, payment, ReservationsOK, Undisturbed
<1> QED
  BY <1>1, <1>2, CallerReserves, LeaseReserves, WriterReserves DEF Next

\* With no call past its lease and no answer lost, no money is taken that
\* nothing is reserved for: across retries and deaths, what an operation has
\* taken is what its row still reserves or has settled, because only the one
\* attempt at work touches the row and none gives back what was taken.
THEOREM TakenMoneyIsReserved == Spec => []TakenIsReserved
<1>1. PayTypes /\ ReservationsOK => TakenIsReserved
  <2> SUFFICES ASSUME PayTypes, ReservationsOK, Undisturbed
               PROVE  /\ \A o \in OpIds : taken[o] <= Owed(o)
                      /\ captured <= Authorized
    BY DEF TakenIsReserved
  <2>1. captured <= Authorized
    BY DEF ReservationsOK
  <2>2. ASSUME NEW o \in OpIds PROVE taken[o] <= Owed(o)
    <3>1. taken[o] \in Nat /\ ops[o].reserved \in Nat
      BY UnitsType DEF PayTypes, TypeOK, Operation
    <3>2. taken[o] = Nothing \/ taken[o] = ops[o].reserved
      BY DEF ReservationsOK, RowHolds
    <3> QED
      BY <3>1, <3>2 DEF Owed, Nothing
  <2> QED
    BY <2>1, <2>2
<1> QED
  BY <1>1, AttemptsAlways, ReservationsInit, ReservationsNext, PTL DEF Spec

-----------------------------------------------------------------------------
(* Totals.  The units of amounts are counted as a set, so that changing the *)
(* amount of one operation replaces its slice of that set.                  *)

Slice(o, n) == {o} \X (1..n)
Others(f, o) == {u \in UnitsOf(f) : u[1] # o}

LEMMA SliceCount ==
  ASSUME NEW o, NEW n \in Nat
  PROVE  IsFiniteSet(Slice(o, n)) /\ Cardinality(Slice(o, n)) = n
<1> DEFINE f == [k \in 1..n |-> <<o, k>>]
<1>1. f \in [1..n -> Slice(o, n)]
  BY DEF Slice
<1>2. \A a, b \in 1..n : f[a] = f[b] => a = b
  OBVIOUS
<1>3. \A u \in Slice(o, n) : \E k \in 1..n : f[k] = u
  BY DEF Slice
<1>4. f \in Bijection(1..n, Slice(o, n))
  BY <1>1, <1>2, <1>3, Fun_IsBij
<1>5. ExistsBijection(1..n, Slice(o, n))
  BY <1>4 DEF ExistsBijection
<1> QED
  BY <1>5, FS_NatBijection, FS_CountingElements

\* The units of one operation are its slice.
LEMMA UnitsSplit ==
  ASSUME NEW f \in [OpIds -> Units], NEW o \in OpIds
  PROVE  /\ UnitsOf(f) = Others(f, o) \cup Slice(o, f[o])
         /\ Others(f, o) \cap Slice(o, f[o]) = {}
<1>1. f[o] \in 0..Authorized /\ Authorized \in Nat
  BY GatewayAssumption DEF Units
<1>2. \A u \in UnitsOf(f) : u[1] = o => u \in Slice(o, f[o])
  BY <1>1 DEF UnitsOf, Slice
<1>3. Slice(o, f[o]) \subseteq UnitsOf(f)
  BY <1>1 DEF UnitsOf, Slice
<1>4. \A u \in Slice(o, f[o]) : u[1] = o
  BY DEF Slice
<1> QED
  BY <1>2, <1>3, <1>4 DEF Others

\* The total is that of the other operations and the amount of this one.
LEMMA TotalSplit ==
  ASSUME NEW f \in [OpIds -> Units], NEW o \in OpIds,
         IsFiniteSet(Others(f, o))
  PROVE  /\ IsFiniteSet(UnitsOf(f))
         /\ Total(f) = Cardinality(Others(f, o)) + f[o]
<1>1. f[o] \in Nat
  BY GatewayAssumption DEF Units
<1>2. IsFiniteSet(Slice(o, f[o])) /\ Cardinality(Slice(o, f[o])) = f[o]
  BY <1>1, SliceCount
<1>3. Cardinality(Others(f, o) \cap Slice(o, f[o])) = 0
  BY UnitsSplit, FS_EmptySet
<1>4. Cardinality(Others(f, o)) \in Nat
  BY FS_CardinalityType
<1>5. /\ IsFiniteSet(Others(f, o) \cup Slice(o, f[o]))
      /\ Cardinality(Others(f, o) \cup Slice(o, f[o])) =
           Cardinality(Others(f, o)) + f[o]
             - Cardinality(Others(f, o) \cap Slice(o, f[o]))
  BY <1>2, FS_Union
<1>6. Cardinality(Others(f, o)) + f[o] - 0 = Cardinality(Others(f, o)) + f[o]
  BY <1>1, <1>4
<1> QED
  BY <1>3, <1>5, <1>6, UnitsSplit DEF Total

\* Changing the amount of one operation changes the total by the difference.
LEMMA TotalChanges ==
  ASSUME NEW f \in [OpIds -> Units], NEW g \in [OpIds -> Units],
         NEW o \in OpIds, \A q \in OpIds : q # o => g[q] = f[q],
         IsFiniteSet(UnitsOf(f))
  PROVE  /\ IsFiniteSet(UnitsOf(g))
         /\ Total(g) \in Nat /\ Total(f) \in Nat
         /\ Total(g) = Total(f) - f[o] + g[o]
<1>1. Others(g, o) = Others(f, o)
  BY DEF Others, UnitsOf
<1>2. IsFiniteSet(Others(f, o))
  BY FS_Subset DEF Others
<1>3. /\ IsFiniteSet(UnitsOf(g)) /\ Total(g) = Cardinality(Others(f, o)) + g[o]
      /\ Total(f) = Cardinality(Others(f, o)) + f[o]
  BY <1>1, <1>2, TotalSplit
<1>4. Cardinality(Others(f, o)) \in Nat /\ f[o] \in Nat /\ g[o] \in Nat
  BY <1>2, FS_CardinalityType, GatewayAssumption DEF Units
<1> QED
  BY <1>3, <1>4

\* Amounts that are nowhere larger come to no more.
LEMMA TotalMonotone ==
  ASSUME NEW f \in [OpIds -> Units], NEW g \in [OpIds -> Units],
         \A o \in OpIds : f[o] <= g[o], IsFiniteSet(UnitsOf(g))
  PROVE  Total(f) \in Nat /\ Total(g) \in Nat /\ Total(f) <= Total(g)
<1>1. \A o \in OpIds : f[o] \in Int /\ g[o] \in Int
  BY GatewayAssumption DEF Units
<1>2. UnitsOf(f) \subseteq UnitsOf(g)
  BY <1>1 DEF UnitsOf
<1> QED
  BY <1>2, FS_Subset, FS_CardinalityType DEF Total

-----------------------------------------------------------------------------
(* The ledger against the reservations.                                    *)

\* A call at work works on a row of its action, and only captures have
\* reservations and take money.
RequestsOK ==
  /\ \A c \in Callers :
       /\ call[c].at \in Working =>
            /\ ops[call[c].op].state # None
            /\ ops[call[c].op].action = call[c].action
       /\ call[c].at = "claimed" => call[c].action = "capture"
  /\ \A o \in OpIds : ops[o].state = None \/ ops[o].action # "capture" =>
       ops[o].reserved = Nothing /\ taken[o] = Nothing

\* A step that gives no call work and changes no request.
LEMMA RequestsStand ==
  ASSUME PayTypes, RequestsOK, NEW c \in Callers, NEW x,
         call' = [call EXCEPT ![c] = x],
         x.at \in Working => /\ call[c].at \in Working
                             /\ x.op = call[c].op
                             /\ x.action = call[c].action,
         x.at = "claimed" => x.action = "capture",
         \A o \in OpIds : ops[o].state # None =>
           ops'[o].state # None /\ ops'[o].action = ops[o].action,
         \A o \in OpIds : ops'[o].state = None \/ ops'[o].action # "capture" =>
           ops'[o].reserved = Nothing /\ taken'[o] = Nothing
  PROVE  RequestsOK'
<1>1. call'[c] = x /\ \A d \in Callers : d # c => call'[d] = call[d]
  BY DEF PayTypes, TypeOK
<1>2. \A d \in Callers : call[d].at \in Working => call[d].op \in OpIds
  BY DEF PayTypes, CallsOK, CallOK, Underway
<1>3. ASSUME NEW d \in Callers
      PROVE  /\ call'[d].at \in Working =>
                  /\ ops'[call'[d].op].state # None
                  /\ ops'[call'[d].op].action = call'[d].action
             /\ call'[d].at = "claimed" => call'[d].action = "capture"
  BY <1>1, <1>2 DEF RequestsOK
<1> QED
  BY <1>3 DEF RequestsOK

\* What a call gets with its claim.
LEMMA AfterClaimRequest ==
  ASSUME PayTypes, NEW c \in Callers, NEW h
  PROVE  LET x == AfterClaim(c, h) IN
         /\ x.op = call[c].op /\ x.action = call[c].action
         /\ x.at = "claimed" => x.action = "capture"
<1>1. call[c] \in Call
  BY DEF PayTypes, TypeOK
<1>2. CASE call[c].action = "capture"
  BY <1>1, <1>2 DEF AfterClaim, Call
<1>3. CASE call[c].action # "capture"
  BY <1>1, <1>3 DEF AfterClaim, Asking, Idle
<1> QED
  BY <1>2, <1>3

\* A claim is of a row that is new, or of the same request.
LEMMA ClaimRequests ==
  ASSUME PayTypes, RequestsOK, NEW c \in Callers,
         InsertOperation(c) \/ ReclaimOperation(c)
  PROVE  RequestsOK'
<1> DEFINE o == call[c].op
<1>1. o \in OpIds /\ ops[o] \in Operation /\ taken' = taken
      /\ call[c].action # None
  BY DEF InsertOperation, ReclaimOperation, PayTypes, TypeOK, CallsOK, CallOK,
         Underway, ManualActions, None
<1>2. PICK h : call' = [call EXCEPT ![c] = AfterClaim(c, h)]
  BY DEF InsertOperation, ReclaimOperation
<1> DEFINE x == AfterClaim(c, h)
<1>3. x.op = o /\ x.action = call[c].action
      /\ (x.at = "claimed" => x.action = "capture")
  BY AfterClaimRequest
<1> HIDE DEF x
<1>4. PICK row : /\ ops' = [ops EXCEPT ![o] = row]
                 /\ row.state # None /\ row.action = call[c].action
                 /\ ops[o].state = None \/ row.action = ops[o].action
                 /\ row.reserved = Nothing \/ row.reserved = ops[o].reserved
  <2>1. CASE InsertOperation(c)
    <3> DEFINE new == [NoOperation EXCEPT !.state = "in_progress",
                         !.token = c, !.action = call[c].action,
                         !.amount = call[c].amount]
    <3>1. ops' = [ops EXCEPT ![o] = new] /\ ops[o].state = None
      BY <2>1 DEF InsertOperation
    <3>2. new.state # None /\ new.action = call[c].action
          /\ new.reserved = Nothing
      BY DEF NoOperation, None
    <3> HIDE DEF new
    <3> QED
      BY <3>1, <3>2
  <2>2. CASE ReclaimOperation(c)
    <3> DEFINE old == [ops[o] EXCEPT !.state = "in_progress", !.token = c,
                                     !.expired = FALSE]
    <3>1. ops' = [ops EXCEPT ![o] = old]
      BY <2>2 DEF ReclaimOperation
    <3>2. ops[o].action = call[c].action
      BY <2>2 DEF ReclaimOperation, SameRequest
    <3>3. old.state # None /\ old.action = ops[o].action
          /\ old.reserved = ops[o].reserved
      BY <1>1 DEF Operation, None
    <3> HIDE DEF old
    <3> QED
      BY <3>1, <3>2, <3>3
  <2> QED
    BY <2>1, <2>2
<1>5. ops'[o] = row /\ \A q \in OpIds : q # o => ops'[q] = ops[q]
  BY <1>1, <1>4 DEF PayTypes, TypeOK
<1>6. call'[c] = x /\ \A d \in Callers : d # c => call'[d] = call[d]
  BY <1>2 DEF PayTypes, TypeOK, x
<1>7. \A d \in Callers : call[d].at \in Working => call[d].op \in OpIds
  BY DEF PayTypes, CallsOK, CallOK, Underway
<1>8. ASSUME NEW q \in OpIds,
             ops'[q].state = None \/ ops'[q].action # "capture"
      PROVE  ops'[q].reserved = Nothing /\ taken'[q] = Nothing
  <2>1. CASE q # o
    BY <1>1, <1>5, <1>8, <2>1 DEF RequestsOK
  <2>2. CASE q = o /\ ops[o].state # None
    BY <1>1, <1>4, <1>5, <1>8, <2>2 DEF RequestsOK
  <2>3. CASE q = o /\ ops[o].state = None
    BY <1>1, <1>4, <1>5, <1>8, <2>3 DEF RequestsOK
  <2> QED
    BY <2>1, <2>2, <2>3
<1>9. ASSUME NEW d \in Callers
      PROVE  /\ call'[d].at \in Working =>
                  /\ ops'[call'[d].op].state # None
                  /\ ops'[call'[d].op].action = call'[d].action
             /\ call'[d].at = "claimed" => call'[d].action = "capture"
  BY <1>3, <1>4, <1>5, <1>6, <1>7 DEF RequestsOK
<1> QED
  BY <1>8, <1>9 DEF RequestsOK

\* The steps of a call at work that leave rows and money alone, or take the
\* money of a capture.
LEMMA MovingRequests ==
  ASSUME PayTypes, RequestsOK, NEW c \in Callers,
         \/ ReserveConflict(c) \/ AnswerArrives(c) \/ CallRefused(c)
         \/ AnswerLost(c) \/ CompleteOperation(c) \/ CommitFails(c)
         \/ KeepReservation(c) \/ ProviderActs(c) \/ ReuseReservation(c)
  PROVE  RequestsOK'
<1> DEFINE o == call[c].op
<1>1. ops' = ops /\ call[c] \in Call /\ call[c].at \in Working /\ o \in OpIds
  BY DEF PayTypes, TypeOK, CallsOK, CallOK, Underway, Working, ReserveConflict,
         AnswerArrives, CallRefused, AnswerLost, CompleteOperation, CommitFails,
         KeepReservation, ProviderActs, ReuseReservation, payment
<1>2. PICK x : /\ call' = [call EXCEPT ![c] = x]
               /\ x.op = o /\ x.action = call[c].action /\ x.at # "claimed"
  <2>1. ASSUME \/ ReserveConflict(c) \/ CallRefused(c) \/ AnswerLost(c)
               \/ CommitFails(c) \/ KeepReservation(c) \/ ProviderActs(c)
        PROVE  \E x : /\ call' = [call EXCEPT ![c] = x]
                      /\ x.op = o /\ x.action = call[c].action
                      /\ x.at # "claimed"
    <3>1. PICK to \in {"failing", "released", "taken"} :
            call' = [call EXCEPT ![c].at = to]
      BY <2>1 DEF ReserveConflict, CallRefused, CommitFails, KeepReservation,
                  AnswerLost, ProviderActs
    <3> DEFINE x == [call[c] EXCEPT !.at = to]
    <3>2. x.at = to /\ x.op = o /\ x.action = call[c].action
      BY <1>1 DEF Call
    <3>3. call' = [call EXCEPT ![c] = x]
      BY <3>1
    <3> HIDE DEF x
    <3> QED
      BY <3>1, <3>2, <3>3
  <2>2. CASE AnswerArrives(c)
    <3>1. PICK s \in Answers(c) :
            call' = [call EXCEPT ![c].at = "answered", ![c].invoked = TRUE,
                                 ![c].answer = s]
      BY <2>2 DEF AnswerArrives
    <3> DEFINE x == [call[c] EXCEPT !.at = "answered", !.invoked = TRUE,
                                    !.answer = s]
    <3>2. x.at = "answered" /\ x.op = o /\ x.action = call[c].action
      BY <1>1 DEF Call
    <3>3. call' = [call EXCEPT ![c] = x]
      BY <3>1
    <3> HIDE DEF x
    <3> QED
      BY <3>2, <3>3
  <2>3. CASE CompleteOperation(c)
    <3> DEFINE to == IF HoldsClaim(c) /\ ResultAllowed(status, call[c].answer)
                     THEN "committing" ELSE "failing"
               x  == [call[c] EXCEPT !.at = to, !.status = status,
                                     !.captured = captured]
    <3>1. to # "claimed"
      OBVIOUS
    <3>2. call' = [call EXCEPT ![c] = x]
      BY <2>3 DEF CompleteOperation
    <3> HIDE DEF to
    <3>3. x.at = to /\ x.op = o /\ x.action = call[c].action
      BY <1>1 DEF Call
    <3> HIDE DEF x
    <3> QED
      BY <3>1, <3>2, <3>3
  <2>4. CASE ReuseReservation(c)
    <3>1. PICK h, n : call' = [call EXCEPT ![c] = Asking(c, h, n)]
      BY <2>4 DEF ReuseReservation
    <3> DEFINE x == Asking(c, h, n)
    <3>2. x.at = "asked" /\ x.op = o /\ x.action = call[c].action
      BY DEF Asking, Idle
    <3> HIDE DEF x
    <3> QED
      BY <3>1, <3>2 DEF x
  <2> QED
    BY <2>1, <2>2, <2>3, <2>4
<1>3. ASSUME NEW q \in OpIds, ops[q].state = None \/ ops[q].action # "capture"
      PROVE  taken'[q] = Nothing
  <2>1. taken[q] = Nothing
    BY <1>3 DEF RequestsOK
  <2>2. CASE taken' = taken
    BY <2>1, <2>2
  <2>3. CASE ProviderActs(c) /\ taken' # taken
    <3>1. PICK n \in 1..call[c].asks : taken' = [taken EXCEPT ![o] = n]
      BY <2>3 DEF ProviderActs
    <3>2. call[c].action = "capture"
      BY <2>3 DEF ProviderActs
    <3>3. q # o
      BY <1>1, <1>3, <3>2 DEF RequestsOK
    <3> QED
      BY <2>1, <3>1, <3>3 DEF PayTypes, TypeOK
  <2> QED
    BY <2>2, <2>3 DEF ReserveConflict, AnswerArrives, CallRefused, AnswerLost,
       CompleteOperation, CommitFails, KeepReservation, ReuseReservation
<1> HIDE DEF o
<1>4. \A q \in OpIds : ops'[q].state = None \/ ops'[q].action # "capture" =>
        ops'[q].reserved = Nothing /\ taken'[q] = Nothing
  BY <1>1, <1>3 DEF RequestsOK
<1> QED
  BY <1>1, <1>2, <1>4, RequestsStand DEF o

\* The steps of a call that change the row of its operation, and keep its
\* request: only a capture comes to reserve.
LEMMA RowRequests ==
  ASSUME PayTypes, RequestsOK, NEW c \in Callers,
         \/ ReserveCaptureAmount(c) \/ CommitOperation(c)
         \/ ReleaseCaptureAmount(c) \/ FailOperation(c)
  PROVE  RequestsOK'
<1> DEFINE o == call[c].op
<1>1. taken' = taken /\ call[c] \in Call /\ call[c].at \in Working /\ o \in OpIds
      /\ ops[o] \in Operation
  BY DEF PayTypes, TypeOK, CallsOK, CallOK, Underway, Working,
         ReserveCaptureAmount, CommitOperation, ReleaseCaptureAmount,
         FailOperation
<1>2. ops[o].state # None /\ ops[o].action = call[c].action
  BY <1>1 DEF RequestsOK
<1>3. PICK x : /\ call' = [call EXCEPT ![c] = x]
               /\ x.at \in Working => x.op = o /\ x.action = call[c].action
               /\ x.at # "claimed"
  <2>1. CASE CommitOperation(c) \/ FailOperation(c)
    <3>1. call' = [call EXCEPT ![c] = Ended]
      BY <2>1 DEF CommitOperation, FailOperation
    <3> QED
      BY <3>1, FixedCallsType DEF Working
  <2>2. CASE ReserveCaptureAmount(c)
    <3>1. PICK h, n : call' = [call EXCEPT ![c] = Asking(c, h, n)]
      BY <2>2 DEF ReserveCaptureAmount
    <3> DEFINE x == Asking(c, h, n)
    <3>2. x.at = "asked" /\ x.op = o /\ x.action = call[c].action
      BY DEF Asking, Idle
    <3> HIDE DEF x
    <3> QED
      BY <3>1, <3>2 DEF x
  <2>3. CASE ReleaseCaptureAmount(c)
    <3> DEFINE x == [call[c] EXCEPT !.at = "released"]
    <3>1. call' = [call EXCEPT ![c] = x]
      BY <2>3 DEF ReleaseCaptureAmount
    <3>2. x.at = "released" /\ x.op = o /\ x.action = call[c].action
      BY <1>1 DEF Call
    <3> HIDE DEF x
    <3> QED
      BY <3>1, <3>2
  <2> QED
    BY <2>1, <2>2, <2>3
<1>4. PICK row : /\ ops' = [ops EXCEPT ![o] = row]
                 /\ row.state # None /\ row.action = ops[o].action
                 /\ \/ row.reserved = Nothing \/ row.reserved = ops[o].reserved
                    \/ row.action = "capture"
  <2>1. CASE CommitOperation(c)
    <3> DEFINE row == [ops[o] EXCEPT !.state = "succeeded",
                                     !.result = call[c].answer,
                                     !.expired = FALSE]
    <3>1. ops' = [ops EXCEPT ![o] = row]
      BY <2>1 DEF CommitOperation
    <3>2. row.state # None /\ row.action = ops[o].action
          /\ row.reserved = ops[o].reserved
      BY <1>1 DEF Operation, None
    <3> HIDE DEF row
    <3> QED
      BY <3>1, <3>2
  <2>2. CASE FailOperation(c)
    <3> DEFINE row == [ops[o] EXCEPT !.state = "failed", !.expired = FALSE]
    <3>1. CASE ops' = [ops EXCEPT ![o] = row]
      <4>1. row.state # None /\ row.action = ops[o].action
            /\ row.reserved = ops[o].reserved
        BY <1>1 DEF Operation, None
      <4> HIDE DEF row
      <4> QED
        BY <3>1, <4>1
    <3>2. CASE ops' = ops
      <4>1. ops' = [ops EXCEPT ![o] = ops[o]]
        BY <1>1, <3>2 DEF PayTypes, TypeOK
      <4> QED
        BY <1>2, <4>1
    <3> QED
      BY <2>2, <3>1, <3>2 DEF FailOperation
  <2>3. CASE ReserveCaptureAmount(c)
    <3> DEFINE row == [ops[o] EXCEPT !.reserved = Requested(c)]
    <3>1. ops' = [ops EXCEPT ![o] = row] /\ call[c].at = "claimed"
      BY <2>3 DEF ReserveCaptureAmount
    <3>2. row.state = ops[o].state /\ row.action = ops[o].action
      BY <1>1 DEF Operation
    <3> HIDE DEF row
    <3> QED
      BY <1>2, <3>1, <3>2 DEF RequestsOK
  <2>4. CASE ReleaseCaptureAmount(c)
    <3> DEFINE row == [ops[o] EXCEPT !.reserved = Nothing]
    <3>1. ops' = [ops EXCEPT ![o] = row]
      BY <2>4 DEF ReleaseCaptureAmount
    <3>2. row.state = ops[o].state /\ row.action = ops[o].action
          /\ row.reserved = Nothing
      BY <1>1 DEF Operation
    <3> HIDE DEF row
    <3> QED
      BY <1>2, <3>1, <3>2
  <2> QED
    BY <2>1, <2>2, <2>3, <2>4
<1>5. ops'[o] = row /\ \A q \in OpIds : q # o => ops'[q] = ops[q]
  BY <1>1, <1>4 DEF PayTypes, TypeOK
<1>6. \A q \in OpIds : ops[q].state # None =>
        ops'[q].state # None /\ ops'[q].action = ops[q].action
  BY <1>4, <1>5
<1>7. \A q \in OpIds : ops'[q].state = None \/ ops'[q].action # "capture" =>
        ops'[q].reserved = Nothing /\ taken'[q] = Nothing
  BY <1>1, <1>2, <1>4, <1>5 DEF RequestsOK
<1> HIDE DEF o
<1> QED
  BY <1>1, <1>3, <1>6, <1>7, RequestsStand DEF o

LEMMA CallerRequests ==
  ASSUME PayTypes, RequestsOK, NEW c \in Callers, CallerStep(c)
  PROVE  RequestsOK'
<1>1. CASE EndWithoutClaim(c) \/ CallerDies(c)
  <2>1. PICK x \in {Ended, Dead} : call' = [call EXCEPT ![c] = x]
    BY <1>1 DEF EndWithoutClaim, CallerDies
  <2>2. x.at \notin Working /\ x.at # "claimed"
    BY FixedCallsType DEF Working
  <2>3. ops' = ops /\ taken' = taken
    BY <1>1 DEF EndWithoutClaim, CallerDies
  <2> QED
    BY <2>1, <2>2, <2>3, RequestsStand DEF RequestsOK
<1>2. ASSUME NEW o \in OpIds, NEW a \in Actions, NEW n \in Amounts,
             Begin(c, o, a, n)
      PROVE  RequestsOK'
  <2> DEFINE x == [Idle EXCEPT !.at = "read", !.op = o, !.action = a,
                               !.amount = n, !.status = status,
                               !.captured = captured]
  <2>1. x.at = "read" /\ call' = [call EXCEPT ![c] = x] /\ ops' = ops
        /\ taken' = taken
    BY <1>2 DEF Begin, Idle
  <2> HIDE DEF x
  <2>2. x.at \notin Working /\ x.at # "claimed"
    BY <2>1 DEF Working
  <2> QED
    BY <2>1, <2>2, RequestsStand DEF RequestsOK
<1> QED
  BY <1>1, <1>2, ClaimRequests, MovingRequests, RowRequests DEF CallerStep

LEMMA RequestsNext ==
  ASSUME PayTypes, RequestsOK, [Next]_vars
  PROVE  RequestsOK'
<1>1. CASE UNCHANGED <<ops, call, taken>>
  BY <1>1 DEF RequestsOK
<1>2. ASSUME NEW w \in Writers, WriterStep(w)
      PROVE  UNCHANGED <<ops, call, taken>>
  BY <1>2 DEF WriterStep, ClaimWebhook, SyncReads, SyncWrites, WebhookEnds,
         WebhookThrows, AdapterMissing, WebhookDies, PollReads, PollFails,
         PollWrites
<1>3. ASSUME NEW o \in OpIds, LeaseExpires(o)
      PROVE  RequestsOK'
  <2>1. ops \in [OpIds -> Operation] /\ ops' = [ops EXCEPT ![o].expired = TRUE]
        /\ call' = call /\ taken' = taken
    BY <1>3 DEF LeaseExpires, PayTypes, TypeOK
  <2>2. \A q \in OpIds : /\ ops'[q].state = ops[q].state
                         /\ ops'[q].action = ops[q].action
                         /\ ops'[q].reserved = ops[q].reserved
    BY <2>1 DEF Operation
  <2>3. \A d \in Callers : call[d].at \in Working => call[d].op \in OpIds
    BY DEF PayTypes, CallsOK, CallOK, Underway
  <2> QED
    BY <2>1, <2>2, <2>3 DEF RequestsOK
<1> QED
  BY <1>1, <1>2, <1>3, CallerRequests DEF Next, vars

LEMMA RequestsInit == Init => RequestsOK
BY FixedCallsType DEF Init, RequestsOK, Working, Idle, NoOperation

SettledRows == \A o \in OpIds : ops[o].state = "succeeded" =>
                 taken[o] = ops[o].reserved

\* While nothing disturbs, the ledger covers what the rows reserve, is just that
\* as long as no report has raised it, and a row that has succeeded has taken
\* what it reserves.
LedgerOK ==
  Undisturbed =>
    /\ SettledRows
    /\ IsFiniteSet(UnitsOf(Reservations))
    /\ Total(Reservations) <= captured
    /\ ~raised => Total(Reservations) = captured

LEMMA ReservationsType ==
  ASSUME PayTypes
  PROVE  Reservations \in [OpIds -> Units]
BY DEF PayTypes, TypeOK, Operation, Reservations

\* A step that leaves the ledger and the reservations alone.
LEMMA LedgerStands ==
  ASSUME LedgerOK, mishaps \subseteq mishaps', Reservations' = Reservations,
         captured' = captured, raised' = raised, Undisturbed' => SettledRows'
  PROVE  LedgerOK'
<1>1. Undisturbed' => Undisturbed
  BY UndisturbedBefore
<1>2. UnitsOf(Reservations)' = UnitsOf(Reservations)
  BY DEF UnitsOf
<1>3. Total(Reservations)' = Total(Reservations)
  BY <1>2 DEF Total
<1> QED
  BY <1>1, <1>2, <1>3 DEF LedgerOK

\* A call at work holds a row that has not succeeded.
LEMMA WorkerUnsettled ==
  ASSUME AttemptsOK, NEW c \in Callers, call[c].at \in Working,
         "slow" \notin mishaps
  PROVE  ops[call[c].op].state = "in_progress"
BY DEF AttemptsOK, LiveCallsHold, HoldsClaim

\* A step that gives a row to be claimed, or to fail, reserves nothing.
LEMMA ClaimLedger ==
  ASSUME PayTypes, AttemptsOK, RequestsOK, LedgerOK, NEW c \in Callers,
         InsertOperation(c) \/ ReclaimOperation(c) \/ FailOperation(c),
         mishaps \subseteq mishaps'
  PROVE  LedgerOK'
<1> DEFINE o == call[c].op
<1>1. o \in OpIds /\ ops[o] \in Operation /\ taken' = taken
      /\ captured' = captured /\ raised' = raised
  BY DEF InsertOperation, ReclaimOperation, FailOperation, PayTypes, TypeOK,
         CallsOK, CallOK, Underway, Working, payment
<1>2. PICK row : /\ ops' = [ops EXCEPT ![o] = row]
                 /\ row = ops[o] \/ row.state # "succeeded"
                 /\ row.reserved = ops[o].reserved
  <2>1. CASE InsertOperation(c)
    <3> DEFINE new == [NoOperation EXCEPT !.state = "in_progress",
                         !.token = c, !.action = call[c].action,
                         !.amount = call[c].amount]
    <3>1. ops' = [ops EXCEPT ![o] = new] /\ ops[o].state = None
      BY <2>1 DEF InsertOperation
    <3>2. new.state = "in_progress" /\ new.reserved = Nothing
      BY DEF NoOperation
    <3> HIDE DEF new
    <3>3. ops[o].reserved = Nothing
      BY <1>1, <3>1 DEF RequestsOK
    <3> QED
      BY <3>1, <3>2, <3>3
  <2>2. CASE ReclaimOperation(c)
    <3> DEFINE new == [ops[o] EXCEPT !.state = "in_progress", !.token = c,
                                     !.expired = FALSE]
    <3>1. ops' = [ops EXCEPT ![o] = new]
      BY <2>2 DEF ReclaimOperation
    <3>2. new.state = "in_progress" /\ new.reserved = ops[o].reserved
      BY <1>1 DEF Operation
    <3> HIDE DEF new
    <3> QED
      BY <3>1, <3>2
  <2>3. CASE FailOperation(c)
    <3> DEFINE new == [ops[o] EXCEPT !.state = "failed", !.expired = FALSE]
    <3>1. ops' = [ops EXCEPT ![o] = new] \/ ops' = ops
      BY <2>3 DEF FailOperation
    <3>2. new.state = "failed" /\ new.reserved = ops[o].reserved
      BY <1>1 DEF Operation
    <3>3. ops = [ops EXCEPT ![o] = ops[o]]
      BY <1>1 DEF PayTypes, TypeOK
    <3> HIDE DEF new
    <3> QED
      BY <3>1, <3>2, <3>3
  <2> QED
    BY <2>1, <2>2, <2>3
<1>3. ops'[o] = row /\ \A q \in OpIds : q # o => ops'[q] = ops[q]
  BY <1>1, <1>2 DEF PayTypes, TypeOK
<1>4. Reservations' = Reservations
  BY <1>2, <1>3 DEF Reservations
<1>5. Undisturbed' => SettledRows'
  BY <1>1, <1>2, <1>3, UndisturbedBefore DEF LedgerOK, SettledRows
<1> QED
  BY <1>1, <1>4, <1>5, LedgerStands

\* A reservation adds the same to both sides.
LEMMA ReserveLedger ==
  ASSUME PayTypes, AttemptsOK, LedgerOK, NEW c \in Callers,
         ReserveCaptureAmount(c)
  PROVE  LedgerOK'
<1> DEFINE o   == call[c].op
           u   == Requested(c)
           row == [ops[o] EXCEPT !.reserved = u]
<1>1. ops' = [ops EXCEPT ![o] = row] /\ captured' = captured + u
      /\ taken' = taken /\ raised' = raised /\ mishaps' = mishaps
      /\ call[c].at = "claimed" /\ ops[o].reserved = Nothing
  BY DEF ReserveCaptureAmount, CanReserve, LedgerUnmoved
<1>2. o \in OpIds /\ ops[o] \in Operation /\ captured \in Nat /\ call[c] \in Call
  BY <1>1 DEF PayTypes, TypeOK, CallsOK, CallOK, Underway, Working
<1>3. row.reserved = u /\ row.state = ops[o].state
  BY <1>2 DEF Operation
<1>4. u \in Units
  <2>1. call[c].captured \in Nat /\ call[c].amount \in Nat /\ Authorized \in Nat
    BY <1>2, UnitsType DEF Call
  <2> QED
    BY <2>1 DEF ReserveCaptureAmount, CanReserve, WithinRemaining, Requested,
                Units
<1> HIDE DEF row, u
<1>5. ops'[o] = row /\ \A q \in OpIds : q # o => ops'[q] = ops[q]
  BY <1>1, <1>2 DEF PayTypes, TypeOK
<1> HIDE DEF o
<1> SUFFICES ASSUME Undisturbed'
             PROVE  /\ SettledRows' /\ IsFiniteSet(UnitsOf(Reservations'))
                    /\ Total(Reservations') <= captured'
                    /\ ~raised => Total(Reservations') = captured'
  BY <1>1 DEF LedgerOK, Total, UnitsOf
<1>6. Undisturbed /\ "slow" \notin mishaps
  BY <1>1 DEF Undisturbed
<1>7. ops[o].state = "in_progress"
  BY <1>1, <1>6, WorkerUnsettled DEF o, Working
<1>8. SettledRows'
  BY <1>1, <1>3, <1>5, <1>6, <1>7 DEF LedgerOK, SettledRows
<1>9. Reservations \in [OpIds -> Units] /\ Reservations' \in [OpIds -> Units]
      /\ Reservations[o] = 0 /\ Reservations'[o] = u
      /\ \A q \in OpIds : q # o => Reservations'[q] = Reservations[q]
  <2>1. Reservations \in [OpIds -> Units]
    BY ReservationsType
  <2>2. \A q \in OpIds : Reservations'[q] = ops'[q].reserved
                         /\ Reservations[q] = ops[q].reserved
    BY DEF Reservations
  <2>3. Reservations' = [q \in OpIds |-> Reservations'[q]]
    BY DEF Reservations
  <2>4. \A q \in OpIds : Reservations'[q] \in Units
    BY <1>3, <1>4, <1>5, <2>1, <2>2
  <2> QED
    BY <1>1, <1>2, <1>3, <1>5, <2>1, <2>2, <2>3, <2>4 DEF Nothing
<1>10. /\ IsFiniteSet(UnitsOf(Reservations')) /\ Total(Reservations) \in Nat
       /\ Total(Reservations') = Total(Reservations) - 0 + u
  BY <1>2, <1>6, <1>9, TotalChanges DEF LedgerOK
<1>11. u \in Nat
  BY <1>4, UnitsType
<1> QED
  BY <1>1, <1>2, <1>6, <1>8, <1>10, <1>11 DEF LedgerOK

\* A release takes the same from both sides, and so never has to stop at zero.
LEMMA ReleaseLedger ==
  ASSUME PayTypes, AttemptsOK, ReservationsOK, LedgerOK, NEW c \in Callers,
         ReleaseCaptureAmount(c)
  PROVE  LedgerOK'
<1> DEFINE o   == call[c].op
           h   == call[c].held
           row == [ops[o] EXCEPT !.reserved = Nothing]
<1>1. ops' = [ops EXCEPT ![o] = row] /\ taken' = taken /\ raised' = raised
      /\ captured' = (IF captured - h < 0 THEN 0 ELSE captured - h)
      /\ mishaps' = mishaps /\ call[c].at = "failing" /\ ops[o].reserved = h
  BY DEF ReleaseCaptureAmount
<1>2. o \in OpIds /\ ops[o] \in Operation /\ captured \in Nat /\ h \in Nat
  BY <1>1, UnitsType DEF PayTypes, TypeOK, CallsOK, CallOK, Underway, Working,
                         Call
<1>3. row.reserved = 0 /\ row.state = ops[o].state
  BY <1>2 DEF Operation, Nothing
<1> HIDE DEF row, h
<1>4. ops'[o] = row /\ \A q \in OpIds : q # o => ops'[q] = ops[q]
  BY <1>1, <1>2 DEF PayTypes, TypeOK
<1> HIDE DEF o
<1> SUFFICES ASSUME Undisturbed'
             PROVE  /\ SettledRows' /\ IsFiniteSet(UnitsOf(Reservations'))
                    /\ Total(Reservations') <= captured'
                    /\ ~raised => Total(Reservations') = captured'
  BY <1>1 DEF LedgerOK, Total, UnitsOf
<1>5. Undisturbed /\ "slow" \notin mishaps
  BY <1>1 DEF Undisturbed
<1>6. ops[o].state = "in_progress"
  BY <1>1, <1>5, WorkerUnsettled DEF o, Working
<1>7. SettledRows'
  BY <1>1, <1>3, <1>4, <1>5, <1>6 DEF LedgerOK, SettledRows
<1>8. Reservations \in [OpIds -> Units] /\ Reservations' \in [OpIds -> Units]
      /\ Reservations[o] = h /\ Reservations'[o] = 0
      /\ \A q \in OpIds : q # o => Reservations'[q] = Reservations[q]
  <2>1. Reservations \in [OpIds -> Units]
    BY ReservationsType
  <2>2. \A q \in OpIds : Reservations'[q] = ops'[q].reserved
                         /\ Reservations[q] = ops[q].reserved
    BY DEF Reservations
  <2>3. Reservations' = [q \in OpIds |-> Reservations'[q]]
    BY DEF Reservations
  <2>4. \A q \in OpIds : Reservations'[q] \in Units
    BY <1>3, <1>4, <2>1, <2>2, UnitsType DEF Nothing
  <2> QED
    BY <1>1, <1>2, <1>3, <1>4, <2>1, <2>2, <2>3, <2>4
<1>9. /\ IsFiniteSet(UnitsOf(Reservations')) /\ Total(Reservations) \in Nat
      /\ Total(Reservations') \in Nat
      /\ Total(Reservations') = Total(Reservations) - h + 0
  BY <1>2, <1>5, <1>8, TotalChanges DEF LedgerOK
<1>10. Total(Reservations) <= captured
       /\ (~raised => Total(Reservations) = captured)
  BY <1>5 DEF LedgerOK
<1>11. captured' = captured - h
  BY <1>1, <1>2, <1>9, <1>10
<1> QED
  BY <1>2, <1>7, <1>9, <1>10, <1>11

\* A completion settles what was reserved, which is what was taken.
LEMMA CommitLedger ==
  ASSUME PayTypes, AttemptsOK, ReservationsOK, RequestsOK, LedgerOK,
         NEW c \in Callers, CommitOperation(c)
  PROVE  LedgerOK'
<1> DEFINE o   == call[c].op
           row == [ops[o] EXCEPT !.state = "succeeded", !.result = call[c].answer,
                                 !.expired = FALSE]
<1>1. ops' = [ops EXCEPT ![o] = row] /\ taken' = taken /\ raised' = raised
      /\ mishaps' = mishaps /\ call[c].at = "committing"
  BY DEF CommitOperation
<1>2. o \in OpIds /\ ops[o] \in Operation /\ call[c] \in Call
  BY <1>1 DEF PayTypes, TypeOK, CallsOK, CallOK, Underway, Working
<1>3. row.reserved = ops[o].reserved
  BY <1>2 DEF Operation
<1> HIDE DEF row
<1>4. ops'[o] = row /\ \A q \in OpIds : q # o => ops'[q] = ops[q]
  BY <1>1, <1>2 DEF PayTypes, TypeOK
<1>5. Reservations' = Reservations
  BY <1>3, <1>4 DEF Reservations
<1>6. CASE Undisturbed
  <2>1. HeldOK(call[c], ops[o], taken[o])
    BY <1>1, <1>6, WorkerHolds DEF Working
  <2>2. taken[o] = ops[o].reserved
    <3>1. CASE call[c].action = "capture"
      BY <1>1, <2>1, <3>1 DEF HeldOK, Working
    <3>2. CASE call[c].action # "capture"
      BY <1>1, <1>2, <3>2 DEF RequestsOK, Working
    <3> QED
      BY <3>1, <3>2
  <2>3. SettledRows'
    BY <1>1, <1>3, <1>4, <1>6, <2>2 DEF LedgerOK, SettledRows
  <2>4. call[c].held = Nothing \/ call[c].held = taken[o]
    BY <1>1, <2>1 DEF HeldOK, Working
  <2>5. call[c].captured \in Nat /\ call[c].held \in Nat
    BY <1>2, UnitsType DEF Call
  <2>6. call[c].held = Nothing \/ Settled(c) = call[c].captured
    BY <2>4, <2>5 DEF Settled
  <2>7. captured' = captured
    BY <2>6 DEF CommitOperation
  <2> QED
    BY <1>1, <1>5, <2>3, <2>7, LedgerStands
<1>7. CASE ~Undisturbed
  BY <1>1, <1>7 DEF LedgerOK, Undisturbed
<1> QED
  BY <1>6, <1>7

\* The provider takes the money of a row that has not succeeded.
LEMMA ProviderLedger ==
  ASSUME PayTypes, AttemptsOK, LedgerOK, NEW c \in Callers, ProviderActs(c),
         mishaps \subseteq mishaps'
  PROVE  LedgerOK'
<1> DEFINE o == call[c].op
<1>1. ops' = ops /\ captured' = captured /\ raised' = raised
      /\ call[c].at = "asked"
  BY DEF ProviderActs, payment
<1>2. Reservations' = Reservations
  BY <1>1 DEF Reservations
<1>3. taken' = taken \/ \E n : taken' = [taken EXCEPT ![o] = n]
  BY DEF ProviderActs
<1>4. \A q \in OpIds : q # o => taken'[q] = taken[q]
  BY <1>3 DEF PayTypes, TypeOK
<1> HIDE DEF o
<1>5. ASSUME Undisturbed' PROVE SettledRows'
  <2>1. Undisturbed /\ "slow" \notin mishaps
    BY <1>5, UndisturbedBefore
  <2>2. ops[o].state = "in_progress"
    BY <1>1, <2>1, WorkerUnsettled DEF o, Working
  <2> QED
    BY <1>1, <1>4, <2>1, <2>2 DEF LedgerOK, SettledRows
<1> QED
  BY <1>1, <1>2, <1>5, LedgerStands

LEMMA CallerLedger ==
  ASSUME PayTypes, AttemptsOK, ReservationsOK, RequestsOK, LedgerOK,
         NEW c \in Callers, CallerStep(c), mishaps \subseteq mishaps'
  PROVE  LedgerOK'
<1>1. CASE ops' = ops /\ captured' = captured /\ raised' = raised /\ taken' = taken
  <2>1. Reservations' = Reservations
    BY <1>1 DEF Reservations
  <2>2. Undisturbed' => SettledRows'
    BY <1>1, UndisturbedBefore DEF LedgerOK, SettledRows
  <2> QED
    BY <1>1, <2>1, <2>2, LedgerStands
<1>2. CASE \/ \E o \in OpIds, a \in Actions, n \in Amounts : Begin(c, o, a, n)
           \/ EndWithoutClaim(c) \/ ReuseReservation(c) \/ ReserveConflict(c)
           \/ AnswerArrives(c) \/ CallRefused(c) \/ AnswerLost(c)
           \/ CompleteOperation(c) \/ CommitFails(c) \/ KeepReservation(c)
           \/ CallerDies(c)
  BY <1>1, <1>2 DEF Begin, EndWithoutClaim, ReuseReservation, ReserveConflict,
       AnswerArrives, CallRefused, AnswerLost, CompleteOperation, CommitFails,
       KeepReservation, CallerDies, payment
<1> QED
  BY <1>2, ClaimLedger, ReserveLedger, ReleaseLedger, CommitLedger,
     ProviderLedger DEF CallerStep

LEMMA LeaseLedger ==
  ASSUME PayTypes, LedgerOK, NEW o \in OpIds, LeaseExpires(o),
         mishaps \subseteq mishaps'
  PROVE  LedgerOK'
<1>1. ops \in [OpIds -> Operation] /\ ops' = [ops EXCEPT ![o].expired = TRUE]
      /\ taken' = taken /\ captured' = captured /\ raised' = raised
  BY DEF LeaseExpires, payment, PayTypes, TypeOK
<1>2. \A q \in OpIds : ops'[q].state = ops[q].state
                       /\ ops'[q].reserved = ops[q].reserved
  BY <1>1 DEF Operation
<1>3. Reservations' = Reservations
  BY <1>2 DEF Reservations
<1>4. Undisturbed' => SettledRows'
  BY <1>1, <1>2, UndisturbedBefore DEF LedgerOK, SettledRows
<1> QED
  BY <1>1, <1>3, <1>4, LedgerStands

\* A report raises the ledger to the authorization, where reservations end.
LEMMA WriterLedger ==
  ASSUME PayTypes, ReservationsOK, LedgerOK, NEW w \in Writers, WriterStep(w),
         mishaps \subseteq mishaps'
  PROVE  LedgerOK'
<1>1. ops' = ops /\ taken' = taken
  BY DEF WriterStep, ClaimWebhook, SyncReads, SyncWrites, WebhookEnds,
         WebhookThrows, AdapterMissing, WebhookDies, PollReads, PollFails,
         PollWrites
<1>2. \/ captured' = captured /\ raised' = raised
      \/ captured' = Authorized /\ raised' = TRUE
  BY DEF WriterStep, ClaimWebhook, SyncReads, SyncWrites, WebhookEnds,
         WebhookThrows, AdapterMissing, WebhookDies, PollReads, PollFails,
         PollWrites, WriteReported, Aligned, payment
<1>3. Reservations' = Reservations
  BY <1>1 DEF Reservations
<1>4. Undisturbed' => Undisturbed
  BY UndisturbedBefore
<1>5. Undisturbed' => SettledRows'
  BY <1>1, <1>4 DEF LedgerOK, SettledRows
<1>6. CASE captured' = captured /\ raised' = raised
  BY <1>3, <1>5, <1>6, LedgerStands
<1>7. CASE captured' = Authorized /\ raised' = TRUE
  <2> SUFFICES ASSUME Undisturbed'
               PROVE  /\ SettledRows' /\ IsFiniteSet(UnitsOf(Reservations'))
                      /\ Total(Reservations') <= captured'
                      /\ raised'
    BY DEF LedgerOK, Total, UnitsOf
  <2>1. /\ IsFiniteSet(UnitsOf(Reservations))
        /\ Total(Reservations) <= captured /\ captured <= Authorized
    BY <1>4 DEF LedgerOK, ReservationsOK
  <2>2. Total(Reservations) \in Nat /\ captured \in Nat /\ Authorized \in Nat
    BY <2>1, FS_CardinalityType, UnitsType DEF Total, PayTypes, TypeOK
  <2> QED
    BY <1>3, <1>5, <1>7, <2>1, <2>2
<1> QED
  BY <1>2, <1>6, <1>7

LEMMA LedgerInit == Init => LedgerOK
<1> SUFFICES ASSUME Init PROVE LedgerOK
  OBVIOUS
<1>1. \A u \in OpIds \X (1..Authorized) : ~(u[2] <= Reservations[u[1]])
  <2>1. \A o \in OpIds : Reservations[o] = 0
    BY DEF Init, Reservations, NoOperation, Nothing
  <2>2. \A u \in OpIds \X (1..Authorized) : u[1] \in OpIds /\ u[2] \in 1..Authorized
    OBVIOUS
  <2> QED
    BY <2>1, <2>2
<1>2. UnitsOf(Reservations) = {}
  BY <1>1 DEF UnitsOf
<1>3. IsFiniteSet(UnitsOf(Reservations)) /\ Total(Reservations) = 0
  BY <1>2, FS_EmptySet DEF Total
<1>4. SettledRows
  BY DEF Init, SettledRows, NoOperation, None
<1>5. 0 <= captured /\ (raised \/ captured = 0)
  <2>1. CASE status = "captured"
    <3>1. raised /\ captured = Authorized
      BY <2>1 DEF Init
    <3> QED
      BY <3>1, UnitsType
  <2>2. CASE status # "captured"
    <3>1. captured = 0
      BY <2>2 DEF Init
    <3> QED
      BY <3>1
  <2> QED
    BY <2>1, <2>2
<1> QED
  BY <1>3, <1>4, <1>5 DEF LedgerOK

LedgerInv == PayTypes /\ AttemptsOK /\ ReservationsOK /\ RequestsOK /\ LedgerOK

LEMMA LedgerNext == LedgerInv /\ [Next]_vars => LedgerInv'
<1> SUFFICES ASSUME LedgerInv, [Next]_vars PROVE LedgerInv'
  OBVIOUS
<1>1. PayTypes' /\ AttemptsOK' /\ ReservationsOK' /\ RequestsOK'
  BY PayNextTypes, AttemptsNext, ReservationsNext, RequestsNext DEF LedgerInv
<1>2. mishaps \subseteq mishaps'
  BY MishapsGrow DEF LedgerInv
<1>3. CASE UNCHANGED vars
  <2>1. Reservations' = Reservations
    BY <1>3 DEF vars, Reservations
  <2>2. Undisturbed' => SettledRows'
    BY <1>2, <1>3, UndisturbedBefore DEF vars, LedgerInv, LedgerOK, SettledRows
  <2>3. LedgerOK'
    BY <1>2, <1>3, <2>1, <2>2, LedgerStands DEF vars, payment, LedgerInv
  <2> QED
    BY <1>1, <2>3 DEF LedgerInv
<1> QED
  BY <1>1, <1>2, <1>3, CallerLedger, LeaseLedger, WriterLedger
     DEF Next, LedgerInv

LEMMA LedgerAlways == Spec => []LedgerInv
<1>1. Init => LedgerInv
  BY PayInitTypes, AttemptsInit, ReservationsInit, RequestsInit, LedgerInit
     DEF LedgerInv
<1> QED
  BY <1>1, LedgerNext, PTL DEF Spec

\* What an operation has a claim to is what its row reserves.
LEMMA OwedIsReserved ==
  ASSUME LedgerInv, Undisturbed
  PROVE  [o \in OpIds |-> Owed(o)] = Reservations
BY DEF LedgerInv, LedgerOK, SettledRows, Owed, Reservations

\* Nothing leaks from the ledger and nothing is lost from it: reservations,
\* releases, deaths, retries and completions move it by just what they move the
\* rows by, and a report from outside can only raise it.
THEOREM LedgerCoversReservations == Spec => []LedgerCoversCaptures
<1>1. LedgerInv => LedgerCoversCaptures
  BY OwedIsReserved DEF LedgerInv, LedgerOK, LedgerCoversCaptures
<1> QED
  BY <1>1, LedgerAlways, PTL

\* As long as no call outlasts its lease, every answer arrives, retries get
\* through and the provider takes what it is asked, the captures of a payment
\* stay within its authorization, for any number of calls, operations, deaths
\* and reports.  (Without these conditions they do not.)
THEOREM CapturesStayWithinAuthorized ==
  Spec => [](Undisturbed => CapturesWithinAuthorized)
<1>1. LedgerInv => (Undisturbed => CapturesWithinAuthorized)
  <2> SUFFICES ASSUME LedgerInv, Undisturbed PROVE MoneyTaken <= Authorized
    BY DEF CapturesWithinAuthorized
  <2>1. /\ IsFiniteSet(UnitsOf(Reservations))
        /\ Total(Reservations) <= captured /\ captured <= Authorized
    BY DEF LedgerInv, LedgerOK, ReservationsOK
  <2>2. Reservations \in [OpIds -> Units] /\ taken \in [OpIds -> Units]
    BY ReservationsType DEF LedgerInv, PayTypes, TypeOK
  <2>3. \A o \in OpIds : taken[o] <= Reservations[o]
    <3>1. \A o \in OpIds : Reservations[o] \in Nat /\ taken[o] \in Nat
      BY <2>2, UnitsType
    <3>2. \A o \in OpIds : taken[o] = Nothing \/ taken[o] = Reservations[o]
      BY DEF LedgerInv, ReservationsOK, RowHolds, Reservations
    <3> QED
      BY <3>1, <3>2 DEF Nothing
  <2>4. Total(taken) <= Total(Reservations) /\ Total(taken) \in Nat
        /\ Total(Reservations) \in Nat
    BY <2>1, <2>2, <2>3, TotalMonotone
  <2>5. captured \in Nat /\ Authorized \in Nat
    BY UnitsType DEF LedgerInv, PayTypes, TypeOK
  <2> QED
    BY <2>1, <2>4, <2>5 DEF MoneyTaken
<1> QED
  BY <1>1, LedgerAlways, PTL

-----------------------------------------------------------------------------
(* The promise of CapturePromise, step by step.                            *)

SettledOps == {o \in OpIds : ops[o].state = "succeeded"}

\* A change of one row, as the promise sees it.
LEMMA RowSeen ==
  ASSUME PayTypes, NEW o \in OpIds, NEW row, ops' = [ops EXCEPT ![o] = row]
  PROVE  /\ Reservations' = [Reservations EXCEPT ![o] = row.reserved]
         /\ (ops[o].state = "succeeded" <=> row.state = "succeeded") =>
              SettledOps' = SettledOps
         /\ row.state = "succeeded" => SettledOps' = SettledOps \cup {o}
         /\ row.reserved = ops[o].reserved => Reservations' = Reservations
<1>1. ops'[o] = row /\ \A q \in OpIds : q # o => ops'[q] = ops[q]
  BY DEF PayTypes, TypeOK
<1>2. Reservations' = [Reservations EXCEPT ![o] = row.reserved]
  <2>1. Reservations' = [q \in OpIds |-> ops'[q].reserved]
    BY DEF Reservations
  <2>2. [Reservations EXCEPT ![o] = row.reserved] =
          [q \in OpIds |-> IF q = o THEN row.reserved ELSE ops[q].reserved]
    BY DEF Reservations
  <2>3. \A q \in OpIds : ops'[q].reserved =
          IF q = o THEN row.reserved ELSE ops[q].reserved
    BY <1>1
  <2> QED
    BY <2>1, <2>2, <2>3
<1>3. \A q \in OpIds : q \in SettledOps' <=>
        (IF q = o THEN row.state = "succeeded" ELSE q \in SettledOps)
  BY <1>1 DEF SettledOps
<1>4. SettledOps \subseteq OpIds /\ SettledOps' \subseteq OpIds
      /\ (o \in SettledOps <=> ops[o].state = "succeeded")
  BY DEF SettledOps
<1>5. row.reserved = ops[o].reserved => Reservations' = Reservations
  BY <1>1 DEF Reservations
<1>6. (ops[o].state = "succeeded" <=> row.state = "succeeded") =>
        SettledOps' = SettledOps
  BY <1>3, <1>4
<1>7. row.state = "succeeded" => SettledOps' = SettledOps \cup {o}
  BY <1>3, <1>4
<1> QED
  BY <1>2, <1>5, <1>6, <1>7

LEMMA PromiseUnmoved ==
  ASSUME Reservations' = Reservations, SettledOps' = SettledOps,
         taken' = taken, captured' = captured
  PROVE  UNCHANGED Promise!vars
BY DEF Promise!vars, SettledOps

LEMMA ClaimPromise ==
  ASSUME LedgerInv, NEW c \in Callers,
         InsertOperation(c) \/ ReclaimOperation(c) \/ FailOperation(c)
  PROVE  UNCHANGED Promise!vars
<1> DEFINE o == call[c].op
<1>0. PayTypes
  BY DEF LedgerInv
<1>1. o \in OpIds /\ ops[o] \in Operation /\ taken' = taken
      /\ captured' = captured
  BY <1>0 DEF InsertOperation, ReclaimOperation, FailOperation, PayTypes, TypeOK,
         CallsOK, CallOK, Underway, Working, payment
<1>2. CASE ops' = ops
  BY <1>1, <1>2, PromiseUnmoved DEF Reservations, SettledOps
<1>3. CASE InsertOperation(c)
  <2> DEFINE new == [NoOperation EXCEPT !.state = "in_progress", !.token = c,
                       !.action = call[c].action, !.amount = call[c].amount]
  <2>1. ops' = [ops EXCEPT ![o] = new] /\ ops[o].state = None
    BY <1>3 DEF InsertOperation
  <2>2. new.state = "in_progress" /\ new.reserved = Nothing
    BY DEF NoOperation
  <2> HIDE DEF new
  <2>3. ops[o].reserved = Nothing
    BY <1>1, <2>1 DEF RequestsOK, LedgerInv
  <2> HIDE DEF o
  <2> QED
    BY <1>0, <1>1, <2>1, <2>2, <2>3, RowSeen, PromiseUnmoved DEF None
<1>4. CASE ReclaimOperation(c)
  <2> DEFINE new == [ops[o] EXCEPT !.state = "in_progress", !.token = c,
                                   !.expired = FALSE]
  <2>1. ops' = [ops EXCEPT ![o] = new] /\ ops[o].state # "succeeded"
    BY <1>4 DEF ReclaimOperation, Reclaimable
  <2>2. new.state = "in_progress" /\ new.reserved = ops[o].reserved
    BY <1>1 DEF Operation
  <2> HIDE DEF new, o
  <2> QED
    BY <1>0, <1>1, <2>1, <2>2, RowSeen, PromiseUnmoved
<1>5. CASE FailOperation(c) /\ ops' # ops
  <2> DEFINE new == [ops[o] EXCEPT !.state = "failed", !.expired = FALSE]
  <2>1. ops' = [ops EXCEPT ![o] = new] /\ ops[o].state = "in_progress"
    BY <1>5 DEF FailOperation, HoldsClaim
  <2>2. new.state = "failed" /\ new.reserved = ops[o].reserved
    BY <1>1 DEF Operation
  <2> HIDE DEF new, o
  <2> QED
    BY <1>0, <1>1, <2>1, <2>2, RowSeen, PromiseUnmoved
<1> QED
  BY <1>2, <1>3, <1>4, <1>5

LEMMA ReservePromise ==
  ASSUME LedgerInv, NEW c \in Callers, ReserveCaptureAmount(c), Undisturbed
  PROVE  Promise!Next
<1> DEFINE o   == call[c].op
           u   == Requested(c)
           row == [ops[o] EXCEPT !.reserved = u]
<1>0. PayTypes /\ AttemptsOK
  BY DEF LedgerInv
<1>1. ops' = [ops EXCEPT ![o] = row] /\ captured' = captured + u
      /\ taken' = taken /\ call[c].at = "claimed" /\ ops[o].reserved = Nothing
      /\ captured = call[c].captured
  BY DEF ReserveCaptureAmount, CanReserve, LedgerUnmoved
<1>2. o \in OpIds /\ ops[o] \in Operation /\ captured \in Nat /\ call[c] \in Call
  BY <1>0, <1>1 DEF PayTypes, TypeOK, CallsOK, CallOK, Underway, Working
<1>3. row.reserved = u /\ row.state = ops[o].state
  BY <1>2 DEF Operation
<1>4. u \in 1..(Authorized - captured)
  <2>1. call[c].captured \in Nat /\ call[c].amount \in Nat /\ Authorized \in Nat
    BY <1>2, UnitsType DEF Call
  <2> QED
    BY <1>1, <2>1 DEF ReserveCaptureAmount, CanReserve, WithinRemaining, Requested
<1>5. ops[o].state = "in_progress"
  BY <1>0, <1>1, WorkerUnsettled DEF Working, Undisturbed
<1> HIDE DEF row, u, o
<1>6. Reservations' = [Reservations EXCEPT ![o] = u] /\ SettledOps' = SettledOps
  BY <1>0, <1>1, <1>2, <1>3, <1>5, RowSeen
<1>7. o \notin SettledOps /\ Reservations[o] = 0
  BY <1>1, <1>2, <1>5 DEF SettledOps, Reservations, Nothing
<1>8. Authorized - captured' = Authorized - captured - u
  BY <1>1, <1>2, <1>4, UnitsType
<1>9. Promise!SetAside(o, u)
  BY <1>1, <1>6, <1>7, <1>8 DEF Promise!SetAside, SettledOps
<1> QED
  BY <1>2, <1>4, <1>9 DEF Promise!Next

LEMMA ReleasePromise ==
  ASSUME LedgerInv, NEW c \in Callers, ReleaseCaptureAmount(c), Undisturbed
  PROVE  Promise!Next
<1> DEFINE o   == call[c].op
           h   == call[c].held
           row == [ops[o] EXCEPT !.reserved = Nothing]
<1>0. PayTypes /\ AttemptsOK /\ ReservationsOK /\ LedgerOK
  BY DEF LedgerInv
<1>1. ops' = [ops EXCEPT ![o] = row] /\ taken' = taken
      /\ captured' = (IF captured - h < 0 THEN 0 ELSE captured - h)
      /\ call[c].at = "failing" /\ ops[o].reserved = h
      /\ call[c].action = "capture" /\ ~call[c].invoked
  BY DEF ReleaseCaptureAmount, MayRelease
<1>2. o \in OpIds /\ ops[o] \in Operation /\ captured \in Nat /\ h \in Nat
  BY <1>0, <1>1, UnitsType DEF PayTypes, TypeOK, CallsOK, CallOK, Underway,
                              Working, Call
<1>3. row.reserved = 0 /\ row.state = ops[o].state
  BY <1>2 DEF Operation, Nothing
<1>4. ops[o].state = "in_progress"
  BY <1>0, <1>1, WorkerUnsettled DEF Working, Undisturbed
<1>5. taken[o] = 0
  <2>1. HeldOK(call[c], ops[o], taken[o])
    BY <1>0, <1>1, WorkerHolds DEF Working
  <2> QED
    BY <1>1, <2>1 DEF HeldOK, Working, Nothing
<1> HIDE DEF row, h, o
<1>6. Reservations' = [Reservations EXCEPT ![o] = 0] /\ SettledOps' = SettledOps
  BY <1>0, <1>1, <1>2, <1>3, <1>4, RowSeen
<1>7. o \notin SettledOps /\ Reservations[o] = h
  BY <1>1, <1>2, <1>4 DEF SettledOps, Reservations
<1>8. h <= captured
  <2>1. Reservations \in [OpIds -> Units] /\ IsFiniteSet(UnitsOf(Reservations))
        /\ Total(Reservations) <= captured
    BY <1>0, ReservationsType DEF LedgerOK
  <2>2. 0 \in Units /\ h \in Units
    BY <1>2, <1>7, <2>1, UnitsType DEF Nothing
  <2> DEFINE rest == [Reservations EXCEPT ![o] = 0]
  <2>3. rest \in [OpIds -> Units] /\ rest[o] = 0
        /\ \A q \in OpIds : q # o => rest[q] = Reservations[q]
    BY <1>2, <2>1, <2>2
  <2> HIDE DEF rest
  <2>4. Total(rest) \in Nat /\ Total(Reservations) \in Nat
        /\ Total(rest) = Total(Reservations) - h + 0
    BY <1>2, <1>7, <2>1, <2>3, TotalChanges
  <2> QED
    BY <1>2, <2>1, <2>4
<1>9. Authorized - captured' = Authorized - captured + h
  BY <1>1, <1>2, <1>8, UnitsType
<1>10. Promise!GiveBack(o)
  BY <1>1, <1>5, <1>6, <1>7, <1>9 DEF Promise!GiveBack, SettledOps
<1> QED
  BY <1>2, <1>10 DEF Promise!Next

\* Money is taken as asked, which is what is set aside.
LEMMA ProviderPromise ==
  ASSUME LedgerInv, NEW c \in Callers, ProviderActs(c), Undisturbed,
         Undisturbed'
  PROVE  Promise!Next \/ UNCHANGED Promise!vars
<1> DEFINE o == call[c].op
<1>0. PayTypes /\ AttemptsOK /\ ReservationsOK
  BY DEF LedgerInv
<1>1. ops' = ops /\ captured' = captured /\ call[c].at = "asked"
  BY DEF ProviderActs, payment
<1>2. o \in OpIds /\ call[c] \in Call
  BY <1>0, <1>1 DEF PayTypes, TypeOK, CallsOK, CallOK, Underway, Working
<1>3. Reservations' = Reservations /\ SettledOps' = SettledOps
  BY <1>1 DEF Reservations, SettledOps
<1>4. CASE call[c].action = "capture" /\ taken[o] = Nothing
  <2>1. PICK n \in 1..call[c].asks :
          /\ HappensIf(n < call[c].asks, "short")
          /\ taken' = [taken EXCEPT ![o] = n]
    BY <1>4 DEF ProviderActs
  <2>2. call[c].asks \in Nat
    BY <1>2, UnitsType DEF Call
  <2>3. n = call[c].asks
    <3>1. CASE n < call[c].asks
      <4>1. Happens("short")
        BY <2>1, <3>1 DEF HappensIf
      <4>2. FALSE
        BY <1>0, <4>1, HappensType DEF PayTypes, Undisturbed
      <4> QED
        BY <4>2
    <3> QED
      BY <2>2, <3>1
  <2>4. HeldOK(call[c], ops[o], taken[o])
    BY <1>0, <1>1, WorkerHolds DEF Working
  <2>5. n = ops[o].reserved /\ n > 0
    BY <1>1, <1>4, <2>1, <2>2, <2>3, <2>4 DEF HeldOK, Working
  <2>6. ops[o].state = "in_progress"
    BY <1>0, <1>1, WorkerUnsettled DEF Working, Undisturbed
  <2> HIDE DEF o
  <2>7. o \notin SettledOps /\ Reservations[o] = n
    BY <1>2, <2>5, <2>6 DEF SettledOps, Reservations
  <2>8. Promise!Take(o)
    BY <1>1, <1>3, <1>4, <2>1, <2>5, <2>7 DEF Promise!Take, SettledOps, Nothing
  <2> QED
    BY <1>2, <2>8 DEF Promise!Next
<1>5. CASE ~(call[c].action = "capture" /\ taken[o] = Nothing)
  <2>1. taken' = taken
    BY <1>5 DEF ProviderActs
  <2> QED
    BY <1>1, <1>3, <2>1, PromiseUnmoved
<1> QED
  BY <1>4, <1>5

LEMMA CommitPromise ==
  ASSUME LedgerInv, NEW c \in Callers, CommitOperation(c), Undisturbed
  PROVE  Promise!Next
<1> DEFINE o   == call[c].op
           row == [ops[o] EXCEPT !.state = "succeeded", !.result = call[c].answer,
                                 !.expired = FALSE]
<1>0. PayTypes /\ AttemptsOK /\ ReservationsOK /\ RequestsOK
  BY DEF LedgerInv
<1>1. ops' = [ops EXCEPT ![o] = row] /\ taken' = taken
      /\ call[c].at = "committing"
  BY DEF CommitOperation
<1>2. o \in OpIds /\ ops[o] \in Operation /\ call[c] \in Call
  BY <1>0, <1>1 DEF PayTypes, TypeOK, CallsOK, CallOK, Underway, Working
<1>3. row.reserved = ops[o].reserved /\ row.state = "succeeded"
  BY <1>2 DEF Operation
<1>4. HeldOK(call[c], ops[o], taken[o])
  BY <1>0, <1>1, WorkerHolds DEF Working
<1>5. taken[o] = ops[o].reserved
  <2>1. CASE call[c].action = "capture"
    BY <1>1, <1>4, <2>1 DEF HeldOK, Working
  <2>2. CASE call[c].action # "capture"
    BY <1>0, <1>1, <1>2, <2>2 DEF RequestsOK, Working
  <2> QED
    BY <2>1, <2>2
<1>6. captured' = captured
  <2>1. call[c].held = Nothing \/ call[c].held = taken[o]
    BY <1>1, <1>4 DEF HeldOK, Working
  <2>2. call[c].captured \in Nat /\ call[c].held \in Nat
    BY <1>2, UnitsType DEF Call
  <2>3. call[c].held = Nothing \/ Settled(c) = call[c].captured
    BY <2>1, <2>2 DEF Settled
  <2> QED
    BY <2>3 DEF CommitOperation
<1> HIDE DEF row, o
<1>7. Reservations' = Reservations /\ SettledOps' = SettledOps \cup {o}
  BY <1>0, <1>1, <1>2, <1>3, RowSeen
<1>8. Reservations[o] = ops[o].reserved
  BY <1>2 DEF Reservations
<1>9. \E q \in OpIds : Promise!Settle(q)
  BY <1>1, <1>2, <1>5, <1>6, <1>7, <1>8 DEF Promise!Settle, SettledOps
<1> QED
  BY <1>9 DEF Promise!Next

\* The other steps of a call move neither ledger, rows nor money.
LEMMA CallerPromise ==
  ASSUME LedgerInv, NEW c \in Callers, CallerStep(c), Undisturbed, Undisturbed'
  PROVE  Promise!Next \/ UNCHANGED Promise!vars
<1>1. CASE ops' = ops /\ captured' = captured /\ taken' = taken
  BY <1>1, PromiseUnmoved DEF Reservations, SettledOps
<1>2. CASE \/ \E o \in OpIds, a \in Actions, n \in Amounts : Begin(c, o, a, n)
           \/ EndWithoutClaim(c) \/ ReuseReservation(c) \/ ReserveConflict(c)
           \/ AnswerArrives(c) \/ CallRefused(c) \/ AnswerLost(c)
           \/ CompleteOperation(c) \/ CommitFails(c) \/ KeepReservation(c)
           \/ CallerDies(c)
  BY <1>1, <1>2 DEF Begin, EndWithoutClaim, ReuseReservation, ReserveConflict,
       AnswerArrives, CallRefused, AnswerLost, CompleteOperation, CommitFails,
       KeepReservation, CallerDies, payment
<1> QED
  BY <1>2, ClaimPromise, ReservePromise, ReleasePromise, ProviderPromise,
     CommitPromise DEF CallerStep

LEMMA WriterPromise ==
  ASSUME NEW w \in Writers, WriterStep(w)
  PROVE  Promise!Next \/ UNCHANGED Promise!vars
<1>1. ops' = ops /\ taken' = taken
  BY DEF WriterStep, ClaimWebhook, SyncReads, SyncWrites, WebhookEnds,
         WebhookThrows, AdapterMissing, WebhookDies, PollReads, PollFails,
         PollWrites
<1>2. Reservations' = Reservations /\ SettledOps' = SettledOps
  BY <1>1 DEF Reservations, SettledOps
<1>3. captured' = captured \/ captured' = Authorized
  BY DEF WriterStep, ClaimWebhook, SyncReads, SyncWrites, WebhookEnds,
         WebhookThrows, AdapterMissing, WebhookDies, PollReads, PollFails,
         PollWrites, WriteReported, Aligned, payment
<1>4. CASE captured' = captured
  BY <1>1, <1>2, <1>4, PromiseUnmoved
<1>5. CASE captured' = Authorized
  <2>1. Authorized - captured' = 0
    BY <1>5, UnitsType
  <2>2. Promise!UseUp
    BY <1>1, <1>2, <2>1 DEF Promise!UseUp, SettledOps
  <2> QED
    BY <2>2 DEF Promise!Next
<1> QED
  BY <1>3, <1>4, <1>5

LEMMA LeasePromise ==
  ASSUME LedgerInv, NEW o \in OpIds, LeaseExpires(o)
  PROVE  UNCHANGED Promise!vars
<1>1. ops \in [OpIds -> Operation] /\ ops' = [ops EXCEPT ![o].expired = TRUE]
      /\ taken' = taken /\ captured' = captured
  BY DEF LeaseExpires, payment, LedgerInv, PayTypes, TypeOK
<1>2. \A q \in OpIds : ops'[q].state = ops[q].state
                       /\ ops'[q].reserved = ops[q].reserved
  BY <1>1 DEF Operation
<1>3. Reservations' = Reservations /\ SettledOps' = SettledOps
  BY <1>2 DEF Reservations, SettledOps
<1> QED
  BY <1>1, <1>3, PromiseUnmoved

LEMMA PromiseNext ==
  LedgerInv /\ [Next]_vars =>
    [Undisturbed' => Promise!Next]_(Promise!vars)
<1> SUFFICES ASSUME LedgerInv, [Next]_vars, Undisturbed'
             PROVE  Promise!Next \/ UNCHANGED Promise!vars
  OBVIOUS
<1>1. Undisturbed
  BY MishapsGrow, UndisturbedBefore DEF LedgerInv
<1>2. CASE UNCHANGED vars
  BY <1>2, PromiseUnmoved DEF vars, payment, Reservations, SettledOps
<1> QED
  BY <1>1, <1>2, CallerPromise, WriterPromise, LeasePromise DEF Next

LEMMA PromiseInit == Init => Promise!Init
<1> SUFFICES ASSUME Init PROVE Promise!Init
  OBVIOUS
<1>1. Authorized - captured \in {0, Authorized}
  <2>1. CASE status = "captured"
    BY <2>1, UnitsType DEF Init
  <2>2. CASE status # "captured"
    BY <2>2, UnitsType DEF Init
  <2> QED
    BY <2>1, <2>2
<1>2. Reservations = [o \in OpIds |-> 0] /\ taken = [o \in OpIds |-> 0]
  BY DEF Init, Reservations, NoOperation, Nothing
<1>3. SettledOps = {}
  BY DEF Init, SettledOps, NoOperation, None
<1> QED
  BY <1>1, <1>2, <1>3 DEF Promise!Init, SettledOps

\* As long as nothing disturbs it, the payment implements CapturePromise: every
\* step of its calls, retries, deaths and reports sets a slice aside, gives it
\* back untouched, takes it once, settles it, or uses the rest up.
THEOREM CapturesKeepPromise == Spec => KeepsCapturePromise
<1>1. LedgerInv /\ [Next]_vars => [Undisturbed' => Promise!Next]_(Promise!vars)
  BY PromiseNext
<1> QED
  BY <1>1, PromiseInit, LedgerAlways, PTL DEF Spec, KeepsCapturePromise
=============================================================================
