------------------------ MODULE RetryableTransaction ------------------------
(***************************************************************************)
(* CHIRetryableTransactionControl: the requester-side control that every   *)
(* RV5Stage CHI engine and the maintenance engine put around one           *)
(* transaction, with the response profile and the data phase of each, and  *)
(* a completer that may refuse the first attempt.                          *)
(*                                                                         *)
(* The completer is external: the repository's Homes never send RetryAck,  *)
(* so it behaves as the engines require and as tests/backend/DEVELOPING.md *)
(* has the RV5Stage testbench behave.  Responses in flight form a set: they *)
(* arrive in any order.                                                    *)
(***************************************************************************)
EXTENDS Naturals

CONSTANTS CreditTypes,  \* protocol credit types a completer may grant
          NoCredit,     \* the reset value of the credit type registers, itself a type
          LinePackets   \* DAT packets in a line

ASSUME RetryAssumption == LinePackets \in Nat \ {0}

VARIABLES
  engine,               \* which profile the control is instantiated with
  active,               \* registers of the control, named as in the source
  attemptSent,
  received,             \* received_state, as the set of milestones
  irreversibleProgress,
  retryReceived,
  retryCreditReceived,
  retryCreditType,
  grantedCreditType,
  transferred,          \* DAT packets this transaction has moved
  requests,             \* attempts on their way to the completer
  responses,            \* RSP flits on their way back
  completer             \* external: what it did with this transaction

controlVars == <<engine, active, attemptSent, received, irreversibleProgress, retryReceived,
                 retryCreditReceived, retryCreditType, grantedCreditType, transferred>>
vars == <<controlVars, requests, responses, completer>>

------------------------------------------------------------------------------
(* The response profiles.                                                  *)

Engines    == {"refill", "copyback", "writeUnique", "maintenance"}
Milestones == {"dbid", "completion", "grant"}
Progress   == {"DBIDResp", "DBIDRespOrd", "Comp", "CompDBIDResp"}

\* Profile[e]: the milestones each opcode completes, none if it is unexpected.
Profile == [
  refill      |-> [o \in Progress |-> {}],
  copyback    |-> [o \in Progress |-> IF o = "CompDBIDResp" THEN {"grant"} ELSE {}],
  writeUnique |-> [DBIDResp |-> {"dbid"}, DBIDRespOrd |-> {"dbid"}, Comp |-> {"completion"},
                   CompDBIDResp |-> {"dbid", "completion"}],
  maintenance |-> [o \in Progress |-> IF o = "Comp" THEN {"completion"} ELSE {}]]

\* What the engine's completion waits for.
Required(e) ==
  CASE e = "refill"      -> {}
    [] e = "copyback"    -> {"grant"}
    [] e = "writeUnique" -> {"dbid", "completion"}
    [] e = "maintenance" -> {"completion"}

DataPackets(e) ==
  CASE e \in {"refill", "copyback"} -> LinePackets
    [] e = "writeUnique"            -> 1
    [] e = "maintenance"            -> 0

CreditType == CreditTypes \cup {NoCredit}
Attempt    == [allowRetry : BOOLEAN, pcrdType : CreditType]
Response   == [op : Progress \cup {"RetryAck", "PCrdGrant"}, pcrdType : CreditType]

Effects(m) == IF m.op \in Progress THEN Profile[engine][m.op] ELSE {}

TypeOK ==
  /\ engine \in Engines
  /\ active \in BOOLEAN /\ attemptSent \in BOOLEAN /\ irreversibleProgress \in BOOLEAN
  /\ retryReceived \in BOOLEAN /\ retryCreditReceived \in BOOLEAN
  /\ received \subseteq Milestones
  /\ retryCreditType \in CreditType /\ grantedCreditType \in CreditType
  /\ transferred \in 0 .. LinePackets
  /\ requests \subseteq Attempt
  /\ responses \subseteq Response
  /\ completer \in [phase : {"Idle", "Refused", "Accepted"}, credit : CreditType]

Init ==
  /\ engine \in Engines
  /\ active = FALSE /\ attemptSent = FALSE /\ irreversibleProgress = FALSE
  /\ retryReceived = FALSE /\ retryCreditReceived = FALSE
  /\ received = {} /\ transferred = 0
  /\ retryCreditType = NoCredit /\ grantedCreditType = NoCredit
  /\ requests = {} /\ responses = {}
  /\ completer = [phase |-> "Idle", credit |-> NoCredit]

------------------------------------------------------------------------------
(* The control.                                                            *)

\* start and finish clear every register of the control.
Reset ==
  /\ attemptSent' = FALSE /\ received' = {} /\ irreversibleProgress' = FALSE
  /\ retryReceived' = FALSE /\ retryCreditReceived' = FALSE
  /\ retryCreditType' = NoCredit /\ grantedCreditType' = NoCredit

Start ==
  /\ ~ active
  /\ engine' \in Engines
  /\ active' = TRUE /\ Reset /\ transferred' = 0
  /\ UNCHANGED <<requests, responses, completer>>

\* A first attempt, or a repeat once both the refusal and the credit are in.
AttemptValidWithoutCredit == active /\ ~ attemptSent
AttemptValidAlways        == active /\ (retryReceived => retryCreditReceived)
AttemptValid ==
  active /\ ~ attemptSent /\ (retryReceived => retryCreditReceived)

SendAttempt ==
  /\ AttemptValid
  /\ requests' = requests \cup {[
       allowRetry |-> ~ retryReceived,
       pcrdType   |-> IF retryReceived THEN retryCreditType ELSE NoCredit]}
  /\ attemptSent' = TRUE
  /\ IF retryReceived
     THEN /\ retryReceived' = FALSE /\ retryCreditReceived' = FALSE
          /\ retryCreditType' = NoCredit /\ grantedCreditType' = NoCredit
     ELSE UNCHANGED <<retryReceived, retryCreditReceived, retryCreditType, grantedCreditType>>
  /\ UNCHANGED <<engine, active, received, irreversibleProgress, transferred, responses, completer>>

ProgressExpected(m) ==
  active /\ attemptSent /\ Effects(m) # {} /\ Effects(m) \cap received = {}

RetryExpected(m) ==
  active /\ m.op = "RetryAck" /\ attemptSent /\ ~ irreversibleProgress

CreditExpectedAfterRetry(m) == active /\ m.op = "PCrdGrant" /\ retryReceived
CreditExpected(m) ==
  active /\ m.op = "PCrdGrant" /\ (attemptSent \/ retryReceived)

ResponseExpected(m) == ProgressExpected(m) \/ RetryExpected(m) \/ CreditExpected(m)

AcceptRetryAckForgetting(m) ==
  /\ RetryExpected(m)
  /\ attemptSent' = FALSE
  /\ retryReceived' = TRUE /\ retryCreditType' = m.pcrdType
  /\ retryCreditReceived' = FALSE
  /\ UNCHANGED <<received, irreversibleProgress, grantedCreditType>>

AcceptRetryAck(m) ==
  /\ RetryExpected(m)
  /\ attemptSent' = FALSE
  /\ retryReceived' = TRUE /\ retryCreditType' = m.pcrdType
  /\ UNCHANGED <<received, irreversibleProgress, retryCreditReceived, grantedCreditType>>

AcceptCredit(m) ==
  /\ CreditExpected(m)
  /\ retryCreditReceived' = TRUE /\ grantedCreditType' = m.pcrdType
  /\ UNCHANGED <<attemptSent, received, irreversibleProgress, retryReceived, retryCreditType>>

AcceptProgress(m) ==
  /\ ProgressExpected(m)
  /\ received' = received \cup Effects(m)
  /\ irreversibleProgress' = TRUE
  /\ UNCHANGED <<attemptSent, retryReceived, retryCreditReceived, retryCreditType, grantedCreditType>>

ReceiveResponse ==
  /\ \E m \in responses :
       /\ AcceptRetryAck(m) \/ AcceptCredit(m) \/ AcceptProgress(m)
       /\ responses' = responses \ {m}
  /\ UNCHANGED <<engine, active, transferred, requests, completer>>

------------------------------------------------------------------------------
(* The engine around it.                                                   *)

\* A refill takes CompData while an attempt is outstanding; the others send
\* their data once a response has named the buffer.
DataLeftInclusive == transferred <= DataPackets(engine)
DataLeft          == transferred < DataPackets(engine)

DataValid ==
  /\ active /\ DataLeft
  /\ CASE engine = "refill"      -> attemptSent /\ completer.phase = "Accepted"
       [] engine = "copyback"    -> "grant" \in received
       [] engine = "writeUnique" -> "dbid" \in received
       [] OTHER                  -> FALSE

\* external_progress: only the refill and the copyback engine drive it.
NoExternalProgress == FALSE
ExternalProgress   == engine \in {"refill", "copyback"}

TransferData ==
  /\ DataValid
  /\ transferred' = transferred + 1
  /\ irreversibleProgress' = (irreversibleProgress \/ ExternalProgress)
  /\ UNCHANGED <<engine, active, attemptSent, received, retryReceived, retryCreditReceived,
                 retryCreditType, grantedCreditType, requests, responses, completer>>

Done == transferred = DataPackets(engine) /\ Required(engine) \subseteq received

\* The completer forgets the transaction with its last message.
Finish ==
  /\ active /\ Done
  /\ active' = FALSE /\ Reset
  /\ completer' = [phase |-> "Idle", credit |-> NoCredit]
  /\ UNCHANGED <<engine, transferred, requests, responses>>

------------------------------------------------------------------------------
(* The completer (external).                                               *)

\* It may refuse only an attempt that allows it, and grants the credit on its own
\* message: the refusal and the credit race each other.
CompleterRefuse ==
  \E q \in requests, c \in CreditTypes :
    /\ q.allowRetry
    /\ requests' = requests \ {q}
    /\ responses' = responses \cup {[op |-> "RetryAck", pcrdType |-> c],
                                    [op |-> "PCrdGrant", pcrdType |-> c]}
    /\ completer' = [phase |-> "Refused", credit |-> c]
    /\ UNCHANGED controlVars

\* The responses of an accepted attempt complete every milestone once.
Answers == [
  refill      |-> {{}},
  copyback    |-> {{"CompDBIDResp"}},
  writeUnique |-> {{"CompDBIDResp"}, {"DBIDResp", "Comp"}, {"DBIDRespOrd", "Comp"}},
  maintenance |-> {{"Comp"}}]

CompleterAccept ==
  \E q \in requests, answer \in Answers[engine] :
    /\ requests' = requests \ {q}
    /\ responses' = responses \cup {[op |-> o, pcrdType |-> NoCredit] : o \in answer}
    /\ completer' = [phase |-> "Accepted", credit |-> NoCredit]
    /\ UNCHANGED controlVars

------------------------------------------------------------------------------
Next ==
  \/ Start \/ SendAttempt \/ ReceiveResponse \/ TransferData \/ Finish
  \/ CompleterRefuse \/ CompleterAccept

Spec == Init /\ [][Next]_vars

\* The engine never rests while it can act, and the completer answers.
Fairness ==
  /\ WF_vars(SendAttempt) /\ WF_vars(ReceiveResponse)
  /\ WF_vars(TransferData) /\ WF_vars(Finish)
  /\ WF_vars(CompleterRefuse \/ CompleterAccept)

FairSpec == Spec /\ Fairness

------------------------------------------------------------------------------
(* Correctness.                                                            *)

\* The assertions <profile>_response_expected and <profile>_retry_credit_type_matches:
\* whichever response arrives next, in either order of refusal and credit, the
\* control expects it, and the two name one credit type.
ControlAssertions ==
  /\ \A m \in responses : ResponseExpected(m)
  /\ retryReceived /\ retryCreditReceived => retryCreditType = grantedCreditType

\* A repeat forbids a second refusal and spends exactly the credit granted to it;
\* both messages of the refusal are in before it leaves.
RepeatIsCredited ==
  \A q \in requests :
    /\ q.allowRetry <=> completer.phase = "Idle"
    /\ ~ q.allowRetry => q.pcrdType = completer.credit /\ responses = {}

\* The completer never sees a second attempt of a transaction it has accepted.
AcceptedOnce ==
  completer.phase = "Accepted" => requests = {} /\ ~ AttemptValid

\* Once any channel has advanced the transaction, a refusal would not be taken.
ProgressBarsRetry ==
  active /\ (received # {} \/ transferred > 0) =>
    ~ RetryExpected([op |-> "RetryAck", pcrdType |-> NoCredit])

\* A transaction, refused or not, completes.
TransactionCompletes == active ~> ~ active
=============================================================================
