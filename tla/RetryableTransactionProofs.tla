---------------------- MODULE RetryableTransactionProofs ----------------------
(***************************************************************************)
(* RetryableTransaction, for every set of credit types and every line      *)
(* size: the type invariant and the four safety invariants of retry.cfg.   *)
(*                                                                         *)
(* None of the four is inductive.  What makes them so is where the one     *)
(* transaction stands with its completer, so the strengthening is stated   *)
(* phase by phase of the completer: nothing answered yet, refused, or      *)
(* accepted.                                                               *)
(***************************************************************************)
EXTENDS RetryableTransaction, TLAPS

Refusal(c) == [op |-> "RetryAck",  pcrdType |-> c]
Credit(c)  == [op |-> "PCrdGrant", pcrdType |-> c]

FirstAttempt == [allowRetry |-> TRUE, pcrdType |-> NoCredit]
Repeat(c)    == [allowRetry |-> FALSE, pcrdType |-> c]

\* An idle control has nothing in flight, and its completer has forgotten it.
IdleIsQuiet == ~ active => completer.phase = "Idle" /\ requests = {}

\* Before any answer no register but attempt_sent has moved.
NothingAnswered ==
  completer.phase = "Idle" =>
    /\ responses = {} /\ received = {} /\ ~ irreversibleProgress
    /\ ~ retryReceived /\ ~ retryCreditReceived
    /\ active => transferred = 0
    /\ requests \subseteq {FirstAttempt}
    /\ active /\ requests = {} => ~ attemptSent
    /\ ~ active => ~ attemptSent
    /\ requests # {} => attemptSent

\* After a refusal either its two messages are on their way or recorded, each
\* independently of the other, or the repeat is on its way and they are gone.
RefusalIsAccountedFor ==
  completer.phase = "Refused" =>
    /\ active /\ received = {} /\ transferred = 0 /\ ~ irreversibleProgress
    /\ completer.credit \in CreditTypes
    /\ \/ /\ requests = {Repeat(completer.credit)} /\ responses = {}
          /\ attemptSent /\ ~ retryReceived /\ ~ retryCreditReceived
       \/ /\ requests = {}
          /\ responses \subseteq {Refusal(completer.credit), Credit(completer.credit)}
          /\ Refusal(completer.credit) \in responses <=> attemptSent
          /\ Refusal(completer.credit) \in responses <=> ~ retryReceived
          /\ Credit(completer.credit) \in responses <=> ~ retryCreditReceived
          /\ retryReceived => retryCreditType = completer.credit
          /\ retryCreditReceived => grantedCreditType = completer.credit

\* After acceptance every response still on its way completes milestones that
\* neither an earlier response nor another one in flight completes.
AnswersAreDisjoint ==
  completer.phase = "Accepted" =>
    /\ active /\ attemptSent /\ requests = {}
    /\ ~ retryReceived /\ ~ retryCreditReceived
    /\ \A m \in responses :
         /\ m.op \in Progress
         /\ Effects(m) # {} /\ Effects(m) \cap received = {}
         /\ \A o \in responses : o # m => Effects(m) \cap Effects(o) = {}
    /\ received # {} \/ transferred > 0 => irreversibleProgress

IInv ==
  TypeOK /\ IdleIsQuiet /\ NothingAnswered /\ RefusalIsAccountedFor /\ AnswersAreDisjoint

------------------------------------------------------------------------------
(* The profiles.                                                           *)

\* An engine waits for every milestone its responses complete.
LEMMA ProfileType ==
  ASSUME NEW e \in Engines, NEW o \in Progress
  PROVE  Profile[e][o] \subseteq Required(e) /\ Required(e) \subseteq Milestones
BY DEF Engines, Progress, Profile, Required, Milestones

LEMMA EffectsType ==
  ASSUME TypeOK, NEW m
  PROVE  Effects(m) \subseteq Required(engine) /\ Required(engine) \subseteq Milestones
<1>1. engine \in Engines
  BY DEF TypeOK
<1>2. CASE m.op \in Progress
  BY <1>1, <1>2, ProfileType DEF Effects
<1>3. CASE m.op \notin Progress
  <2>1. Effects(m) = {}
    BY <1>3 DEF Effects
  <2>2. Required(engine) \subseteq Milestones
    BY <1>1 DEF Engines, Required, Milestones
  <2> QED BY <2>1, <2>2
<1> QED BY <1>2, <1>3

\* No engine moves more packets than a line has.
LEMMA DataPacketsBound ==
  ASSUME NEW e \in Engines
  PROVE  DataPackets(e) \in 0 .. LinePackets
BY RetryAssumption DEF Engines, DataPackets

\* The responses of every acceptance are expected and complete disjoint
\* milestones.
LEMMA AnswersAreProgress ==
  ASSUME NEW e \in Engines, NEW answer \in Answers[e]
  PROVE  /\ answer \subseteq Progress
         /\ \A o \in answer : Profile[e][o] # {}
         /\ \A o, r \in answer : o # r => Profile[e][o] \cap Profile[e][r] = {}
<1>1. CASE e = "refill"
  BY <1>1 DEF Answers, Progress
<1>2. CASE e = "copyback"
  BY <1>2 DEF Answers, Progress, Profile
<1>3. CASE e = "writeUnique"
  <2>1. /\ Profile["writeUnique"]["CompDBIDResp"] = {"dbid", "completion"}
        /\ Profile["writeUnique"]["Comp"] = {"completion"}
        /\ Profile["writeUnique"]["DBIDResp"] = {"dbid"}
        /\ Profile["writeUnique"]["DBIDRespOrd"] = {"dbid"}
    BY DEF Profile, Progress
  <2>2. answer \in {{"CompDBIDResp"}, {"DBIDResp", "Comp"}, {"DBIDRespOrd", "Comp"}}
    BY <1>3 DEF Answers
  <2> QED BY <1>3, <2>1, <2>2 DEF Progress
<1>4. CASE e = "maintenance"
  BY <1>4 DEF Answers, Progress, Profile
<1> QED BY <1>1, <1>2, <1>3, <1>4 DEF Engines

------------------------------------------------------------------------------
(* The strengthening is inductive.                                         *)

LEMMA InitIInv == Init => IInv
<1> SUFFICES ASSUME Init PROVE IInv
  OBVIOUS
<1> USE DEF Init
<1>1. TypeOK
  <2>1. transferred \in 0 .. LinePackets
    BY RetryAssumption
  <2>2. completer \in [phase : {"Idle", "Refused", "Accepted"}, credit : CreditType]
    BY DEF CreditType
  <2> QED BY <2>1, <2>2 DEF TypeOK, CreditType
<1>2. IdleIsQuiet
  BY DEF IdleIsQuiet
<1>3. NothingAnswered
  BY DEF NothingAnswered
<1>4. RefusalIsAccountedFor
  BY DEF RefusalIsAccountedFor
<1>5. AnswersAreDisjoint
  BY DEF AnswersAreDisjoint
<1> QED BY <1>1, <1>2, <1>3, <1>4, <1>5 DEF IInv

\* A transaction that is done has nothing left in flight: its milestones are
\* all recorded, and every response on its way would complete another.
LEMMA DoneIsQuiet ==
  ASSUME IInv, active, Done
  PROVE  requests = {} /\ responses = {}
<1> USE DEF IInv
<1>1. received # {} \/ transferred > 0
  <2>1. engine \in Engines /\ transferred \in 0 .. LinePackets
    BY DEF TypeOK
  <2>2. CASE engine \in {"refill", "copyback"}
    BY <2>1, <2>2, RetryAssumption DEF Done, DataPackets
  <2>3. CASE engine \in {"writeUnique", "maintenance"}
    BY <2>3 DEF Done, Required
  <2> QED BY <2>1, <2>2, <2>3 DEF Engines
<1>2. completer.phase = "Accepted"
  <2>1. completer.phase \in {"Idle", "Refused", "Accepted"}
    BY DEF TypeOK
  <2>2. completer.phase # "Idle"
    BY <1>1 DEF NothingAnswered
  <2>3. completer.phase # "Refused"
    BY <1>1 DEF RefusalIsAccountedFor
  <2> QED BY <2>1, <2>2, <2>3
<1>3. requests = {}
  BY <1>2 DEF AnswersAreDisjoint
<1>4. ASSUME NEW m \in responses PROVE FALSE
  <2>1. Effects(m) # {} /\ Effects(m) \cap received = {}
    BY <1>2 DEF AnswersAreDisjoint
  <2>2. Effects(m) \subseteq received
    BY EffectsType DEF Done
  <2> QED BY <2>1, <2>2
<1> QED BY <1>3, <1>4

\* What each action does to the named parts of the strengthening.
LEMMA NextIInv == IInv /\ [Next]_vars => IInv'
<1> SUFFICES ASSUME IInv, [Next]_vars PROVE IInv'
  OBVIOUS
<1> USE DEF IInv
<1>1. CASE Start
  <2> USE <1>1 DEF Start, Reset
  <2>1. completer.phase = "Idle" /\ requests = {} /\ responses = {}
    BY DEF IdleIsQuiet, NothingAnswered
  <2>2. TypeOK'
    <3>1. NoCredit \in CreditType
      BY DEF CreditType
    <3>2. 0 \in 0 .. LinePackets
      BY RetryAssumption
    <3> QED BY <3>1, <3>2 DEF TypeOK
  <2>3. IdleIsQuiet' /\ NothingAnswered' /\ RefusalIsAccountedFor' /\ AnswersAreDisjoint'
    BY <2>1 DEF IdleIsQuiet, NothingAnswered, RefusalIsAccountedFor, AnswersAreDisjoint
  <2> QED BY <2>2, <2>3
<1>2. CASE SendAttempt
  <2> USE <1>2 DEF SendAttempt, AttemptValid
  <2>1. TypeOK'
    <3>1. NoCredit \in CreditType /\ retryCreditType \in CreditType
      BY DEF TypeOK, CreditType
    <3>2. [allowRetry |-> ~ retryReceived,
           pcrdType |-> IF retryReceived THEN retryCreditType ELSE NoCredit] \in Attempt
      BY <3>1 DEF TypeOK, Attempt
    <3> QED BY <3>1, <3>2 DEF TypeOK
  <2>2. IdleIsQuiet'
    BY DEF IdleIsQuiet
  <2>3. completer.phase \in {"Idle", "Refused"}
    BY DEF TypeOK, AnswersAreDisjoint
  <2>4. NothingAnswered'
    BY DEF NothingAnswered, FirstAttempt
  <2>5. RefusalIsAccountedFor'
    BY DEF RefusalIsAccountedFor, Repeat
  <2>6. AnswersAreDisjoint'
    BY <2>3 DEF AnswersAreDisjoint
  <2> QED BY <2>1, <2>2, <2>4, <2>5, <2>6
<1>3. CASE ReceiveResponse
  <2>1. PICK m \in responses :
          /\ AcceptRetryAck(m) \/ AcceptCredit(m) \/ AcceptProgress(m)
          /\ responses' = responses \ {m}
    BY <1>3 DEF ReceiveResponse
  <2>2. UNCHANGED <<engine, active, transferred, requests, completer>>
    BY <1>3 DEF ReceiveResponse
  <2>3. active /\ completer.phase # "Idle" /\ m \in Response
    BY <2>1 DEF NothingAnswered, TypeOK, AcceptRetryAck, RetryExpected, AcceptCredit,
                CreditExpected, AcceptProgress, ProgressExpected
  <2>4. IdleIsQuiet' /\ NothingAnswered'
    BY <2>2, <2>3 DEF IdleIsQuiet, NothingAnswered
  <2>5. CASE AcceptRetryAck(m)
    <3> USE <2>1, <2>2, <2>3, <2>5 DEF AcceptRetryAck, RetryExpected
    <3>1. TypeOK'
      BY DEF TypeOK, Response
    <3>2. completer.phase = "Refused"
      BY DEF TypeOK, AnswersAreDisjoint, Progress
    <3>3. RefusalIsAccountedFor'
      BY <3>2 DEF RefusalIsAccountedFor, Refusal, Credit, Response
    <3>4. AnswersAreDisjoint'
      BY <3>2 DEF AnswersAreDisjoint
    <3> QED BY <2>4, <3>1, <3>3, <3>4
  <2>6. CASE AcceptCredit(m)
    <3> USE <2>1, <2>2, <2>3, <2>6 DEF AcceptCredit, CreditExpected
    <3>1. TypeOK'
      BY DEF TypeOK, Response
    <3>2. completer.phase = "Refused"
      BY DEF TypeOK, AnswersAreDisjoint, Progress
    <3>3. RefusalIsAccountedFor'
      BY <3>2 DEF RefusalIsAccountedFor, Refusal, Credit, Response
    <3>4. AnswersAreDisjoint'
      BY <3>2 DEF AnswersAreDisjoint
    <3> QED BY <2>4, <3>1, <3>3, <3>4
  <2>7. CASE AcceptProgress(m)
    <3> USE <2>1, <2>2, <2>3, <2>7 DEF AcceptProgress, ProgressExpected
    <3>1. TypeOK'
      <4>1. Effects(m) \subseteq Milestones
        BY EffectsType
      <4> QED BY <4>1 DEF TypeOK
    <3>2. m.op \in Progress
      BY DEF Effects
    <3>3. completer.phase = "Accepted"
      BY <3>2 DEF TypeOK, RefusalIsAccountedFor, Refusal, Credit, Progress
    <3>4. RefusalIsAccountedFor'
      BY <3>3 DEF RefusalIsAccountedFor
    <3>5. ASSUME NEW o PROVE Effects(o)' = Effects(o)
      BY DEF Effects
    <3>6. AnswersAreDisjoint'
      <4>1. ASSUME NEW o \in responses \ {m}
            PROVE  Effects(o) \cap (received \cup Effects(m)) = {}
        BY <3>3 DEF AnswersAreDisjoint
      <4> QED BY <3>3, <3>5, <4>1 DEF AnswersAreDisjoint
    <3> QED BY <2>4, <3>1, <3>4, <3>6
  <2> QED BY <2>1, <2>5, <2>6, <2>7
<1>4. CASE TransferData
  <2> USE <1>4 DEF TransferData, DataValid
  <2>1. TypeOK'
    <3>1. transferred + 1 \in 0 .. LinePackets
      BY DataPacketsBound, RetryAssumption DEF TypeOK, DataLeft
    <3> QED BY <3>1 DEF TypeOK, ExternalProgress
  <2>2. completer.phase = "Accepted"
    BY DEF TypeOK, NothingAnswered, RefusalIsAccountedFor, Engines
  <2>3. IdleIsQuiet' /\ NothingAnswered' /\ RefusalIsAccountedFor'
    BY <2>2 DEF IdleIsQuiet, NothingAnswered, RefusalIsAccountedFor
  <2>4. irreversibleProgress'
    BY <2>2 DEF AnswersAreDisjoint, ExternalProgress, TypeOK, Engines
  <2>5. ASSUME NEW o PROVE Effects(o)' = Effects(o)
    BY DEF Effects
  <2>6. AnswersAreDisjoint'
    BY <2>2, <2>4, <2>5 DEF AnswersAreDisjoint
  <2> QED BY <2>1, <2>3, <2>6
<1>5. CASE Finish
  <2> USE <1>5 DEF Finish, Reset
  <2>1. requests = {} /\ responses = {}
    BY DoneIsQuiet
  <2>2. TypeOK'
    BY DEF TypeOK, CreditType
  <2>3. IdleIsQuiet' /\ NothingAnswered' /\ RefusalIsAccountedFor' /\ AnswersAreDisjoint'
    BY <2>1 DEF IdleIsQuiet, NothingAnswered, RefusalIsAccountedFor, AnswersAreDisjoint
  <2> QED BY <2>2, <2>3
<1>6. CASE CompleterRefuse
  <2>1. PICK q \in requests, c \in CreditTypes :
          /\ q.allowRetry
          /\ requests' = requests \ {q}
          /\ responses' = responses \cup {Refusal(c), Credit(c)}
          /\ completer' = [phase |-> "Refused", credit |-> c]
          /\ UNCHANGED controlVars
    BY <1>6 DEF CompleterRefuse, Refusal, Credit
  <2> USE <2>1 DEF controlVars
  <2>2. TypeOK'
    BY DEF TypeOK, CreditType, Response, Refusal, Credit
  <2>3. completer.phase = "Idle"
    BY DEF TypeOK, RefusalIsAccountedFor, Repeat, AnswersAreDisjoint
  <2>4. active
    BY DEF IdleIsQuiet
  <2>5. requests' = {}
    BY <2>3 DEF NothingAnswered
  <2>6. RefusalIsAccountedFor'
    <3>1. Refusal(c) # Credit(c)
      BY DEF Refusal, Credit
    <3> QED BY <2>3, <2>4, <2>5, <3>1 DEF NothingAnswered, RefusalIsAccountedFor
  <2>7. IdleIsQuiet' /\ NothingAnswered' /\ AnswersAreDisjoint'
    BY <2>4 DEF IdleIsQuiet, NothingAnswered, AnswersAreDisjoint
  <2> QED BY <2>2, <2>6, <2>7
<1>7. CASE CompleterAccept
  <2>1. PICK q \in requests, answer \in Answers[engine] :
          /\ requests' = requests \ {q}
          /\ responses' = responses \cup {[op |-> o, pcrdType |-> NoCredit] : o \in answer}
          /\ completer' = [phase |-> "Accepted", credit |-> NoCredit]
          /\ UNCHANGED controlVars
    BY <1>7 DEF CompleterAccept
  <2> USE <2>1 DEF controlVars
  <2>2. engine \in Engines
    BY DEF TypeOK
  <2>3. /\ answer \subseteq Progress
        /\ \A o \in answer : Profile[engine][o] # {}
        /\ \A o, r \in answer : o # r => Profile[engine][o] \cap Profile[engine][r] = {}
    BY <2>2, AnswersAreProgress
  <2>4. TypeOK'
    <3>1. \A o \in answer : [op |-> o, pcrdType |-> NoCredit] \in Response
      BY <2>3 DEF Response, CreditType
    <3>2. completer' \in [phase : {"Idle", "Refused", "Accepted"}, credit : CreditType]
      BY DEF CreditType
    <3> QED BY <3>1, <3>2 DEF TypeOK
  <2>5. active
    BY DEF IdleIsQuiet
  <2>6. /\ requests' = {} /\ responses = {} /\ received = {} /\ transferred = 0 /\ attemptSent
        /\ ~ retryReceived /\ ~ retryCreditReceived
    <3>1. CASE completer.phase = "Idle"
      BY <2>5, <3>1 DEF NothingAnswered
    <3>2. CASE completer.phase = "Refused"
      BY <3>2 DEF RefusalIsAccountedFor
    <3>3. CASE completer.phase = "Accepted"
      BY <3>3 DEF AnswersAreDisjoint
    <3> QED BY <3>1, <3>2, <3>3 DEF TypeOK
  <2>7. AnswersAreDisjoint'
    <3>1. ASSUME NEW m \in responses'
          PROVE  m.op \in answer /\ m = [op |-> m.op, pcrdType |-> NoCredit]
      BY <2>6
    <3>2. ASSUME NEW m \in responses' PROVE Effects(m)' = Profile[engine][m.op]
      BY <2>3, <3>1 DEF Effects
    <3> QED BY <2>3, <2>5, <2>6, <3>1, <3>2 DEF AnswersAreDisjoint
  <2>8. IdleIsQuiet' /\ NothingAnswered' /\ RefusalIsAccountedFor'
    BY <2>5 DEF IdleIsQuiet, NothingAnswered, RefusalIsAccountedFor
  <2> QED BY <2>4, <2>7, <2>8
<1>8. CASE UNCHANGED vars
  BY <1>8 DEF vars, controlVars, TypeOK, IdleIsQuiet, NothingAnswered, RefusalIsAccountedFor,
              AnswersAreDisjoint, Effects
<1> QED BY <1>1, <1>2, <1>3, <1>4, <1>5, <1>6, <1>7, <1>8 DEF Next

LEMMA SpecIInv == Spec => []IInv
BY InitIInv, NextIInv, PTL DEF Spec

------------------------------------------------------------------------------
(* What the strengthening gives.                                           *)

\* Type correctness, for every set of credit types and every line size.
THEOREM RetryTypeOK == Spec => []TypeOK
<1>1. IInv => TypeOK
  BY DEF IInv
<1> QED BY <1>1, SpecIInv, PTL

\* The source's two assertions hold: refusal and credit are expected in either
\* order and name one type, and so is every response of an accepted attempt.
THEOREM RetryControlAssertions == Spec => []ControlAssertions
<1>1. IInv => ControlAssertions
  <2> SUFFICES ASSUME IInv PROVE ControlAssertions
    OBVIOUS
  <2> USE DEF IInv
  <2>1. completer.phase \in {"Idle", "Refused", "Accepted"}
    BY DEF TypeOK
  <2>2. CASE completer.phase = "Idle"
    BY <2>2 DEF NothingAnswered, ControlAssertions
  <2>3. CASE completer.phase = "Refused"
    <3>1. ASSUME NEW m \in responses PROVE ResponseExpected(m)
      BY <2>3 DEF RefusalIsAccountedFor, Refusal, Credit, ResponseExpected, RetryExpected,
                  CreditExpected
    <3>2. retryReceived /\ retryCreditReceived => retryCreditType = grantedCreditType
      BY <2>3 DEF RefusalIsAccountedFor
    <3> QED BY <3>1, <3>2 DEF ControlAssertions
  <2>4. CASE completer.phase = "Accepted"
    <3>1. ASSUME NEW m \in responses PROVE ProgressExpected(m)
      BY <2>4 DEF AnswersAreDisjoint, ProgressExpected
    <3> QED BY <2>4, <3>1 DEF AnswersAreDisjoint, ControlAssertions, ResponseExpected
  <2> QED BY <2>1, <2>2, <2>3, <2>4
<1> QED BY <1>1, SpecIInv, PTL

\* A repeat forbids a second refusal, spends the credit it was granted, and
\* leaves only after both messages of the refusal are in.
THEOREM RetryRepeatIsCredited == Spec => []RepeatIsCredited
<1>1. IInv => RepeatIsCredited
  <2> SUFFICES ASSUME IInv, NEW q \in requests
               PROVE  /\ q.allowRetry <=> completer.phase = "Idle"
                      /\ ~ q.allowRetry => q.pcrdType = completer.credit /\ responses = {}
    BY DEF RepeatIsCredited
  <2> USE DEF IInv
  <2>1. CASE completer.phase = "Idle"
    BY <2>1 DEF NothingAnswered, FirstAttempt
  <2>2. CASE completer.phase = "Refused"
    BY <2>2 DEF RefusalIsAccountedFor, Repeat
  <2>3. completer.phase # "Accepted"
    BY DEF AnswersAreDisjoint
  <2> QED BY <2>1, <2>2, <2>3 DEF TypeOK
<1> QED BY <1>1, SpecIInv, PTL

\* No completer sees a second attempt of a transaction it has accepted.
THEOREM RetryAcceptedOnce == Spec => []AcceptedOnce
<1>1. IInv => AcceptedOnce
  BY DEF IInv, AnswersAreDisjoint, AcceptedOnce, AttemptValid
<1> QED BY <1>1, SpecIInv, PTL

\* Progress on any channel bars a refusal from then on.
THEOREM RetryProgressBarsRetry == Spec => []ProgressBarsRetry
<1>1. IInv => ProgressBarsRetry
  <2> SUFFICES ASSUME IInv, active, received # {} \/ transferred > 0
               PROVE  irreversibleProgress
    BY DEF ProgressBarsRetry, RetryExpected
  <2> USE DEF IInv
  <2>1. transferred \in 0 .. LinePackets
    BY DEF TypeOK
  <2>2. completer.phase # "Idle" /\ completer.phase # "Refused"
    BY <2>1 DEF NothingAnswered, RefusalIsAccountedFor
  <2> QED BY <2>2 DEF TypeOK, AnswersAreDisjoint
<1> QED BY <1>1, SpecIInv, PTL
=============================================================================
