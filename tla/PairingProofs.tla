--------------------------- MODULE PairingProofs ---------------------------
(***************************************************************************)
(* Theorems about Pairing, for any devices, codes and calls in progress.   *)
(***************************************************************************)
EXTENDS Pairing, TLAPS

\* Memory, files, tables, calls and history have their types in every state.
THEOREM TypeCorrect == Spec => []TypeOK
<1> USE PairingAssumption
<1>a. IdleTask \in TaskRecord
  BY DEF IdleTask, TaskRecord, Stage, Step
<1>b. NoPairing \in Outgoing
  BY DEF NoPairing, Outgoing
<1>1. Init => TypeOK
  BY <1>a, <1>b DEF Init, TypeOK
<1>2. TypeOK /\ [Next]_vars => TypeOK'
  <2> SUFFICES ASSUME TypeOK, [Next]_vars PROVE TypeOK'
    OBVIOUS
  <2> USE DEF memory, stored, history, budget
  <2>1. ASSUME NEW i \in Device, NEW c \in Code, NEW T \in SUBSET Device,
               StartPairing(i, c, T)
        PROVE  TypeOK'
    <3>1. [code |-> c, pending |-> T, attempts |-> 0, age |-> 0] \in Outgoing
      BY DEF Outgoing
    <3>2. outgoing' \in [Device -> Outgoing]
      BY <2>1, <3>1 DEF TypeOK, StartPairing, Begin
    <3>3. requests' \subseteq Device \X Device /\ shown' \subseteq Device \X Code \X Device
      BY <2>1 DEF TypeOK, StartPairing
    <3>4. prompted' \subseteq Device \X Device /\ compared' \in [Device -> Nat]
      BY <2>1 DEF TypeOK, StartPairing
    <3> QED
      BY <2>1, <3>2, <3>3, <3>4 DEF TypeOK, StartPairing, Act
  <2>2. ASSUME NEW i \in Device, CancelPairing(i) PROVE TypeOK'
    BY <2>2, <1>b DEF TypeOK, CancelPairing, Act
  <2>3. ASSUME NEW i \in Device, NEW d \in Device, PairRequest(i, d) PROVE TypeOK'
    BY <2>3 DEF TypeOK, PairRequest
  <2>4. ASSUME NEW t \in Task, NEW d \in Device, NEW i \in Device, NEW c \in Code,
               ConfirmPairing(t, d, i, c)
        PROVE  TypeOK'
    <3>1. [stage |-> "asking", step |-> "cert", at |-> i, who |-> d,
           code |-> c, waits |-> TRUE, read |-> {}] \in TaskRecord
      BY DEF TaskRecord, Stage, Step
    <3>2. task' \in [Task -> TaskRecord]
      BY <2>4, <3>1 DEF TypeOK, ConfirmPairing
    <3> QED
      BY <2>4, <3>2 DEF TypeOK, ConfirmPairing, Act
  <2>5. ASSUME NEW t \in Task, NEW d \in Device, NEW p \in Device, Unpair(t, d, p)
        PROVE  TypeOK'
    <3>1. [stage |-> "revoking", step |-> "cert", at |-> d, who |-> p,
           code |-> None, waits |-> FALSE, read |-> {}] \in TaskRecord
      BY DEF TaskRecord, Stage, Step
    <3>2. task' \in [Task -> TaskRecord]
      BY <2>5, <3>1 DEF TypeOK, Unpair
    <3> QED
      BY <2>5, <3>2 DEF TypeOK, Unpair, Act, Between
  <2>6. ASSUME NEW t \in Task, TaskStep(t) PROVE TypeOK'
    <3> task[t] \in TaskRecord
      BY DEF TypeOK
    <3>1. CASE PairConfirm(t)
      <4> DEFINE i == task[t].at
                 d == task[t].who
                 v == Verdict(i, d, task[t].code)
      <4>1. i \in Device /\ d \in Device
        BY DEF TaskRecord
      <4>2. outgoing' \in [Device -> Outgoing]
        <5>1. Verified(outgoing[i], d, v) \in Outgoing
          <6>1. outgoing[i] \in Outgoing
            BY <4>1 DEF TypeOK
          <6> HIDE DEF i, d, v
          <6> QED
            BY <1>b, <6>1 DEF Verified, Outgoing
        <5> QED
          BY <3>1, <4>1, <5>1 DEF TypeOK, PairConfirm
      <4>3. task' \in [Task -> TaskRecord]
        <5>1. [task[t] EXCEPT !.stage = "accepting", !.step = "cert"] \in TaskRecord
          BY DEF TaskRecord, Stage, Step
        <5> QED
          BY <3>1, <5>1, <1>a DEF TypeOK, PairConfirm
      <4>4. compared' \in [Device -> Nat]
        BY <3>1, <4>1 DEF TypeOK, PairConfirm
      <4> QED
        BY <3>1, <4>2, <4>3, <4>4 DEF TypeOK, PairConfirm
    <3>2. CASE ReplyArrives(t)
      <4>1. [task[t] EXCEPT !.stage = "returning", !.step = "cert",
                            !.at = task[t].who, !.who = task[t].at] \in TaskRecord
        BY DEF TaskRecord, Stage, Step
      <4> QED
        BY <3>2, <4>1 DEF TypeOK, ReplyArrives
    <3>3. ASSUME SaveCert(t) \/ SaveRow(t) \/ RemoveCert(t) PROVE TypeOK'
      <4>1. task[t].at \in Device /\ task[t].who \in Device
        BY DEF TaskRecord
      <4>2. \A s \in Step : [task[t] EXCEPT !.step = s] \in TaskRecord
        BY DEF TaskRecord
      <4>3. task' \in [Task -> TaskRecord]
        BY <3>3, <4>2 DEF TypeOK, SaveCert, SaveRow, RemoveCert, Goto, Step
      <4>4. torn' \subseteq Device
        BY <3>3, <4>1 DEF TypeOK, SaveCert, SaveRow, RemoveCert, Tear
      <4>5. certs' \in [Device -> SUBSET Device] /\ rows' \in [Device -> SUBSET Device]
        BY <3>3, <4>1 DEF TypeOK, SaveCert, SaveRow, RemoveCert
      <4> QED
        BY <3>3, <4>3, <4>4, <4>5 DEF TypeOK, SaveCert, SaveRow, RemoveCert
    <3>4. CASE ReadCerts(t)
      <4>1. task[t].at \in Device
        BY DEF TaskRecord
      <4>2. [task[t] EXCEPT !.step = "set", !.read = certs[task[t].at]] \in TaskRecord
        BY <4>1 DEF TypeOK, TaskRecord, Step
      <4> QED
        BY <3>4, <4>1, <4>2 DEF TypeOK, ReadCerts, Tear
    <3>5. CASE ReplaceTrusted(t)
      <4>1. task[t].at \in Device /\ task[t].who \in Device
            /\ task[t].read \subseteq Device
        BY DEF TaskRecord
      <4>2. [task[t] EXCEPT !.stage = "answering"] \in TaskRecord
        BY DEF TaskRecord, Stage
      <4>3. task' \in [Task -> TaskRecord]
        BY <3>5, <4>2, <1>a DEF TypeOK, ReplaceTrusted, AfterPinning
      <4>4. offers' \in [Device -> [Device -> 0 .. OfferTTL]]
        BY <3>5, <4>1 DEF TypeOK, ReplaceTrusted, AfterPinning
      <4> QED
        BY <3>5, <4>1, <4>3, <4>4 DEF TypeOK, ReplaceTrusted, Tear
    <3> QED
      BY <2>6, <3>1, <3>2, <3>3, <3>4, <3>5 DEF TaskStep
  <2>7. ASSUME NEW t \in Task, StepFails(t) \/ CallLost(t) \/ GiveUp(t)
        PROVE  TypeOK'
    <3> task[t] \in TaskRecord
      BY DEF TypeOK
    <3>1. task[t].at \in Device /\ task[t].who \in Device
      BY DEF TaskRecord
    <3>2. [task[t] EXCEPT !.waits = FALSE] \in TaskRecord
      BY DEF TaskRecord
    <3>3. task' \in [Task -> TaskRecord]
      BY <2>7, <3>2, <1>a DEF TypeOK, StepFails, CallLost, GiveUp
    <3> QED
      BY <2>7, <3>1, <3>3 DEF TypeOK, StepFails, CallLost, GiveUp, Fault, Between
  <2>8. ASSUME NEW d \in Device, Restart(d) PROVE TypeOK'
    <3>1. \A k \in TaskRecord : Orphaned(k, d) \in TaskRecord
      BY <1>a DEF Orphaned, TaskRecord
    <3>2. task' \in [Task -> TaskRecord]
      BY <2>8, <3>1 DEF TypeOK, Restart
    <3>3. \A t \in Task : task[t].at \in Device /\ task[t].who \in Device
      BY DEF TypeOK, TaskRecord
    <3>4. troubled' \subseteq Device \X Device
      BY <2>8, <3>3 DEF TypeOK, Restart, Between
    <3>5. outgoing' \in [Device -> Outgoing]
      BY <2>8, <1>b DEF TypeOK, Restart
    <3> QED
      BY <2>8, <3>2, <3>4, <3>5 DEF TypeOK, Restart, Fault
  <2>9. CASE Tick
    <3>1. outgoing' \in [Device -> Outgoing]
      <4>1. \A o \in Outgoing : [o EXCEPT !.age = Older(o.age, CodeTTL)] \in Outgoing
        BY DEF Outgoing, Older
      <4> QED
        BY <2>9, <4>1 DEF TypeOK, Tick
    <3>2. offers' \in [Device -> [Device -> 0 .. OfferTTL]]
      BY <2>9 DEF TypeOK, Tick, Older
    <3> QED
      BY <2>9, <3>1, <3>2 DEF TypeOK, Tick
  <2>10. CASE UNCHANGED vars
    BY <2>10 DEF TypeOK, vars
  <2> QED
    BY <2>1, <2>2, <2>3, <2>4, <2>5, <2>6, <2>7, <2>8, <2>9, <2>10 DEF Next
<1> QED
  BY <1>1, <1>2, PTL DEF Spec

-----------------------------------------------------------------------------
(* Guesses are counted by the pairing itself while there is one, and a       *)
(* pairing is over when the count runs out.                                  *)

Counted(i) ==
  outgoing[i].code # None =>
    compared[i] = outgoing[i].attempts /\ outgoing[i].attempts < MaxAttempts

AttemptInv == \A i \in Device : compared[i] <= MaxAttempts /\ Counted(i)

\* A code is compared with at most MaxAttempts wrong proofs.
THEOREM GuessesAreBounded == Spec => []AttemptsAreBounded
<1> USE PairingAssumption
<1>1. Init => AttemptInv
  BY DEF Init, NoPairing, AttemptInv, Counted
<1>2. TypeOK /\ AttemptInv /\ [Next]_vars => AttemptInv'
  <2> SUFFICES ASSUME TypeOK, AttemptInv, [Next]_vars PROVE AttemptInv'
    OBVIOUS
  <2> USE DEF memory, stored, history
  <2>1. ASSUME UNCHANGED <<outgoing, compared>> PROVE AttemptInv'
    BY <2>1 DEF AttemptInv, Counted
  <2>2. ASSUME NEW i \in Device, NEW c \in Code, NEW T \in SUBSET Device,
               StartPairing(i, c, T)
        PROVE  AttemptInv'
    BY <2>2 DEF TypeOK, StartPairing, Begin, AttemptInv, Counted
  <2>3. ASSUME NEW i \in Device, CancelPairing(i) \/ Restart(i) PROVE AttemptInv'
    BY <2>3 DEF TypeOK, CancelPairing, Restart, NoPairing, AttemptInv, Counted
  <2>4. ASSUME NEW t \in Task, PairConfirm(t) PROVE AttemptInv'
    <3> DEFINE i == task[t].at
               v == Verdict(i, task[t].who, task[t].code)
    <3>1. i \in Device /\ outgoing[i] \in Outgoing /\ compared[i] \in Nat
      BY DEF TypeOK, TaskRecord
    <3>2. CASE v = "BadCode"
      <4>1. outgoing[i].code # None
        BY <3>2 DEF Verdict
      <4>2. Verified(outgoing[i], task[t].who, v) =
              IF outgoing[i].attempts + 1 >= MaxAttempts THEN NoPairing
              ELSE [outgoing[i] EXCEPT !.attempts = @ + 1]
        BY <3>2 DEF Verified
      <4> QED
        BY <2>4, <3>1, <3>2, <4>1, <4>2
           DEF TypeOK, PairConfirm, NoPairing, Outgoing, AttemptInv, Counted
    <3>3. CASE v # "BadCode"
      <4>1. \/ Verified(outgoing[i], task[t].who, v) = NoPairing
            \/ Verified(outgoing[i], task[t].who, v) = outgoing[i]
            \/ Verified(outgoing[i], task[t].who, v)
                 = [outgoing[i] EXCEPT !.pending = @ \ {task[t].who}]
        BY <3>3 DEF Verified
      <4>2. compared' = compared
        BY <2>4, <3>1, <3>3 DEF TypeOK, PairConfirm
      <4> QED
        BY <2>4, <3>1, <4>1, <4>2
           DEF TypeOK, PairConfirm, NoPairing, Outgoing, AttemptInv, Counted
    <3> QED
      BY <3>2, <3>3
  <2>5. CASE Tick
    <3>1. \A i \in Device : /\ outgoing'[i].code = outgoing[i].code
                             /\ outgoing'[i].attempts = outgoing[i].attempts
      BY <2>5 DEF TypeOK, Tick, Outgoing
    <3> QED
      BY <2>5, <3>1 DEF Tick, AttemptInv, Counted
  <2> QED
    BY <2>1, <2>2, <2>3, <2>4, <2>5
       DEF Next, TaskStep, PairRequest, ConfirmPairing, Unpair, ReplyArrives, SaveCert,
           SaveRow, RemoveCert, ReadCerts, ReplaceTrusted, StepFails, CallLost, GiveUp,
           vars
<1>3. AttemptInv => AttemptsAreBounded
  BY DEF AttemptInv, AttemptsAreBounded
<1> QED
  BY <1>1, <1>2, <1>3, TypeCorrect, PTL DEF Spec

-----------------------------------------------------------------------------
(* Trust is passed on from what was shown and typed: through the pairing,    *)
(* the call that carries the code, the call that was accepted, and the       *)
(* certificates a reload has read.                                           *)

Offering == \A i \in Device : outgoing[i].code # None =>
              \A d \in outgoing[i].pending : <<i, outgoing[i].code, d>> \in shown

Carried(k) ==
  /\ k.stage = "asking" => k.code \in Code /\ <<k.at, k.code, k.who>> \in typed
  /\ k.stage \in {"accepting", "answering", "returning"} => Met(k.at, k.who)
  /\ k.stage # "idle" /\ k.step = "set" => \A p \in k.read : Met(k.at, p)

Carrying == \A t \in Task : Carried(task[t])

TrustInv == Offering /\ Carrying /\ TrustIsProven

\* Nobody is pinned on whom the code was not typed that was shown for it.
THEOREM NobodyElseIsTrusted == Spec => []TrustIsProven
<1> USE PairingAssumption
<1>1. Init => TrustInv
  BY DEF Init, NoPairing, IdleTask, TrustInv, Offering, Carrying, Carried,
         TrustIsProven
<1>2. TypeOK /\ TrustInv /\ [Next]_vars => TrustInv'
  <2> SUFFICES ASSUME TypeOK, TrustInv, [Next]_vars PROVE TrustInv'
    OBVIOUS
  <2> USE DEF memory, stored, history
  <2>1. shown \subseteq shown' /\ typed \subseteq typed'
    BY DEF Next, StartPairing, CancelPairing, PairRequest, ConfirmPairing, Unpair,
           TaskStep, PairConfirm, ReplyArrives, SaveCert, SaveRow, RemoveCert,
           ReadCerts, ReplaceTrusted, StepFails, CallLost, GiveUp, Restart, Tick, vars
  <2>2. \A d, p : Met(d, p) => Met(d, p)'
    BY <2>1 DEF Met
  <2>3. \A k : Carried(k) => Carried(k)'
    BY <2>1, <2>2 DEF Carried
  <2>4. ASSUME UNCHANGED outgoing PROVE Offering'
    BY <2>1, <2>4 DEF TrustInv, Offering
  <2>5. ASSUME UNCHANGED task PROVE Carrying'
    BY <2>3, <2>5 DEF TrustInv, Carrying
  <2>6. ASSUME UNCHANGED stored PROVE TrustIsProven'
    BY <2>2, <2>6 DEF TrustInv, TrustIsProven
  <2>7. Carried(IdleTask)'
    BY DEF Carried, IdleTask
  <2>8. ASSUME NEW i \in Device, NEW c \in Code, NEW T \in SUBSET Device,
               StartPairing(i, c, T)
        PROVE  TrustInv'
    <3>1. Offering'
      BY <2>1, <2>8 DEF TypeOK, TrustInv, Offering, StartPairing, Begin
    <3> QED
      BY <2>5, <2>6, <2>8, <3>1 DEF StartPairing, TrustInv
  <2>9. ASSUME NEW i \in Device, CancelPairing(i) PROVE TrustInv'
    <3>1. Offering'
      BY <2>1, <2>9 DEF TypeOK, TrustInv, Offering, CancelPairing, NoPairing
    <3> QED
      BY <2>5, <2>6, <2>9, <3>1 DEF CancelPairing, TrustInv
  <2>10. ASSUME NEW t \in Task, NEW k, Carried(k)', task' = [task EXCEPT ![t] = k]
         PROVE  Carrying'
    BY <2>3, <2>10 DEF TypeOK, TrustInv, Carrying
  <2>11. ASSUME NEW t \in Task, NEW d \in Device, NEW i \in Device, NEW c \in Code,
                ConfirmPairing(t, d, i, c)
         PROVE  TrustInv'
    <3> DEFINE k == [stage |-> "asking", step |-> "cert", at |-> i, who |-> d,
                     code |-> c, waits |-> TRUE, read |-> {}]
    <3>1. Carried(k)'
      BY <2>11 DEF Carried, ConfirmPairing
    <3>2. Carrying'
      BY <2>10, <2>11, <3>1 DEF ConfirmPairing
    <3> QED
      BY <2>4, <2>6, <2>11, <3>2 DEF ConfirmPairing, TrustInv
  <2>12. ASSUME NEW t \in Task, NEW d \in Device, NEW p \in Device, Unpair(t, d, p)
         PROVE  TrustInv'
    <3> DEFINE k == [stage |-> "revoking", step |-> "cert", at |-> d, who |-> p,
                     code |-> None, waits |-> FALSE, read |-> {}]
    <3>1. Carried(k)'
      BY DEF Carried
    <3>2. Carrying'
      BY <2>10, <2>12, <3>1 DEF Unpair
    <3>3. TrustIsProven'
      BY <2>2, <2>12 DEF TypeOK, TrustInv, TrustIsProven, Unpair
    <3> QED
      BY <2>4, <2>12, <3>2, <3>3 DEF Unpair, TrustInv
  <2>13. ASSUME NEW t \in Task, TaskStep(t) \/ StepFails(t) \/ CallLost(t) \/ GiveUp(t)
         PROVE  TrustInv'
    <3>1. PICK j \in TaskRecord : task[t] = j
      BY DEF TypeOK
    <3>2. j.at \in Device /\ j.who \in Device /\ Carried(j) /\ Carried(j)'
      BY <2>3, <3>1 DEF TaskRecord, TrustInv, Carrying
    <3>3. CASE PairConfirm(t)
      <4> DEFINE v == Verdict(j.at, j.who, j.code)
                 w == Verified(outgoing[j.at], j.who, v)
                 k == [j EXCEPT !.stage = "accepting", !.step = "cert"]
      <4>1. outgoing[j.at] \in Outgoing
        BY <3>2 DEF TypeOK
      <4>2. Offering'
        <5>1. w = NoPairing \/ /\ w.code = outgoing[j.at].code
                               /\ w.pending \subseteq outgoing[j.at].pending
          BY <4>1 DEF Verified, Outgoing
        <5>2. outgoing' = [outgoing EXCEPT ![j.at] = w]
          BY <3>1, <3>3 DEF PairConfirm
        <5> HIDE DEF w
        <5> QED
          BY <2>1, <3>2, <5>1, <5>2 DEF TypeOK, TrustInv, Offering, NoPairing
      <4>3. ASSUME v = "Paired" PROVE Carrying'
        <5>1. /\ outgoing[j.at].code # None /\ j.who \in outgoing[j.at].pending
              /\ outgoing[j.at].code = j.code
          BY <4>1, <4>3 DEF Verdict, Outgoing
        <5>2. <<j.at, j.code, j.who>> \in shown
          BY <3>2, <5>1 DEF TrustInv, Offering
        <5>3. j.code \in Code /\ <<j.at, j.code, j.who>> \in typed
          BY <3>1, <3>2, <3>3 DEF PairConfirm, Carried
        <5>4. Met(j.at, j.who)
          BY <5>2, <5>3 DEF Met
        <5>5. Met(j.at, j.who)'
          BY <2>2, <5>4
        <5>6. /\ k.stage = "accepting" /\ k.step = "cert"
              /\ k.at = j.at /\ k.who = j.who
          BY DEF TaskRecord
        <5>7. task' = [task EXCEPT ![t] = k]
          BY <3>1, <3>3, <4>3 DEF PairConfirm
        <5> HIDE DEF k
        <5>8. Carried(k)'
          BY <5>5, <5>6 DEF Carried
        <5> QED
          BY <2>10, <5>7, <5>8
      <4>4. ASSUME v # "Paired" PROVE Carrying'
        <5>1. task' = [task EXCEPT ![t] = IdleTask]
          BY <3>1, <3>3, <4>4 DEF PairConfirm
        <5> QED
          BY <2>7, <2>10, <5>1
      <4> QED
        BY <2>6, <3>3, <4>2, <4>3, <4>4 DEF PairConfirm, TrustInv
    <3>4. CASE ReplyArrives(t)
      <4> DEFINE k == [j EXCEPT !.stage = "returning", !.step = "cert",
                                !.at = j.who, !.who = j.at]
      <4>1. Met(j.who, j.at)
        BY <3>1, <3>2, <3>4 DEF ReplyArrives, Carried, Met
      <4>2. /\ k.stage = "returning" /\ k.step = "cert"
            /\ k.at = j.who /\ k.who = j.at
        BY DEF TaskRecord
      <4>3. task' = [task EXCEPT ![t] = k]
        BY <3>1, <3>4 DEF ReplyArrives
      <4> HIDE DEF k
      <4>4. Carried(k)'
        BY <2>2, <4>1, <4>2 DEF Carried
      <4> QED
        BY <2>4, <2>6, <2>10, <3>4, <4>3, <4>4 DEF ReplyArrives, TrustInv
    <3>5. ASSUME SaveCert(t) \/ SaveRow(t) \/ RemoveCert(t) PROVE TrustInv'
      <4>1. PICK s \in Step \ {"set"} :
              task' = [task EXCEPT ![t] = [j EXCEPT !.step = s]]
        BY <3>1, <3>5 DEF SaveCert, SaveRow, RemoveCert, Goto, Step
      <4> DEFINE k == [j EXCEPT !.step = s]
      <4>2. /\ k.stage = j.stage /\ k.step = s /\ k.at = j.at
            /\ k.who = j.who /\ k.code = j.code
        BY DEF TaskRecord
      <4> HIDE DEF k
      <4>3. Carried(k)'
        BY <3>2, <4>2 DEF Carried
      <4>4. Carrying'
        BY <2>10, <4>1, <4>3 DEF k
      <4>5. TrustIsProven'
        <5>1. j.stage \in {"accepting", "returning"} => Met(j.at, j.who)
          BY <3>2 DEF Carried
        <5>2. \A d \in Device : \A p \in (certs[d] \cup rows[d] \cup trust[d])' :
                \/ p \in certs[d] \cup rows[d] \cup trust[d]
                \/ d = j.at /\ p = j.who /\ j.stage \in {"accepting", "returning"}
          BY <3>1, <3>2, <3>5 DEF TypeOK, SaveCert, SaveRow, RemoveCert
        <5>3. \A d \in Device : \A p \in (certs[d] \cup rows[d] \cup trust[d])' :
                Met(d, p)
          BY <5>1, <5>2 DEF TrustInv, TrustIsProven
        <5> QED
          BY <2>2, <5>3 DEF TrustIsProven
      <4> QED
        BY <2>4, <3>5, <4>4, <4>5 DEF SaveCert, SaveRow, RemoveCert, TrustInv
    <3>6. CASE ReadCerts(t)
      <4>1. PICK C \in SUBSET Device : certs[j.at] = C
        BY <3>2 DEF TypeOK
      <4> DEFINE k == [j EXCEPT !.step = "set", !.read = C]
      <4>2. /\ k.stage = j.stage /\ k.read = C /\ k.at = j.at /\ k.who = j.who
            /\ k.code = j.code
        BY DEF TaskRecord
      <4>3. task' = [task EXCEPT ![t] = k]
        BY <3>1, <3>6, <4>1 DEF ReadCerts
      <4>4. \A p \in C : Met(j.at, p)
        BY <3>2, <4>1 DEF TrustInv, TrustIsProven
      <4> HIDE DEF k
      <4>5. Carried(k)'
        BY <2>2, <3>2, <4>2, <4>4 DEF Carried
      <4> QED
        BY <2>4, <2>6, <2>10, <3>6, <4>3, <4>5 DEF ReadCerts, TrustInv
    <3>7. CASE ReplaceTrusted(t)
      <4> DEFINE k == [j EXCEPT !.stage = "answering"]
      <4>1. /\ k.stage = "answering" /\ k.step = j.step /\ k.read = j.read
            /\ k.at = j.at /\ k.who = j.who
        BY DEF TaskRecord
      <4>2. \/ task' = [task EXCEPT ![t] = IdleTask]
            \/ j.stage = "accepting" /\ task' = [task EXCEPT ![t] = k]
        BY <3>1, <3>7 DEF ReplaceTrusted, AfterPinning
      <4> HIDE DEF k
      <4>3. j.stage = "accepting" => Carried(k)'
        BY <3>2, <4>1 DEF Carried
      <4>4. Carrying'
        BY <2>7, <2>10, <4>2, <4>3
      <4>5. \A p \in j.read : Met(j.at, p)
        BY <3>1, <3>2, <3>7 DEF ReplaceTrusted, Carried
      <4>6. TrustIsProven'
        <5>1. \A d \in Device : \A p \in (certs[d] \cup rows[d] \cup trust[d])' :
                \/ p \in certs[d] \cup rows[d] \cup trust[d]
                \/ d = j.at /\ p \in j.read
          BY <3>1, <3>2, <3>7 DEF TypeOK, ReplaceTrusted
        <5>2. \A d \in Device : \A p \in (certs[d] \cup rows[d] \cup trust[d])' :
                Met(d, p)
          BY <4>5, <5>1 DEF TrustInv, TrustIsProven
        <5> QED
          BY <2>2, <5>2 DEF TrustIsProven
      <4> QED
        BY <2>4, <3>7, <4>4, <4>6 DEF ReplaceTrusted, TrustInv
    <3>8. ASSUME StepFails(t) \/ CallLost(t) \/ GiveUp(t) PROVE TrustInv'
      <4> DEFINE k == [j EXCEPT !.waits = FALSE]
      <4>1. /\ k.stage = j.stage /\ k.step = j.step /\ k.read = j.read
            /\ k.code = j.code /\ k.at = j.at /\ k.who = j.who
        BY DEF TaskRecord
      <4>2. \/ task' = [task EXCEPT ![t] = IdleTask]
            \/ task' = [task EXCEPT ![t] = k]
        BY <3>1, <3>8 DEF StepFails, CallLost, GiveUp
      <4> HIDE DEF k
      <4>3. Carried(k)'
        BY <3>2, <4>1 DEF Carried
      <4>4. Carrying'
        BY <2>7, <2>10, <4>2, <4>3
      <4> QED
        BY <2>4, <2>6, <3>8, <4>4 DEF StepFails, CallLost, GiveUp, TrustInv
    <3> QED
      BY <2>13, <3>3, <3>4, <3>5, <3>6, <3>7, <3>8 DEF TaskStep
  <2>14. ASSUME NEW d \in Device, Restart(d) PROVE TrustInv'
    <3>1. ASSUME NEW u \in Task PROVE Carried(task[u])'
      <4>1. PICK j \in TaskRecord : task[u] = j
        BY DEF TypeOK
      <4> DEFINE k == [j EXCEPT !.waits = FALSE]
      <4>2. Carried(j)'
        BY <2>3, <4>1 DEF TrustInv, Carrying
      <4>3. /\ k.stage = j.stage /\ k.step = j.step /\ k.read = j.read
            /\ k.code = j.code /\ k.at = j.at /\ k.who = j.who
        BY DEF TaskRecord
      <4>4. task'[u] \in {j, IdleTask, k}
        BY <2>14, <4>1 DEF Restart, Orphaned
      <4> HIDE DEF k
      <4>5. Carried(k)'
        BY <4>2, <4>3 DEF Carried
      <4> QED
        BY <2>7, <4>2, <4>4, <4>5
    <3>2. Offering'
      BY <2>1, <2>14 DEF TypeOK, TrustInv, Offering, Restart, NoPairing
    <3>3. TrustIsProven'
      <4>1. \A e \in Device : \A p \in (certs[e] \cup rows[e] \cup trust[e])' : Met(e, p)
        BY <2>14 DEF TypeOK, TrustInv, TrustIsProven, Restart
      <4> QED
        BY <2>2, <4>1 DEF TrustIsProven
    <3> QED
      BY <3>1, <3>2, <3>3 DEF TrustInv, Carrying
  <2>15. CASE Tick
    <3>1. \A i \in Device : /\ outgoing'[i].code = outgoing[i].code
                             /\ outgoing'[i].pending = outgoing[i].pending
      BY <2>15 DEF TypeOK, Tick, Outgoing
    <3>2. Offering'
      BY <2>1, <3>1 DEF TrustInv, Offering
    <3> QED
      BY <2>5, <2>6, <2>15, <3>2 DEF Tick, TrustInv
  <2>16. CASE UNCHANGED vars
    BY <2>4, <2>5, <2>6, <2>16 DEF vars, TrustInv
  <2>17. ASSUME NEW i \in Device, NEW d \in Device, PairRequest(i, d) PROVE TrustInv'
    BY <2>4, <2>5, <2>6, <2>17 DEF PairRequest, TrustInv
  <2> QED
    BY <2>8, <2>9, <2>11, <2>12, <2>13, <2>14, <2>15, <2>16, <2>17 DEF Next
<1>3. TrustInv => TrustIsProven
  BY DEF TrustInv
<1> QED
  BY <1>1, <1>2, <1>3, TypeCorrect, PTL DEF Spec

-----------------------------------------------------------------------------
(* On a device that is not torn at most one pinning or unpairing has begun,  *)
(* and how far it is says how file, row and memory differ.                   *)

\* Call k has taken a step on device d and not its last.
Begun(k, d) ==
  /\ k.stage \in {"accepting", "returning", "revoking"} /\ k.at = d
  /\ k.step = "cert" => k.stage = "revoking"

Half(k, d) ==
  /\ k.step = "cert" => rows[d] = certs[d] \ {k.who} /\ trust[d] = certs[d]
  /\ k.step = "row" => certs[d] = rows[d] \cup {k.who} /\ trust[d] = rows[d]
  /\ k.step = "read" => certs[d] = rows[d]
  /\ k.step = "set" => certs[d] = rows[d] /\ k.read = certs[d]

Sound(d) ==
  /\ \A t, u \in Task : Begun(task[t], d) /\ Begun(task[u], d) => t = u
  /\ \A t \in Task : Begun(task[t], d) => Half(task[t], d)
  /\ (\A t \in Task : ~ Begun(task[t], d)) =>
        certs[d] = rows[d] /\ trust[d] = certs[d]

TornInv == \A d \in Device : d \in torn \/ Sound(d)

\* The server accepts exactly the devices pinned and listed, on every device at
\* rest that is not torn.
THEOREM OneTruth == Spec => []OneTruthUnlessTorn
<1> USE PairingAssumption
<1>1. Init => TornInv
  BY DEF Init, IdleTask, TornInv, Sound, Begun
<1>2. TypeOK /\ TornInv /\ [Next]_vars => TornInv'
  <2> SUFFICES ASSUME TypeOK, TornInv, [Next]_vars, NEW d \in Device, d \notin torn'
               PROVE  Sound(d)'
    BY DEF TornInv
  <2> USE DEF memory, stored, history
  <2>1. torn \subseteq torn'
    BY DEF Next, StartPairing, CancelPairing, PairRequest, ConfirmPairing, Unpair,
           TaskStep, PairConfirm, ReplyArrives, SaveCert, SaveRow, RemoveCert, Tear,
           ReadCerts, ReplaceTrusted, StepFails, CallLost, GiveUp, Restart, Tick, vars
  <2>2. Sound(d)
    BY <2>1 DEF TornInv
  <2>3. \A t \in Task : task[t] \in TaskRecord
    BY DEF TypeOK
  <2>4. \A e : ~ Begun(IdleTask, e)
    BY DEF Begun, IdleTask
  \* A step that begins or ends no work on d, nor touches what it keeps.
  <2>0. ASSUME certs'[d] = certs[d], rows'[d] = rows[d], trust'[d] = trust[d],
               \A t \in Task : Begun(task'[t], d) <=> Begun(task[t], d),
               \A t \in Task : Begun(task[t], d) =>
                 /\ task'[t].step = task[t].step /\ task'[t].who = task[t].who
                 /\ task'[t].read = task[t].read
        PROVE  Sound(d)'
    BY <2>0, <2>2 DEF Sound, Half, Begun
  <2>5. ASSUME UNCHANGED <<stored, task>> PROVE Sound(d)'
    BY <2>0, <2>5
  <2>6. ASSUME NEW t \in Task, NEW k, task' = [task EXCEPT ![t] = k], UNCHANGED stored,
               ~ Begun(task[t], d), ~ Begun(k, d)
        PROVE  Sound(d)'
    BY <2>2, <2>6, <2>0 DEF TypeOK
  <2>7. ASSUME NEW t \in Task, NEW k, task' = [task EXCEPT ![t] = k],
                \A u \in Task \ {t} : ~ Begun(task[u], d),
                Begun(k, d) => Half(k, d)',
                ~ Begun(k, d) => (certs[d] = rows[d] /\ trust[d] = certs[d])'
         PROVE  Sound(d)'
    <3>1. task'[t] = k /\ \A u \in Task \ {t} : task'[u] = task[u]
      BY <2>7 DEF TypeOK
    <3>2. \A u \in Task : Begun(task[u], d)' => u = t
      BY <2>7, <3>1
    <3> QED
      BY <2>7, <3>1, <3>2 DEF Sound
  <2>8. ASSUME NEW t \in Task, NEW e \in Device, NEW i \in Device, NEW c \in Code,
               ConfirmPairing(t, e, i, c)
        PROVE  Sound(d)'
    <3> DEFINE k == [stage |-> "asking", step |-> "cert", at |-> i, who |-> e,
                     code |-> c, waits |-> TRUE, read |-> {}]
    <3>1. ~ Begun(k, d) /\ ~ Begun(task[t], d)
      BY <2>8 DEF Begun, ConfirmPairing, Free
    <3> QED
      BY <2>6, <2>8, <3>1 DEF ConfirmPairing
  <2>9. ASSUME NEW t \in Task, NEW e \in Device, NEW p \in Device, Unpair(t, e, p)
        PROVE  Sound(d)'
    <3> DEFINE k == [stage |-> "revoking", step |-> "cert", at |-> e, who |-> p,
                     code |-> None, waits |-> FALSE, read |-> {}]
    <3>1. task' = [task EXCEPT ![t] = k] /\ ~ Begun(task[t], d)
      BY <2>9 DEF Unpair, Free, Begun
    <3>2. CASE d # e
      <4>1. /\ \A u \in Task \ {t} : task'[u] = task[u]
            /\ ~ Begun(task'[t], d)
        BY <3>1, <3>2 DEF TypeOK, Begun
      <4>2. certs'[d] = certs[d] /\ rows'[d] = rows[d] /\ trust'[d] = trust[d]
        BY <2>9, <3>2 DEF TypeOK, Unpair
      <4> QED
        BY <2>2, <3>1, <4>1, <4>2, <2>0
    <3>3. CASE d = e
      <4>1. \A u \in Task : ~ Begun(task[u], d)
        BY <2>9, <3>3 DEF Unpair, Writing, Begun
      <4>2. certs[d] = rows[d] /\ trust[d] = certs[d]
        BY <2>2, <4>1 DEF Sound
      <4>3. certs'[d] = certs[d] /\ trust'[d] = trust[d] /\ rows'[d] = rows[d] \ {p}
        BY <2>9, <3>3 DEF TypeOK, Unpair
      <4>4. Begun(k, d) /\ Half(k, d)'
        BY <3>3, <4>2, <4>3 DEF Begun, Half
      <4> HIDE DEF k
      <4> QED
        BY <2>7, <3>1, <4>1, <4>4
    <3> QED
      BY <3>2, <3>3
  <2>10. ASSUME NEW t \in Task, PairConfirm(t) \/ ReplyArrives(t) \/ CallLost(t)
        PROVE  Sound(d)'
    <3>1. ~ Begun(task[t], d)
      BY <2>10 DEF PairConfirm, ReplyArrives, CallLost, Begun
    <3>2. PICK k : task' = [task EXCEPT ![t] = k] /\ ~ Begun(k, d)
      <4>1. ~ Begun([task[t] EXCEPT !.stage = "accepting", !.step = "cert"], d)
        BY <2>3 DEF TaskRecord, Begun
      <4>2. ~ Begun([task[t] EXCEPT !.stage = "returning", !.step = "cert",
                                    !.at = task[t].who, !.who = task[t].at], d)
        BY <2>3 DEF TaskRecord, Begun
      <4> QED
        BY <2>4, <2>10, <4>1, <4>2 DEF PairConfirm, ReplyArrives, CallLost
    <3> QED
      BY <2>6, <2>10, <3>1, <3>2 DEF PairConfirm, ReplyArrives, CallLost
  <2>11. ASSUME NEW t \in Task, GiveUp(t) PROVE Sound(d)'
    <3>1. \A u \in Task : /\ task'[u].stage = task[u].stage /\ task'[u].at = task[u].at
                          /\ task'[u].step = task[u].step /\ task'[u].who = task[u].who
                          /\ task'[u].read = task[u].read
      BY <2>11, <2>3 DEF TypeOK, GiveUp, TaskRecord
    <3> QED
      BY <2>2, <2>11, <3>1, <2>0 DEF GiveUp, Begun
  <2>12. ASSUME NEW t \in Task, SaveCert(t) \/ SaveRow(t) \/ RemoveCert(t) \/ ReadCerts(t)
                                 \/ ReplaceTrusted(t)
         PROVE  Sound(d)'
    <3>1. PICK j \in TaskRecord : task[t] = j
      BY <2>3
    <3>2. j.at \in Device /\ certs[j.at] \in SUBSET Device
      BY DEF TypeOK, TaskRecord
    <3>3. CASE d # j.at
      <4>1. /\ certs'[d] = certs[d] /\ rows'[d] = rows[d] /\ trust'[d] = trust[d]
            /\ \A u \in Task \ {t} : task'[u] = task[u]
        BY <2>12, <3>1, <3>2, <3>3
           DEF TypeOK, SaveCert, SaveRow, RemoveCert, ReadCerts, ReplaceTrusted, Goto,
               AfterPinning
      <4>2. task'[t] = IdleTask \/ task'[t].at = j.at
        <5>1. \A s, S, R : /\ [j EXCEPT !.step = s].at = j.at
                           /\ [j EXCEPT !.stage = S].at = j.at
                           /\ [j EXCEPT !.step = s, !.read = R].at = j.at
          BY DEF TaskRecord
        <5>2. CASE ReplaceTrusted(t)
          BY <3>1, <5>1, <5>2 DEF TypeOK, ReplaceTrusted, AfterPinning
        <5>3. CASE ReadCerts(t)
          BY <3>1, <5>1, <5>3 DEF TypeOK, ReadCerts
        <5>4. CASE SaveCert(t) \/ SaveRow(t) \/ RemoveCert(t)
          <6>1. PICK s : task' = [task EXCEPT ![t] = [j EXCEPT !.step = s]]
            BY <3>1, <5>4 DEF SaveCert, SaveRow, RemoveCert, Goto
          <6> QED
            BY <5>1, <6>1 DEF TypeOK
        <5> QED
          BY <2>12, <5>2, <5>3, <5>4
      <4>3. ~ Begun(task[t], d) /\ ~ Begun(task'[t], d)
        BY <2>4, <3>1, <3>3, <4>2 DEF Begun
      <4> QED
        BY <2>2, <4>1, <4>3, <2>0
    <3>4. CASE j.stage \notin {"accepting", "returning", "revoking"}
      <4>0. PICK C \in SUBSET Device : certs[j.at] = C
        BY <3>2
      <4> DEFINE k == [j EXCEPT !.step = "set", !.read = C]
      <4>1. k.stage = j.stage
        BY DEF TaskRecord
      <4>2. task' = [task EXCEPT ![t] = k] /\ UNCHANGED stored
        BY <2>12, <3>1, <3>4, <4>0 DEF SaveCert, SaveRow, RemoveCert, ReadCerts, ReplaceTrusted
      <4>3. ~ Begun(task[t], d) /\ ~ Begun(k, d)
        BY <3>1, <3>4, <4>1 DEF Begun
      <4> HIDE DEF k
      <4> QED
        BY <2>6, <4>2, <4>3
    <3>5. CASE d = j.at /\ j.stage \in {"accepting", "returning", "revoking"}
      <4>1. \A u \in Task \ {t} : ~ Begun(task[u], d)
        BY <2>12, <3>1, <3>5
           DEF SaveCert, SaveRow, RemoveCert, ReadCerts, ReplaceTrusted, Tear,
               Overlapping, Writing, Begun
      <4>2. Begun(j, d) => Half(j, d)
        BY <2>2, <3>1 DEF Sound
      <4>3. ~ Begun(j, d) => certs[d] = rows[d] /\ trust[d] = certs[d]
        BY <2>2, <3>1, <4>1 DEF Sound
      <4>4. CASE SaveCert(t)
        <5> DEFINE k == [j EXCEPT !.step = "row"]
        <5>1. k.step = "row" /\ k.who = j.who /\ k.stage = j.stage /\ k.at = j.at
          BY DEF TaskRecord
        <5>2. /\ task' = [task EXCEPT ![t] = k] /\ certs'[d] = certs[d] \cup {j.who}
              /\ rows'[d] = rows[d] /\ trust'[d] = trust[d]
          BY <3>1, <3>5, <4>4 DEF TypeOK, SaveCert, Goto
        <5>3. ~ Begun(j, d)
          BY <3>1, <4>4 DEF SaveCert, Begun
        <5> HIDE DEF k
        <5>4. Begun(k, d) /\ Half(k, d)'
          BY <3>5, <4>3, <5>1, <5>2, <5>3 DEF Begun, Half
        <5> QED
          BY <2>7, <4>1, <5>2, <5>4
      <4>5. CASE SaveRow(t) \/ RemoveCert(t)
        <5> DEFINE k == [j EXCEPT !.step = "read"]
        <5>1. k.step = "read" /\ k.stage = j.stage /\ k.at = j.at
          BY DEF TaskRecord
        <5>2. task' = [task EXCEPT ![t] = k]
          BY <3>1, <4>5 DEF SaveRow, RemoveCert, Goto
        <5>3. Half(j, d)
          BY <3>1, <3>5, <4>2, <4>5 DEF SaveRow, RemoveCert, Begun
        <5>4. certs'[d] = rows'[d]
          BY <3>1, <3>5, <4>5, <5>3 DEF TypeOK, SaveRow, RemoveCert, Half
        <5> HIDE DEF k
        <5>5. Begun(k, d) /\ Half(k, d)'
          BY <3>5, <5>1, <5>4 DEF Begun, Half
        <5> QED
          BY <2>7, <4>1, <5>2, <5>5
      <4>6. CASE ReadCerts(t)
        <5>1. PICK C \in SUBSET Device : certs[d] = C
          BY <3>2, <3>5
        <5> DEFINE k == [j EXCEPT !.step = "set", !.read = C]
        <5>2. k.step = "set" /\ k.stage = j.stage /\ k.at = j.at /\ k.read = C
          BY DEF TaskRecord
        <5>3. task' = [task EXCEPT ![t] = k] /\ UNCHANGED stored
          BY <3>1, <3>5, <4>6, <5>1 DEF ReadCerts
        <5>4. Half(j, d)
          BY <3>1, <3>5, <4>2, <4>6 DEF ReadCerts, Begun
        <5>5. j.step = "read"
          BY <3>1, <4>6 DEF ReadCerts
        <5> HIDE DEF k
        <5>6. Begun(k, d) /\ Half(k, d)'
          BY <3>5, <5>1, <5>2, <5>3, <5>4, <5>5 DEF Begun, Half
        <5> QED
          BY <2>7, <4>1, <5>3, <5>6
      <4>7. CASE ReplaceTrusted(t)
        <5> DEFINE k == IF j.stage = "accepting" /\ j.waits
                        THEN [j EXCEPT !.stage = "answering"] ELSE IdleTask
        <5>1. ~ Begun(k, d)
          BY <2>4 DEF TaskRecord, Begun
        <5>2. task' = [task EXCEPT ![t] = k]
          BY <3>1, <4>7 DEF ReplaceTrusted, AfterPinning
        <5>3. j.step = "set" /\ Half(j, d)
          BY <3>1, <3>5, <4>2, <4>7 DEF ReplaceTrusted, Begun
        <5>4. certs'[d] = rows'[d] /\ trust'[d] = certs'[d]
          BY <3>1, <3>5, <4>7, <5>3 DEF TypeOK, ReplaceTrusted, Half
        <5> HIDE DEF k
        <5> QED
          BY <2>7, <4>1, <5>1, <5>2, <5>4
      <4> QED
        BY <2>12, <4>4, <4>5, <4>6, <4>7
    <3> QED
      BY <3>3, <3>4, <3>5
  <2>13. ASSUME NEW t \in Task, StepFails(t) PROVE Sound(d)'
    \* The device of the call is torn, so it is another one.
    <3>1. ~ Begun(task[t], d)
      BY <2>13 DEF StepFails, Begun
    <3> QED
      BY <2>4, <2>6, <2>13, <3>1 DEF StepFails
  <2>14. ASSUME NEW e \in Device, Restart(e) PROVE Sound(d)'
    <3>1. certs'[d] = certs[d] /\ rows'[d] = rows[d]
      BY <2>14 DEF Restart
    <3>2. ASSUME NEW u \in Task
          PROVE  \/ task'[u] = task[u]
                 \/ task'[u] = IdleTask /\ (task[u].at = e \/ ~ Begun(task[u], d))
                 \/ /\ task'[u].stage = task[u].stage /\ task'[u].at = task[u].at
                    /\ task'[u].step = task[u].step /\ task'[u].who = task[u].who
                    /\ task'[u].read = task[u].read
      BY <2>3, <2>14 DEF Restart, Orphaned, TaskRecord, Begun
    <3>3. CASE d = e
      <4>1. \A u \in Task : ~ Begun(task[u], d)
        BY <2>14, <3>3 DEF Restart, Writing, Begun
      <4>2. \A u \in Task : ~ Begun(task[u], d)'
        BY <2>4, <3>2, <4>1 DEF Begun
      <4>3. trust'[d] = certs[d] /\ certs[d] = rows[d]
        BY <2>2, <2>14, <3>3, <4>1 DEF TypeOK, Restart, Sound
      <4> QED
        BY <3>1, <4>2, <4>3 DEF Sound
    <3>4. CASE d # e
      <4>1. trust'[d] = trust[d]
        BY <2>14, <3>4 DEF TypeOK, Restart
      <4>2. \A u \in Task : Begun(task'[u], d) <=> Begun(task[u], d)
        BY <2>4, <3>2, <3>4 DEF Begun
      <4>3. \A u \in Task : Begun(task[u], d) =>
              /\ task'[u].step = task[u].step /\ task'[u].who = task[u].who
              /\ task'[u].read = task[u].read
        BY <3>2, <3>4 DEF Begun
      <4> QED
        BY <2>2, <3>1, <4>1, <4>2, <4>3, <2>0
    <3> QED
      BY <3>3, <3>4
  <2> QED
    BY <2>5, <2>8, <2>9, <2>10, <2>11, <2>12, <2>13, <2>14
       DEF Next, TaskStep, StartPairing, CancelPairing, PairRequest, Tick, vars
<1>3. TornInv => OneTruthUnlessTorn
  BY DEF TornInv, Sound, Begun, OneTruthUnlessTorn, AtRest, Writing
<1> QED
  BY <1>1, <1>2, <1>3, TypeCorrect, PTL DEF Spec

-----------------------------------------------------------------------------
(* A prompt is younger than the code it is for, and nothing that would clear *)
(* it is under way while the code can still pair the device.                 *)

\* Call k, accepted by i, will clear the request of i on d.
WillClear(k, i, d) ==
  \/ k.stage \in {"accepting", "answering"} /\ k.at = i /\ k.who = d
  \/ k.stage = "returning" /\ k.at = d /\ k.who = i

Standing(i, d) ==
  d \in outgoing[i].pending =>
    /\ outgoing[i].age < CodeTTL => offers[d][i] <= outgoing[i].age
    /\ \A t \in Task : ~ WillClear(task[t], i, d)

OfferInv == \A i, d \in Device : <<i, d>> \in prompted => Standing(i, d)

\* While a code can pair a device that was asked for it, the device offers it.
THEOREM OffersLast == Spec => []OffersOutliveCodes
<1> USE PairingAssumption
<1>1. Init => OfferInv
  BY DEF Init, OfferInv
<1>2. TypeOK /\ OfferInv /\ [Next]_vars => OfferInv'
  <2> SUFFICES ASSUME TypeOK, OfferInv, [Next]_vars, NEW i \in Device, NEW d \in Device,
                      (<<i, d>> \in prompted)'
               PROVE  Standing(i, d)'
    BY DEF OfferInv
  <2> USE DEF memory, stored, history
  <2>1. \A t \in Task : task[t] \in TaskRecord
    BY DEF TypeOK
  <2>2. outgoing[i] \in Outgoing /\ offers[d][i] \in 0 .. OfferTTL
    BY DEF TypeOK
  <2>3. ~ WillClear(IdleTask, i, d)
    BY DEF WillClear, IdleTask
  <2>4. <<i, d>> \in prompted => Standing(i, d)
    BY DEF OfferInv
  \* Calls that come to clear nothing, and a pairing that only shrinks.
  <2>5. ASSUME prompted' = prompted, offers' = offers,
               outgoing'[i].pending \subseteq outgoing[i].pending,
               d \in outgoing'[i].pending => outgoing'[i].age = outgoing[i].age,
               d \in outgoing'[i].pending =>
                 \A t \in Task : WillClear(task'[t], i, d) => WillClear(task[t], i, d)
        PROVE  Standing(i, d)'
    BY <2>4, <2>5 DEF Standing, WillClear
  <2>6. ASSUME NEW j \in Device, NEW c \in Code, NEW T \in SUBSET Device,
               StartPairing(j, c, T)
        PROVE  Standing(i, d)'
    <3>1. i # j /\ <<i, d>> \in prompted
      BY <2>6 DEF StartPairing
    <3>2. outgoing'[i] = outgoing[i]
      BY <2>6, <3>1 DEF TypeOK, StartPairing, Begin
    <3> QED
      BY <2>4, <2>6, <3>1, <3>2 DEF StartPairing, Standing, WillClear
  <2>7. ASSUME NEW j \in Device, CancelPairing(j) PROVE Standing(i, d)'
    BY <2>5, <2>7 DEF TypeOK, CancelPairing, NoPairing
  <2>8. ASSUME NEW j \in Device, NEW e \in Device, PairRequest(j, e)
        PROVE  Standing(i, d)'
    <3>1. CASE <<i, d>> \in prompted
      <4>1. offers'[d][i] \in {0, offers[d][i]}
        BY <2>8 DEF TypeOK, PairRequest
      <4> QED
        BY <2>2, <2>4, <2>8, <3>1, <4>1 DEF PairRequest, Standing, WillClear, Outgoing
    <3>2. CASE <<i, d>> \notin prompted
      <4>1. i = j /\ d = e /\ ~ Confirming(i, d)
        BY <2>8, <3>2 DEF PairRequest
      <4>2. offers'[d][i] = 0
        BY <2>8, <4>1 DEF TypeOK, PairRequest
      <4>3. \A t \in Task : ~ WillClear(task[t], i, d)
        BY <4>1 DEF Confirming, WillClear
      <4> QED
        BY <2>2, <2>8, <4>2, <4>3 DEF PairRequest, Standing, WillClear, Outgoing
    <3> QED
      BY <3>1, <3>2
  <2>9. ASSUME NEW t \in Task, NEW e \in Device, NEW j \in Device, NEW c \in Code,
               ConfirmPairing(t, e, j, c)
        PROVE  Standing(i, d)'
    <3> DEFINE k == [stage |-> "asking", step |-> "cert", at |-> j, who |-> e,
                     code |-> c, waits |-> TRUE, read |-> {}]
    <3>1. ~ WillClear(k, i, d) /\ task' = [task EXCEPT ![t] = k]
      BY <2>9 DEF WillClear, ConfirmPairing
    <3> HIDE DEF k
    <3>2. \A u \in Task : WillClear(task'[u], i, d) => WillClear(task[u], i, d)
      BY <3>1 DEF TypeOK
    <3> QED
      BY <2>5, <2>9, <3>2 DEF ConfirmPairing
  <2>10. ASSUME NEW t \in Task, NEW e \in Device, NEW p \in Device, Unpair(t, e, p)
         PROVE  Standing(i, d)'
    <3> DEFINE k == [stage |-> "revoking", step |-> "cert", at |-> e, who |-> p,
                     code |-> None, waits |-> FALSE, read |-> {}]
    <3>1. ~ WillClear(k, i, d) /\ task' = [task EXCEPT ![t] = k]
      BY <2>10 DEF WillClear, Unpair
    <3> HIDE DEF k
    <3>2. \A u \in Task : WillClear(task'[u], i, d) => WillClear(task[u], i, d)
      BY <3>1 DEF TypeOK
    <3> QED
      BY <2>5, <2>10, <3>2 DEF Unpair
  <2>11. ASSUME NEW t \in Task, PairConfirm(t) PROVE Standing(i, d)'
    <3>1. PICK j \in TaskRecord : task[t] = j
      BY <2>1
    <3> DEFINE v == Verdict(j.at, j.who, j.code)
               w == Verified(outgoing[j.at], j.who, v)
               k == [j EXCEPT !.stage = "accepting", !.step = "cert"]
    <3>2. j.at \in Device /\ outgoing[j.at] \in Outgoing
      BY DEF TypeOK, TaskRecord
    <3>3. /\ w.pending \subseteq outgoing[j.at].pending
          /\ w.pending # {} => w.age = outgoing[j.at].age
          /\ v = "Paired" => j.who \notin w.pending
      BY <3>2 DEF Verified, Outgoing, NoPairing
    <3>4. outgoing' = [outgoing EXCEPT ![j.at] = w]
      BY <2>11, <3>1 DEF PairConfirm
    <3>5. task' = [task EXCEPT ![t] = IF v = "Paired" THEN k ELSE IdleTask]
      BY <2>11, <3>1 DEF PairConfirm
    <3>6. WillClear(k, i, d) => j.at = i /\ j.who = d
      BY DEF WillClear, TaskRecord
    <3> HIDE DEF v, w, k
    <3>7. /\ outgoing'[i].pending \subseteq outgoing[i].pending
          /\ d \in outgoing'[i].pending => outgoing'[i].age = outgoing[i].age
      BY <3>2, <3>3, <3>4 DEF TypeOK
    <3>8. d \in outgoing'[i].pending =>
            \A u \in Task : WillClear(task'[u], i, d) => WillClear(task[u], i, d)
      BY <2>3, <3>2, <3>3, <3>4, <3>5, <3>6 DEF TypeOK
    <3> QED
      BY <2>5, <2>11, <3>7, <3>8 DEF PairConfirm
  <2>12. ASSUME NEW t \in Task, NEW k, task' = [task EXCEPT ![t] = k],
                WillClear(k, i, d) => WillClear(task[t], i, d)
         PROVE  \A u \in Task : WillClear(task'[u], i, d) => WillClear(task[u], i, d)
    BY <2>12 DEF TypeOK
  <2>13. ASSUME NEW t \in Task, ReplyArrives(t) PROVE Standing(i, d)'
    <3>1. PICK j \in TaskRecord : task[t] = j
      BY <2>1
    <3> DEFINE k == [j EXCEPT !.stage = "returning", !.step = "cert",
                              !.at = j.who, !.who = j.at]
    <3>2. task' = [task EXCEPT ![t] = k] /\ j.stage = "answering"
      BY <2>13, <3>1 DEF ReplyArrives
    <3>3. WillClear(k, i, d) => WillClear(j, i, d)
      BY <3>2 DEF WillClear, TaskRecord
    <3> HIDE DEF k
    <3> QED
      BY <2>5, <2>12, <2>13, <3>1, <3>2, <3>3 DEF ReplyArrives
  <2>14. ASSUME NEW t \in Task, SaveCert(t) \/ SaveRow(t) \/ RemoveCert(t) \/ ReadCerts(t)
         PROVE  Standing(i, d)'
    <3>1. PICK j \in TaskRecord : task[t] = j
      BY <2>1
    <3>2. PICK s, R : task' = [task EXCEPT ![t] = [j EXCEPT !.step = s, !.read = R]]
      <4>1. CASE ReadCerts(t)
        BY <3>1, <4>1 DEF ReadCerts
      <4>2. ASSUME NEW s, task' = [task EXCEPT ![t].step = s]
            PROVE  task' = [task EXCEPT ![t] = [j EXCEPT !.step = s, !.read = j.read]]
        <5>1. [j EXCEPT !.step = s, !.read = j.read] = [j EXCEPT !.step = s]
          BY DEF TaskRecord
        <5> QED
          BY <3>1, <4>2, <5>1
      <4> QED
        BY <2>14, <4>1, <4>2 DEF SaveCert, SaveRow, RemoveCert, Goto
    <3> DEFINE k == [j EXCEPT !.step = s, !.read = R]
    <3>3. WillClear(k, i, d) => WillClear(j, i, d)
      BY DEF WillClear, TaskRecord
    <3> HIDE DEF k
    <3>4. \A u \in Task : WillClear(task'[u], i, d) => WillClear(task[u], i, d)
      BY <2>12, <3>1, <3>2, <3>3 DEF k
    <3> QED
      BY <2>5, <2>14, <3>4 DEF SaveCert, SaveRow, RemoveCert, ReadCerts
  <2>15. ASSUME NEW t \in Task, ReplaceTrusted(t) PROVE Standing(i, d)'
    <3>1. PICK j \in TaskRecord : task[t] = j
      BY <2>1
    <3> DEFINE k == IF j.stage = "accepting" /\ j.waits
                    THEN [j EXCEPT !.stage = "answering"] ELSE IdleTask
    <3>2. task' = [task EXCEPT ![t] = k]
      BY <2>15, <3>1 DEF ReplaceTrusted, AfterPinning
    <3>3. WillClear(k, i, d) => WillClear(j, i, d)
      BY <2>3 DEF WillClear, TaskRecord
    <3> HIDE DEF k
    <3>4. \A u \in Task : WillClear(task'[u], i, d) => WillClear(task[u], i, d)
      BY <2>12, <3>1, <3>2, <3>3
    <3>5. offers'[d][i] = offers[d][i] \/ WillClear(task[t], i, d)
      BY <2>1, <2>15 DEF TypeOK, TaskRecord, ReplaceTrusted, AfterPinning, WillClear
    <3> QED
      BY <2>4, <2>15, <3>4, <3>5 DEF ReplaceTrusted, Standing, WillClear
  <2>16. ASSUME NEW t \in Task, StepFails(t) \/ CallLost(t) \/ GiveUp(t)
         PROVE  Standing(i, d)'
    <3>1. PICK j \in TaskRecord : task[t] = j
      BY <2>1
    <3> DEFINE k == [j EXCEPT !.waits = FALSE]
    <3>2. task' = [task EXCEPT ![t] = IdleTask] \/ task' = [task EXCEPT ![t] = k]
      BY <2>16, <3>1 DEF StepFails, CallLost, GiveUp
    <3>3. WillClear(k, i, d) => WillClear(j, i, d)
      BY DEF WillClear, TaskRecord
    <3> HIDE DEF k
    <3>4. \A u \in Task : WillClear(task'[u], i, d) => WillClear(task[u], i, d)
      BY <2>3, <2>12, <3>1, <3>2, <3>3
    <3> QED
      BY <2>5, <2>16, <3>4 DEF StepFails, CallLost, GiveUp
  <2>17. ASSUME NEW e \in Device, Restart(e) PROVE Standing(i, d)'
    <3>1. <<i, d>> \in prompted /\ i # e /\ d # e
      BY <2>17 DEF Restart
    <3>2. offers'[d] = offers[d] /\ outgoing'[i] = outgoing[i]
      BY <2>17, <3>1 DEF TypeOK, Restart
    <3>3. ASSUME NEW u \in Task PROVE WillClear(task'[u], i, d) => WillClear(task[u], i, d)
      <4>1. \/ task'[u] = task[u]
            \/ task'[u] = IdleTask
            \/ /\ task'[u].stage = task[u].stage /\ task'[u].at = task[u].at
               /\ task'[u].who = task[u].who
        BY <2>1, <2>17 DEF Restart, Orphaned, TaskRecord
      <4> QED
        BY <2>3, <4>1 DEF WillClear
    <3> QED
      BY <2>4, <3>1, <3>2, <3>3 DEF Standing, WillClear
  <2>18. CASE Tick
    <3>1. /\ outgoing'[i].pending = outgoing[i].pending
          /\ outgoing'[i].age = Older(outgoing[i].age, CodeTTL)
          /\ offers'[d][i] = Older(offers[d][i], OfferTTL)
      BY <2>2, <2>18 DEF TypeOK, Tick, Outgoing
    <3>2. outgoing[i].age \in 0 .. CodeTTL
      BY <2>2 DEF Outgoing
    <3>3. Older(outgoing[i].age, CodeTTL) < CodeTTL =>
            /\ outgoing[i].age < CodeTTL
            /\ Older(outgoing[i].age, CodeTTL) = outgoing[i].age + 1
      BY <3>2 DEF Older
    <3>4. offers[d][i] <= outgoing[i].age /\ outgoing[i].age < CodeTTL =>
            Older(offers[d][i], OfferTTL) <= outgoing[i].age + 1
      BY <2>2, <3>2 DEF Older
    <3> QED
      BY <2>4, <2>18, <3>1, <3>3, <3>4 DEF Tick, Standing, WillClear
  <2>19. CASE UNCHANGED vars
    BY <2>5, <2>19 DEF vars
  <2> QED
    BY <2>6, <2>7, <2>8, <2>9, <2>10, <2>11, <2>13, <2>14, <2>15, <2>16, <2>17, <2>18,
       <2>19 DEF Next, TaskStep
<1>3. TypeOK /\ OfferInv => OffersOutliveCodes
  <2> SUFFICES ASSUME TypeOK, OfferInv, NEW i \in Device, NEW d \in Device,
                      <<i, d>> \in prompted, outgoing[i].age < CodeTTL,
                      d \in outgoing[i].pending
               PROVE  Offered(d, i)
    BY DEF OffersOutliveCodes, TypeOK
  <2>1. offers[d][i] <= outgoing[i].age
    BY DEF OfferInv, Standing
  <2>2. offers[d][i] \in Nat /\ outgoing[i].age \in Nat
    BY DEF TypeOK, Outgoing
  <2> QED
    BY <2>1, <2>2 DEF Offered
<1> QED
  BY <1>1, <1>2, <1>3, TypeCorrect, PTL DEF Spec

-----------------------------------------------------------------------------
(* One side of an exchange pins the other first; as long as nothing goes     *)
(* wrong between the two, the call that will make the other side follow is   *)
(* still under way.                                                          *)

\* How far call k from d to i has come, as long as nothing went wrong between
\* them: what has been pinned on each side at each step.
Along(k, i, d) ==
  /\ k.stage = "revoking" => {k.at, k.who} # {i, d}
  /\ k.at = i /\ k.who = d =>
       /\ k.stage \in {"asking", "accepting"} => k.waits
       /\ k.stage = "accepting" =>
            /\ k.step # "cert" => d \in certs[i]
            /\ k.step \in {"read", "set"} => d \in rows[i]
       /\ k.stage = "answering" => d \in certs[i] /\ d \in rows[i]
  /\ k.stage = "returning" /\ k.at = d /\ k.who = i =>
       /\ d \in certs[i] /\ d \in rows[i]
       /\ k.step # "cert" => i \in certs[d]
       /\ k.step \in {"read", "set"} => i \in rows[d]

\* Who is pinned pins in return, or is about to.
Returned(i, d) ==
  /\ d \in certs[i] /\ i \notin certs[d] => \E t \in Task : WillClear(task[t], i, d)
  /\ d \in rows[i] /\ i \notin rows[d] => \E t \in Task : WillClear(task[t], i, d)

Untroubled(i, d) == <<i, d>> \notin troubled /\ <<d, i>> \notin troubled

MutualInv ==
  /\ \A i, d \in Device : <<i, d>> \in troubled => <<d, i>> \in troubled
  /\ \A i, d \in Device : Untroubled(i, d) =>
       Returned(i, d) /\ \A t \in Task : Along(task[t], i, d)

\* Between two devices where nothing went wrong and nothing is under way, each
\* pins the other or neither does.
THEOREM PinnedBothWays == Spec => []MutualUnlessTroubled
<1>1. Init => MutualInv
  BY DEF Init, IdleTask, MutualInv, Returned, Along
<1>2. TypeOK /\ MutualInv /\ [Next]_vars => MutualInv'
  <2> SUFFICES ASSUME TypeOK, MutualInv, [Next]_vars PROVE MutualInv'
    OBVIOUS
  <2> USE DEF memory, stored, history
  <2>1. \A t \in Task : task[t] \in TaskRecord
    BY DEF TypeOK
  <2>2. ASSUME NEW i \in Device, NEW d \in Device PROVE ~ WillClear(IdleTask, i, d)
    BY DEF WillClear, IdleTask
  <2>3. ASSUME NEW i \in Device, NEW d \in Device
        PROVE  Along(IdleTask, i, d)'
    BY DEF Along, IdleTask
  <2>4. troubled \subseteq troubled'
    BY DEF Next, StartPairing, CancelPairing, PairRequest, ConfirmPairing, Unpair,
           TaskStep, PairConfirm, ReplyArrives, SaveCert, SaveRow, RemoveCert,
           ReadCerts, ReplaceTrusted, StepFails, CallLost, GiveUp, Restart, Tick, vars
  \* Trouble is between two.
  <2>5. \A i, d \in Device : <<i, d>> \in troubled' => <<d, i>> \in troubled'
    <3> SUFFICES ASSUME NEW i \in Device, NEW d \in Device, <<i, d>> \in troubled',
                        troubled' # troubled
                 PROVE  <<d, i>> \in troubled'
      BY DEF MutualInv
    <3>1. CASE \E t \in Task, e, p \in Device : Unpair(t, e, p)
      BY <3>1 DEF MutualInv, Unpair, Between
    <3>2. CASE \E t \in Task : StepFails(t) \/ CallLost(t) \/ GiveUp(t)
      BY <3>2 DEF MutualInv, StepFails, CallLost, GiveUp, Between
    <3>3. CASE \E e \in Device : Restart(e)
      BY <3>3 DEF MutualInv, Restart, Between
    <3> QED
      BY <3>1, <3>2, <3>3
         DEF Next, StartPairing, CancelPairing, PairRequest, ConfirmPairing, TaskStep,
             PairConfirm, ReplyArrives, SaveCert, SaveRow, RemoveCert, ReadCerts,
             ReplaceTrusted, Tick, vars
  <2> SUFFICES ASSUME NEW i \in Device, NEW d \in Device, Untroubled(i, d)'
               PROVE  Returned(i, d)' /\ \A t \in Task : Along(task[t], i, d)'
    BY <2>5 DEF MutualInv
  <2>6. Untroubled(i, d) /\ Untroubled(d, i)
    BY <2>4 DEF Untroubled
  <2>7. /\ Returned(i, d)
        /\ \A t \in Task : Along(task[t], i, d) /\ Along(task[t], d, i)
    BY <2>6 DEF MutualInv
  <2> DEFINE Grown == /\ d \in certs[i] => d \in certs'[i]
                      /\ i \in certs[d] => i \in certs'[d]
                      /\ d \in rows[i] => d \in rows'[i]
                      /\ i \in rows[d] => i \in rows'[d]
             Goal == Returned(i, d)' /\ \A t \in Task : Along(task[t], i, d)'
  <2>8. ASSUME NEW k, Grown, Along(k, i, d) PROVE Along(k, i, d)'
    BY <2>8 DEF Along
  \* One call goes on, and pins on one side nobody who would be left alone.
  <2>9. ASSUME NEW t \in Task, NEW k, task' = [task EXCEPT ![t] = k], Grown,
               Along(k, i, d)',
               WillClear(task[t], i, d) =>
                 WillClear(k, i, d) \/ (i \in certs'[d] /\ i \in rows'[d]),
               d \in certs'[i] =>
                 d \in certs[i] \/ i \in certs'[d] \/ WillClear(k, i, d),
               d \in rows'[i] =>
                 d \in rows[i] \/ i \in rows'[d] \/ WillClear(k, i, d)
        PROVE  Goal
    <3>1. task'[t] = k /\ \A u \in Task \ {t} : task'[u] = task[u]
      BY <2>9 DEF TypeOK
    <3>2. ASSUME NEW u \in Task PROVE Along(task[u], i, d)'
      <4>1. PICK x : x = task'[u]
        OBVIOUS
      <4>2. Along(x, i, d)'
        BY <2>7, <2>8, <2>9, <3>1, <4>1
      <4> QED
        BY <4>1, <4>2 DEF Along
    <3>3. ASSUME NEW u \in Task, WillClear(task[u], i, d),
                 i \notin certs'[d] \/ i \notin rows'[d]
          PROVE  \E x \in Task : WillClear(task'[x], i, d)
      BY <2>9, <3>1, <3>3
    <3>4. Returned(i, d)'
      <4>1. d \in certs'[i] /\ i \notin certs'[d] =>
              \E x \in Task : WillClear(task'[x], i, d)
        BY <2>7, <2>9, <3>1, <3>3 DEF Returned
      <4>2. d \in rows'[i] /\ i \notin rows'[d] =>
              \E x \in Task : WillClear(task'[x], i, d)
        BY <2>7, <2>9, <3>1, <3>3 DEF Returned
      <4> QED
        BY <4>1, <4>2 DEF Returned, WillClear
    <3> QED
      BY <3>2, <3>4
  <2>10. ASSUME UNCHANGED <<certs, rows>>,
                \A t \in Task : \/ task'[t] = task[t]
                                \/ ~ WillClear(task[t], i, d) /\ Along(task[t], i, d)'
         PROVE  Goal
    <3>1. Grown
      BY <2>10
    <3>2. ASSUME NEW t \in Task PROVE Along(task[t], i, d)'
      <4>1. PICK x : x = task[t]
        OBVIOUS
      <4>2. Along(x, i, d)'
        BY <2>7, <2>8, <3>1, <4>1
      <4> QED
        BY <2>10, <4>1, <4>2 DEF Along
    <3>3. (\E t \in Task : WillClear(task[t], i, d)) =>
            \E t \in Task : WillClear(task'[t], i, d)
      BY <2>10
    <3>4. Returned(i, d)'
      BY <2>7, <2>10, <3>3 DEF Returned, WillClear
    <3> QED
      BY <3>2, <3>4
  <2>11. ASSUME NEW j \in Device, NEW c \in Code, NEW T \in SUBSET Device,
                StartPairing(j, c, T)
         PROVE  Goal
    BY <2>10, <2>11 DEF StartPairing
  <2>12. ASSUME NEW j \in Device, CancelPairing(j) PROVE Goal
    BY <2>10, <2>12 DEF CancelPairing
  <2>13. ASSUME NEW j \in Device, NEW e \in Device, PairRequest(j, e) PROVE Goal
    BY <2>10, <2>13 DEF PairRequest
  <2>14. ASSUME NEW t \in Task, NEW e \in Device, NEW j \in Device, NEW c \in Code,
                ConfirmPairing(t, e, j, c)
         PROVE  Goal
    <3> DEFINE k == [stage |-> "asking", step |-> "cert", at |-> j, who |-> e,
                     code |-> c, waits |-> TRUE, read |-> {}]
    <3>1. Along(k, i, d)'
      BY DEF Along
    <3>2. task' = [task EXCEPT ![t] = k] /\ task[t].stage = "idle"
      BY <2>14 DEF ConfirmPairing, Free
    <3>3. ~ WillClear(task[t], i, d)
      BY <3>2 DEF WillClear
    <3> HIDE DEF k
    <3> QED
      BY <2>9, <2>14, <3>1, <3>2, <3>3 DEF ConfirmPairing
  <2>15. ASSUME NEW t \in Task, NEW e \in Device, NEW p \in Device, Unpair(t, e, p)
         PROVE  Goal
    <3> DEFINE k == [stage |-> "revoking", step |-> "cert", at |-> e, who |-> p,
                     code |-> None, waits |-> FALSE, read |-> {}]
    \* The two are not the pair in question, which this troubles.
    <3>1. {e, p} # {i, d}
      BY <2>15 DEF Unpair, Untroubled, Between
    <3>2. Along(k, i, d)'
      BY <3>1 DEF Along
    <3>3. task' = [task EXCEPT ![t] = k] /\ task[t].stage = "idle"
      BY <2>15 DEF Unpair, Free
    <3>4. ~ WillClear(task[t], i, d)
      BY <3>3 DEF WillClear
    <3>5. Grown /\ (d \in rows'[i] => d \in rows[i]) /\ UNCHANGED certs
      BY <2>15, <3>1 DEF TypeOK, Unpair
    <3> HIDE DEF k
    <3> QED
      BY <2>9, <3>2, <3>3, <3>4, <3>5
  <2>16. ASSUME NEW t \in Task, StepFails(t) \/ CallLost(t) \/ GiveUp(t) PROVE Goal
    <3>1. PICK j \in TaskRecord : task[t] = j
      BY <2>1
    \* The call is between two others.
    <3>2. {j.at, j.who} # {i, d}
      BY <2>16, <3>1 DEF StepFails, CallLost, GiveUp, Untroubled, Between
    <3> DEFINE k == [j EXCEPT !.waits = FALSE]
    <3>3. task' = [task EXCEPT ![t] = IdleTask] \/ task' = [task EXCEPT ![t] = k]
      BY <2>16, <3>1 DEF StepFails, CallLost, GiveUp
    <3>4. ~ WillClear(j, i, d)
      BY <3>2 DEF WillClear
    <3>5. Along(k, i, d)'
      BY <3>2 DEF Along, TaskRecord
    <3> HIDE DEF k
    <3> QED
      BY <2>3, <2>9, <2>16, <3>1, <3>3, <3>4, <3>5 DEF StepFails, CallLost, GiveUp
  <2>17. ASSUME NEW e \in Device, Restart(e) PROVE Goal
    <3>1. ASSUME NEW u \in Task
          PROVE  \/ task'[u] = task[u]
                 \/ ~ WillClear(task[u], i, d) /\ Along(task[u], i, d)'
      <4>1. PICK j \in TaskRecord : task[u] = j
        BY <2>1
      <4>2. CASE /\ j.stage # "idle" /\ e \in {j.at, j.who}
                 /\ ~ (j.stage \in {"returning", "revoking"} /\ j.at # e)
        \* The call is cut short, so it is between two others.
        <5>1. Between(j.at, j.who) \subseteq troubled'
          BY <2>17, <4>1, <4>2 DEF Restart
        <5>2. {j.at, j.who} # {i, d}
          BY <5>1 DEF Between, Untroubled
        <5>3. task'[u] = IdleTask \/ task'[u] = [j EXCEPT !.waits = FALSE]
          BY <2>17, <4>1, <4>2 DEF Restart, Orphaned
        <5>4. Along([j EXCEPT !.waits = FALSE], i, d)'
          BY <5>2 DEF Along, TaskRecord
        <5>5. ~ WillClear(j, i, d)
          BY <5>2 DEF WillClear
        <5> QED
          <6>1. PICK x : x = task'[u]
            OBVIOUS
          <6>2. Along(x, i, d)'
            BY <2>3, <5>3, <5>4, <6>1
          <6> QED
            BY <4>1, <5>5, <6>1, <6>2 DEF Along
      <4>3. CASE ~ /\ j.stage # "idle" /\ e \in {j.at, j.who}
                   /\ ~ (j.stage \in {"returning", "revoking"} /\ j.at # e)
        BY <2>17, <4>1, <4>3 DEF Restart
      <4> QED
        BY <4>2, <4>3
    <3> QED
      BY <2>10, <2>17, <3>1 DEF Restart
  <2>18. CASE Tick
    BY <2>10, <2>18 DEF Tick
  <2>19. CASE UNCHANGED vars
    BY <2>10, <2>19 DEF vars
  <2>20. ASSUME NEW t \in Task, TaskStep(t) PROVE Goal
    <3>1. PICK j \in TaskRecord : task[t] = j
      BY <2>1
    <3>2. Along(j, i, d) /\ Along(j, d, i) /\ j.at \in Device /\ j.who \in Device
      BY <2>7, <3>1 DEF TaskRecord
    <3>3. CASE PairConfirm(t)
      <4> DEFINE k == [j EXCEPT !.stage = "accepting", !.step = "cert"]
      <4>1. task' = [task EXCEPT ![t] = k] \/ task' = [task EXCEPT ![t] = IdleTask]
        BY <3>1, <3>3 DEF PairConfirm
      <4>2. j.stage = "asking"
        BY <3>1, <3>3 DEF PairConfirm
      <4>3. Along(k, i, d)'
        BY <3>2, <4>2 DEF Along, TaskRecord
      <4>4. ~ WillClear(j, i, d)
        BY <4>2 DEF WillClear
      <4> HIDE DEF k
      <4> QED
        BY <2>3, <2>9, <3>1, <3>3, <4>1, <4>3, <4>4 DEF PairConfirm
    <3>4. CASE ReplyArrives(t)
      <4> DEFINE k == [j EXCEPT !.stage = "returning", !.step = "cert",
                                !.at = j.who, !.who = j.at]
      <4>1. task' = [task EXCEPT ![t] = k] /\ j.stage = "answering"
        BY <3>1, <3>4 DEF ReplyArrives
      <4>2. UNCHANGED <<certs, rows>>
        BY <3>4 DEF ReplyArrives
      <4>3. Along(k, i, d)'
        BY <3>2, <4>1, <4>2 DEF Along, TaskRecord
      <4>4. WillClear(task[t], i, d) => WillClear(k, i, d)
        BY <3>1, <4>1 DEF WillClear, TaskRecord
      <4> HIDE DEF k
      <4> QED
        BY <2>9, <4>1, <4>2, <4>3, <4>4
    <3>5. CASE SaveCert(t)
      <4> DEFINE k == [j EXCEPT !.step = "row"]
      <4>1. task' = [task EXCEPT ![t] = k]
        BY <3>1, <3>5 DEF SaveCert, Goto
      <4>2. j.stage \in {"accepting", "returning"} /\ j.step = "cert"
        BY <3>1, <3>5 DEF SaveCert
      <4>3. /\ certs' = [certs EXCEPT ![j.at] = @ \cup {j.who}]
            /\ rows' = rows
        BY <3>1, <3>5 DEF SaveCert
      <4>4. /\ Grown
            /\ j.who \in certs'[j.at]
            /\ d \in certs'[i] => d \in certs[i] \/ (j.at = i /\ j.who = d)
        BY <3>2, <4>3 DEF TypeOK
      <4>5. Along(k, i, d)'
        BY <3>2, <4>2, <4>3, <4>4 DEF Along, TaskRecord
      <4>6. WillClear(task[t], i, d) => WillClear(k, i, d)
        BY <3>1 DEF WillClear, TaskRecord
      <4>7. j.at = i /\ j.who = d => i \in certs[d] \/ WillClear(k, i, d)
        BY <3>2, <4>2 DEF Along, WillClear, TaskRecord
      <4> HIDE DEF k
      <4> QED
        BY <2>9, <4>1, <4>3, <4>4, <4>5, <4>6, <4>7
    <3>6. CASE SaveRow(t)
      <4> DEFINE k == [j EXCEPT !.step = "read"]
      <4>1. task' = [task EXCEPT ![t] = k]
        BY <3>1, <3>6 DEF SaveRow, Goto
      <4>2. j.stage \in {"accepting", "returning"} /\ j.step = "row"
        BY <3>1, <3>6 DEF SaveRow
      <4>3. /\ rows' = [rows EXCEPT ![j.at] = @ \cup {j.who}]
            /\ certs' = certs
        BY <3>1, <3>6 DEF SaveRow
      <4>4. /\ Grown
            /\ j.who \in rows'[j.at]
            /\ d \in rows'[i] => d \in rows[i] \/ (j.at = i /\ j.who = d)
        BY <3>2, <4>3 DEF TypeOK
      <4>5. Along(k, i, d)'
        BY <3>2, <4>2, <4>3, <4>4 DEF Along, TaskRecord
      <4>6. WillClear(task[t], i, d) => WillClear(k, i, d)
        BY <3>1 DEF WillClear, TaskRecord
      <4>7. j.at = i /\ j.who = d => i \in rows[d] \/ WillClear(k, i, d)
        BY <3>2, <4>2 DEF Along, WillClear, TaskRecord
      <4> HIDE DEF k
      <4> QED
        BY <2>9, <4>1, <4>3, <4>4, <4>5, <4>6, <4>7
    <3>7. CASE RemoveCert(t)
      <4> DEFINE k == [j EXCEPT !.step = "read"]
      <4>1. task' = [task EXCEPT ![t] = k] /\ j.stage = "revoking"
        BY <3>1, <3>7 DEF RemoveCert, Goto
      \* The call is between two others.
      <4>2. {j.at, j.who} # {i, d}
        BY <3>2, <4>1 DEF Along
      <4>3. Grown /\ (d \in certs'[i] => d \in certs[i]) /\ UNCHANGED rows
        BY <3>1, <3>2, <3>7, <4>2 DEF TypeOK, RemoveCert
      <4>4. Along(k, i, d)' /\ ~ WillClear(j, i, d)
        BY <4>1, <4>2 DEF Along, WillClear, TaskRecord
      <4> HIDE DEF k
      <4> QED
        BY <2>9, <3>1, <4>1, <4>3, <4>4
    <3>8. CASE ReadCerts(t)
      <4>1. PICK C : certs[j.at] = C
        OBVIOUS
      <4> DEFINE k == [j EXCEPT !.step = "set", !.read = C]
      <4>2. task' = [task EXCEPT ![t] = k] /\ j.step = "read"
        BY <3>1, <3>8, <4>1 DEF ReadCerts
      <4>3. UNCHANGED <<certs, rows>>
        BY <3>8 DEF ReadCerts
      <4>4. Along(k, i, d)'
        BY <3>2, <4>2, <4>3 DEF Along, TaskRecord
      <4>5. WillClear(task[t], i, d) => WillClear(k, i, d)
        BY <3>1 DEF WillClear, TaskRecord
      <4> HIDE DEF k
      <4> QED
        BY <2>9, <4>2, <4>3, <4>4, <4>5
    <3>9. CASE ReplaceTrusted(t)
      <4> DEFINE k == IF j.stage = "accepting" /\ j.waits
                      THEN [j EXCEPT !.stage = "answering"] ELSE IdleTask
      <4>1. task' = [task EXCEPT ![t] = k] /\ j.step = "set"
        BY <3>1, <3>9 DEF ReplaceTrusted, AfterPinning
      <4>2. j.stage \in {"accepting", "returning", "revoking"} /\ UNCHANGED <<certs, rows>>
        BY <3>1, <3>9 DEF ReplaceTrusted
      <4>3. Along(k, i, d)'
        BY <2>3, <3>2, <4>1, <4>2 DEF Along, TaskRecord
      \* A call that is over has pinned both sides.
      <4>4. WillClear(j, i, d) => WillClear(k, i, d) \/ (i \in certs[d] /\ i \in rows[d])
        BY <3>2, <4>1, <4>2 DEF Along, WillClear, TaskRecord
      <4> HIDE DEF k
      <4> QED
        BY <2>9, <3>1, <4>1, <4>2, <4>3, <4>4
    <3> QED
      BY <2>20, <3>3, <3>4, <3>5, <3>6, <3>7, <3>8, <3>9 DEF TaskStep
  <2> QED
    BY <2>11, <2>12, <2>13, <2>14, <2>15, <2>16, <2>17, <2>18, <2>19, <2>20 DEF Next
<1>3. MutualInv => MutualUnlessTroubled
  <2> SUFFICES ASSUME MutualInv, NEW i \in Device, NEW d \in Device, Quiet(i, d),
                      <<i, d>> \notin troubled
               PROVE  /\ d \in certs[i] <=> i \in certs[d]
                      /\ d \in rows[i] <=> i \in rows[d]
    BY DEF MutualUnlessTroubled
  <2>1. Untroubled(i, d) /\ Untroubled(d, i)
    BY DEF MutualInv, Untroubled
  <2>2. Returned(i, d) /\ Returned(d, i)
    BY <2>1 DEF MutualInv
  <2>3. \A t \in Task : ~ WillClear(task[t], i, d) /\ ~ WillClear(task[t], d, i)
    BY DEF Quiet, WillClear
  <2> QED
    BY <2>2, <2>3 DEF Returned
<1> QED
  BY <1>1, <1>2, <1>3, TypeCorrect, PTL DEF Spec

=============================================================================
