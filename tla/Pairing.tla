------------------------------ MODULE Pairing ------------------------------
(***************************************************************************)
(* How devices come to trust each other, and stop.                         *)
(*                                                                         *)
(* A person picks devices on one device, the initiator, which shows a code *)
(* and asks each of them to prompt for it.  A device on which the code is  *)
(* typed sends a proof of it back; the initiator checks the proof, pins    *)
(* that device and answers with its own details, which are pinned in       *)
(* return.  Pinning is a certificate file, a row of paired_devices and a   *)
(* reload of the set of certificates the TLS server holds in memory, in    *)
(* separate steps; unpairing takes them back in separate steps.            *)
(*                                                                         *)
(* A device has one certificate for good, so a device stands for its id,   *)
(* its certificate and its details; a proof is the code and the two        *)
(* devices it binds.  Calls may be lost, or answered after the caller gave *)
(* up; every device may restart.                                           *)
(***************************************************************************)
EXTENDS Naturals, FiniteSets

CONSTANTS
  Device,      \* devices that see each other
  Code,        \* codes, chosen at random and typed by people
  None,        \* no code
  Task,        \* calls in progress at one time: confirmations and unpairings
  CodeTTL,     \* ticks a code is valid (CODE_TTL)
  OfferTTL,    \* ticks a request is offered (OFFER_TTL)
  MaxAttempts, \* wrong proofs a code survives, less one (MAX_ATTEMPTS)
  MaxActs,     \* bound: acts of people
  MaxFaults    \* bound: failures, timeouts and restarts

\* The code has 180 s against 300 s, and five attempts.
ASSUME PairingAssumption ==
  /\ CodeTTL \in Nat \ {0} /\ OfferTTL \in Nat \ {0} /\ CodeTTL <= OfferTTL
  /\ MaxAttempts \in Nat \ {0} /\ MaxActs \in Nat /\ MaxFaults \in Nat
  /\ None \notin Code /\ Device # {}

VARIABLES
  outgoing,  \* outgoing[i]: the pairing i has started, in memory
  offers,    \* offers[d][i]: ticks since i asked d; OfferTTL when there is no
             \* request to answer any more
  requests,  \* pair_request calls on their way, as <<from, to>>
  task,      \* task[t]: a call in progress
  certs,     \* certs[d]: the certificate files of d
  rows,      \* rows[d]: table paired_devices of d
  trust,     \* trust[d]: the certificates d's TLS server accepts
  acts,      \* how much of MaxActs is used
  faults,    \* how much of MaxFaults is used
  shown,     \* history: <<i, c, d>> when i showed c for d
  typed,     \* history: <<i, c, d>> when c was typed on d for i
  compared,  \* history: wrong proofs that i's latest code was compared with
  prompted,  \* history: <<i, d>> when d has been asked for i's latest code and no
             \* confirmation between them was under way
  troubled,  \* history: <<i, d>> when a call between them was lost or failed,
             \* one of them restarted, or one unpaired the other
  torn       \* history: devices where a step failed or was cut short by a
             \* restart, or where a task took a step while another was between
             \* its first and its last

memory == <<outgoing, offers>>
stored == <<certs, rows, trust>>
history == <<shown, typed, compared, prompted, troubled, torn>>
budget == <<acts, faults>>
vars == <<memory, requests, task, stored, budget, history>>

Stage == {"idle", "asking", "accepting", "answering", "returning", "revoking"}
Step == {"cert", "row", "read", "set"}

\* A call between devices at and who: the device its next step runs on and the
\* other one; whether the caller still waits; the certificates read, if any.
TaskRecord == [stage : Stage, step : Step, at : Device, who : Device,
               code : Code \cup {None}, waits : BOOLEAN, read : SUBSET Device]

Outgoing == [code : Code \cup {None}, pending : SUBSET Device,
             attempts : Nat, age : 0 .. CodeTTL]

NoPairing == [code |-> None, pending |-> {}, attempts |-> 0, age |-> CodeTTL]

IdleTask == LET d == CHOOSE x \in Device : TRUE
            IN [stage |-> "idle", step |-> "cert", at |-> d, who |-> d,
                code |-> None, waits |-> FALSE, read |-> {}]

TypeOK ==
  /\ outgoing \in [Device -> Outgoing]
  /\ offers \in [Device -> [Device -> 0 .. OfferTTL]]
  /\ requests \subseteq Device \X Device
  /\ task \in [Task -> TaskRecord]
  /\ certs \in [Device -> SUBSET Device]
  /\ rows \in [Device -> SUBSET Device]
  /\ trust \in [Device -> SUBSET Device]
  /\ acts \in Nat /\ faults \in Nat
  /\ shown \subseteq Device \X Code \X Device
  /\ typed \subseteq Device \X Code \X Device
  /\ compared \in [Device -> Nat]
  /\ prompted \subseteq Device \X Device
  /\ troubled \subseteq Device \X Device
  /\ torn \subseteq Device

Init ==
  /\ outgoing = [d \in Device |-> NoPairing]
  /\ offers = [d \in Device |-> [i \in Device |-> OfferTTL]]
  /\ requests = {}
  /\ task = [t \in Task |-> IdleTask]
  /\ certs = [d \in Device |-> {}]
  /\ rows = [d \in Device |-> {}]
  /\ trust = [d \in Device |-> {}]
  /\ acts = 0 /\ faults = 0
  /\ shown = {}
  /\ typed = {}
  /\ compared = [d \in Device |-> 0]
  /\ prompted = {}
  /\ troubled = {}
  /\ torn = {}

\* A person acts; something fails or a process ends, within the bounds.
Act == acts < MaxActs /\ acts' = acts + 1 /\ UNCHANGED faults
Fault == faults < MaxFaults /\ faults' = faults + 1 /\ UNCHANGED acts

Between(d, e) == {<<d, e>>, <<e, d>>}

-----------------------------------------------------------------------------
(* The initiator.                                                        *)

\* PairingState::begin: whatever was in progress is replaced.
Begin(i, c, T) ==
  outgoing' = [outgoing EXCEPT ![i] =
                 [code |-> c, pending |-> T, attempts |-> 0, age |-> 0]]

\* Engine::start_pairing with the devices of T that are visible.
StartPairing(i, c, T) ==
  /\ T # {} /\ i \notin T
  /\ Act
  /\ Begin(i, c, T)
  /\ requests' = requests \cup {<<i, d>> : d \in T}
  /\ shown' = shown \cup {<<i, c, d>> : d \in T}
  /\ compared' = [compared EXCEPT ![i] = 0]
  /\ prompted' = {p \in prompted : p[1] # i}
  /\ UNCHANGED <<offers, task, stored, typed, troubled, torn>>

\* Engine::cancel_pairing.
CancelPairing(i) ==
  /\ outgoing[i] # NoPairing
  /\ Act
  /\ outgoing' = [outgoing EXCEPT ![i] = NoPairing]
  /\ UNCHANGED <<offers, requests, task, stored, history>>

\* Mutant: any device that knows the code is taken.
VerdictForAnyone(i, d, c) ==
  LET o == outgoing[i] IN
    IF o.code = None THEN "NotInProgress"
    ELSE IF o.age >= CodeTTL THEN "Expired"
    ELSE IF o.code # c THEN "BadCode" ELSE "Paired"

\* What PairingState::verify says to a proof made on d with code c.
Verdict(i, d, c) ==
  LET o == outgoing[i] IN
    CASE o.code = None                      -> "NotInProgress"
      [] o.code # None /\ o.age >= CodeTTL   -> "Expired"
      [] o.code # None /\ o.age < CodeTTL
           /\ d \notin o.pending            -> "NotSelected"
      [] o.code # None /\ o.age < CodeTTL
           /\ d \in o.pending /\ o.code # c -> "BadCode"
      [] OTHER                              -> "Paired"

\* Mutant: one wrong proof too many is compared.
VerifiedOnceMore(o, d, verdict) ==
  CASE verdict = "Expired" -> NoPairing
    [] verdict = "BadCode" ->
         IF o.attempts >= MaxAttempts THEN NoPairing
         ELSE [o EXCEPT !.attempts = @ + 1]
    [] verdict = "Paired" ->
         IF o.pending \subseteq {d} THEN NoPairing
         ELSE [o EXCEPT !.pending = @ \ {d}]
    [] OTHER -> o

\* What verify leaves of the pairing.
Verified(o, d, verdict) ==
  CASE verdict = "Expired" -> NoPairing
    [] verdict = "BadCode" ->
         IF o.attempts + 1 >= MaxAttempts THEN NoPairing
         ELSE [o EXCEPT !.attempts = @ + 1]
    [] verdict = "Paired" ->
         IF o.pending \subseteq {d} THEN NoPairing
         ELSE [o EXCEPT !.pending = @ \ {d}]
    [] OTHER -> o

\* Handler pair_confirm: the proof is checked in one section.  Refused, the
\* caller is told and the exchange is over; otherwise the caller is pinned.
PairConfirm(t) ==
  LET i == task[t].at
      d == task[t].who
      verdict == Verdict(i, d, task[t].code)
  IN /\ task[t].stage = "asking"
     /\ outgoing' = [outgoing EXCEPT ![i] = Verified(@, d, verdict)]
     /\ compared' = [compared EXCEPT ![i] = IF verdict = "BadCode"
                                            THEN @ + 1 ELSE @]
     /\ task' = [task EXCEPT ![t] =
                   IF verdict = "Paired"
                   THEN [@ EXCEPT !.stage = "accepting", !.step = "cert"]
                   ELSE IdleTask]
     /\ UNCHANGED <<offers, requests, stored, budget, shown, typed, prompted,
                    troubled, torn>>

-----------------------------------------------------------------------------
(* The device that is asked.                                             *)

\* A confirmation between i and d is under way: it will clear whatever request
\* of i stands on d when it ends.
Confirming(i, d) ==
  \E t \in Task : task[t].stage \notin {"idle", "revoking"}
                   /\ {task[t].at, task[t].who} = {i, d}

\* Handler pair_request: PairingState::record_offer.  A request that is lost
\* stays in requests for ever.
PairRequest(i, d) ==
  /\ <<i, d>> \in requests
  /\ requests' = requests \ {<<i, d>>}
  /\ offers' = [offers EXCEPT ![d][i] = 0]
  /\ prompted' = IF Confirming(i, d) THEN prompted
                 ELSE prompted \cup {<<i, d>>}
  /\ UNCHANGED <<outgoing, task, stored, budget, shown, typed, compared, troubled,
                 torn>>

\* PairingState::offer_details: i's request can still be answered on d.
Offered(d, i) == offers[d][i] < OfferTTL

\* A call takes the first slot that is free; the slots are all alike.
Free(t) == /\ task[t].stage = "idle"
           /\ t = CHOOSE u \in Task : task[u].stage = "idle"

\* Mutant: the request is used up by the first code typed, right or wrong.
ConfirmPairingOnce(t, d, i, c) ==
  /\ Free(t)
  /\ Offered(d, i)
  /\ Act
  /\ task' = [task EXCEPT ![t] =
                [stage |-> "asking", step |-> "cert", at |-> i, who |-> d,
                 code |-> c, waits |-> TRUE, read |-> {}]]
  /\ typed' = typed \cup {<<i, c, d>>}
  /\ offers' = [offers EXCEPT ![d][i] = OfferTTL]
  /\ UNCHANGED <<outgoing, requests, stored, shown, compared, prompted, troubled,
                 torn>>

\* Engine::confirm_pairing: a person types code c on d.  That the initiator must be
\* in known_peers is left out: here it may be typed whether or not it is seen.
ConfirmPairing(t, d, i, c) ==
  /\ Free(t)
  /\ Offered(d, i)
  /\ Act
  /\ task' = [task EXCEPT ![t] =
                [stage |-> "asking", step |-> "cert", at |-> i, who |-> d,
                 code |-> c, waits |-> TRUE, read |-> {}]]
  /\ typed' = typed \cup {<<i, c, d>>}
  /\ UNCHANGED <<memory, requests, stored, shown, compared, prompted, troubled,
                 torn>>

\* The reply arrives: d goes on to pin the initiator.
ReplyArrives(t) ==
  /\ task[t].stage = "answering"
  /\ task' = [task EXCEPT ![t] = [@ EXCEPT !.stage = "returning",
                                           !.step = "cert",
                                           !.at = task[t].who,
                                           !.who = task[t].at]]
  /\ UNCHANGED <<memory, requests, stored, budget, history>>

-----------------------------------------------------------------------------
(* Pinning and unpairing, step by step.                                  *)

\* Task t is between its first and its last step on device d.
Writing(t, d) ==
  /\ task[t].stage \in {"accepting", "returning", "revoking"}
  /\ task[t].at = d

Overlapping(t) ==
  \E u \in Task \ {t} : Writing(u, task[t].at)

Tear(t) == torn' = IF Overlapping(t) THEN torn \cup {task[t].at} ELSE torn

Goto(t, s) == task' = [task EXCEPT ![t].step = s]

\* storage::save_peer_cert.
SaveCert(t) ==
  /\ task[t].stage \in {"accepting", "returning"} /\ task[t].step = "cert"
  /\ certs' = [certs EXCEPT ![task[t].at] = @ \cup {task[t].who}]
  /\ Goto(t, "row")
  /\ Tear(t)
  /\ UNCHANGED <<memory, requests, rows, trust, budget, shown, typed, compared,
                 prompted, troubled>>

\* Database::upsert_paired_device.
SaveRow(t) ==
  /\ task[t].stage \in {"accepting", "returning"} /\ task[t].step = "row"
  /\ rows' = [rows EXCEPT ![task[t].at] = @ \cup {task[t].who}]
  /\ Goto(t, "read")
  /\ Tear(t)
  /\ UNCHANGED <<memory, requests, certs, trust, budget, shown, typed, compared,
                 prompted, troubled>>

\* TrustStore::reload reads the files in one step and replaces the set in
\* memory in another.
ReadCerts(t) ==
  /\ task[t].step = "read" /\ task[t].stage # "idle"
  /\ task' = [task EXCEPT ![t] = [@ EXCEPT !.step = "set",
                                           !.read = certs[task[t].at]]]
  /\ Tear(t)
  /\ UNCHANGED <<memory, requests, stored, budget, shown, typed, compared,
                 prompted, troubled>>

\* Mutant: the initiator answers only while it still shows a code.
AfterPinningLate(t) ==
  LET k == task[t] IN
    /\ task' = [task EXCEPT ![t] =
                  IF k.stage = "accepting" /\ k.waits
                       /\ outgoing[k.at].code # None
                  THEN [@ EXCEPT !.stage = "answering"] ELSE IdleTask]
    /\ offers' = IF k.stage = "returning"
                 THEN [offers EXCEPT ![k.at][k.who] = OfferTTL]
                 ELSE offers

\* What comes after pinning: the initiator answers whoever still waits, and the
\* other forgets the request it has answered.
AfterPinning(t) ==
  LET k == task[t] IN
    /\ task' = [task EXCEPT ![t] =
                  IF k.stage = "accepting" /\ k.waits
                  THEN [@ EXCEPT !.stage = "answering"] ELSE IdleTask]
    /\ offers' = IF k.stage = "returning"
                 THEN [offers EXCEPT ![k.at][k.who] = OfferTTL]
                 ELSE offers

\* Mutant: the set in memory is only ever added to.
ReplaceTrustedGrowing(t) ==
  /\ task[t].step = "set" /\ task[t].stage \in {"accepting", "returning", "revoking"}
  /\ trust' = [trust EXCEPT ![task[t].at] = @ \cup task[t].read]
  /\ AfterPinning(t)
  /\ Tear(t)
  /\ UNCHANGED <<outgoing, requests, certs, rows, budget, shown, typed, compared,
                 prompted, troubled>>

\* TrustStore::replace_with.
ReplaceTrusted(t) ==
  /\ task[t].step = "set" /\ task[t].stage \in {"accepting", "returning", "revoking"}
  /\ trust' = [trust EXCEPT ![task[t].at] = task[t].read]
  /\ AfterPinning(t)
  /\ Tear(t)
  /\ UNCHANGED <<outgoing, requests, certs, rows, budget, shown, typed, compared,
                 prompted, troubled>>

\* Engine::unpair of a device the person sees in the list: its row goes, then
\* its file, then the files are read again.
Unpair(t, d, p) ==
  /\ Free(t)
  /\ p \in rows[d]
  /\ Act
  /\ rows' = [rows EXCEPT ![d] = @ \ {p}]
  /\ task' = [task EXCEPT ![t] =
                [stage |-> "revoking", step |-> "cert", at |-> d, who |-> p,
                 code |-> None, waits |-> FALSE, read |-> {}]]
  /\ troubled' = troubled \cup Between(d, p)
  /\ torn' = IF \E u \in Task : Writing(u, d) THEN torn \cup {d} ELSE torn
  /\ UNCHANGED <<memory, requests, certs, trust, shown, typed, compared,
                 prompted>>

\* storage::remove_peer_cert.
RemoveCert(t) ==
  /\ task[t].stage = "revoking" /\ task[t].step = "cert"
  /\ certs' = [certs EXCEPT ![task[t].at] = @ \ {task[t].who}]
  /\ Goto(t, "read")
  /\ Tear(t)
  /\ UNCHANGED <<memory, requests, rows, trust, budget, shown, typed, compared,
                 prompted, troubled>>

-----------------------------------------------------------------------------
(* Failures and time.                                                    *)

\* A file or the database cannot be written or read: what was done stays.
StepFails(t) ==
  LET k == task[t] IN
    /\ k.stage \in {"accepting", "returning", "revoking"} /\ k.step # "set"
    /\ Fault
    /\ task' = [task EXCEPT ![t] = IdleTask]
    /\ torn' = torn \cup {k.at}
    /\ troubled' = troubled \cup Between(k.at, k.who)
    /\ UNCHANGED <<memory, requests, stored, shown, typed, compared, prompted>>

\* The confirmation does not reach the initiator, or its reply is lost.
CallLost(t) ==
  LET k == task[t] IN
    /\ k.stage \in {"asking", "answering"}
    /\ Fault
    /\ task' = [task EXCEPT ![t] = IdleTask]
    /\ troubled' = troubled \cup Between(k.at, k.who)
    /\ UNCHANGED <<memory, requests, stored, shown, typed, compared, prompted,
                   torn>>

\* The caller gives up after ten seconds; the initiator carries on.
GiveUp(t) ==
  LET k == task[t] IN
    /\ k.stage \in {"asking", "accepting"} /\ k.waits
    /\ Fault
    /\ task' = [task EXCEPT ![t].waits = FALSE]
    /\ troubled' = troubled \cup Between(k.at, k.who)
    /\ UNCHANGED <<memory, requests, stored, shown, typed, compared, prompted,
                   torn>>

\* The task after device d has ended: what ran there is gone, what runs on the
\* other device for d goes on with nobody to answer.
Orphaned(k, d) ==
  IF k.at = d \/ k.stage = "answering" THEN IdleTask
  ELSE [k EXCEPT !.waits = FALSE]

\* The process ends and Engine::new runs: pairings are not persisted, and the
\* certificates are read again.
Restart(d) ==
  LET hit == {t \in Task : task[t].stage # "idle"
                             /\ d \in {task[t].at, task[t].who}
                             /\ ~ (task[t].stage \in {"returning", "revoking"}
                                     /\ task[t].at # d)}
  IN
    /\ Fault
    /\ outgoing' = [outgoing EXCEPT ![d] = NoPairing]
    /\ offers' = [offers EXCEPT ![d] = [i \in Device |-> OfferTTL]]
    /\ trust' = [trust EXCEPT ![d] = certs[d]]
    /\ task' = [t \in Task |-> IF t \in hit THEN Orphaned(task[t], d)
                                            ELSE task[t]]
    /\ troubled' = troubled \cup
                     UNION {Between(task[t].at, task[t].who) : t \in hit}
    /\ prompted' = {p \in prompted : d \notin {p[1], p[2]}}
    /\ torn' = IF \E t \in Task : Writing(t, d) THEN torn \cup {d} ELSE torn
    /\ UNCHANGED <<requests, certs, rows, shown, typed, compared>>

\* Mutant: an age passes its limit.
OlderPast(n, ttl) == IF n <= ttl THEN n + 1 ELSE n

Older(n, ttl) == IF n < ttl THEN n + 1 ELSE ttl

\* Time passes everywhere.
Tick ==
  /\ outgoing' = [i \in Device |->
                    [outgoing[i] EXCEPT !.age = Older(@, CodeTTL)]]
  /\ offers' = [d \in Device |-> [i \in Device |->
                    Older(offers[d][i], OfferTTL)]]
  /\ memory' # memory
  /\ UNCHANGED <<requests, task, stored, budget, history>>

-----------------------------------------------------------------------------
TaskStep(t) == \/ PairConfirm(t) \/ ReplyArrives(t)
               \/ SaveCert(t) \/ SaveRow(t) \/ RemoveCert(t)
               \/ ReadCerts(t) \/ ReplaceTrusted(t)

Next ==
  \/ \E i \in Device, c \in Code, T \in SUBSET Device : StartPairing(i, c, T)
  \/ \E i \in Device : CancelPairing(i)
  \/ \E i, d \in Device : PairRequest(i, d)
  \/ \E t \in Task, d, i \in Device, c \in Code : ConfirmPairing(t, d, i, c)
  \/ \E t \in Task, d, p \in Device : Unpair(t, d, p)
  \/ \E t \in Task : TaskStep(t) \/ StepFails(t) \/ CallLost(t) \/ GiveUp(t)
  \/ \E d \in Device : Restart(d)
  \/ Tick

Spec == Init /\ [][Next]_vars

-----------------------------------------------------------------------------
(* Properties.                                                           *)

AtRest(d) == \A t \in Task : ~ Writing(t, d)

\* Nobody is trusted, listed or kept on disk but a device on which the code was
\* typed that this device showed for it, or the other way round: whatever is
\* lost, repeated, replaced, cancelled or half done (pair_confirm, pinning).
Met(d, p) == \E c \in Code : /\ <<d, c, p>> \in shown /\ <<d, c, p>> \in typed
                          \/ /\ <<p, c, d>> \in shown /\ <<p, c, d>> \in typed

TrustIsProven ==
  \A d \in Device : \A p \in certs[d] \cup rows[d] \cup trust[d] : Met(d, p)

\* A code is compared with no more than MaxAttempts wrong proofs, by however
\* many devices they come and however late (PairingState::verify).
AttemptsAreBounded == \A i \in Device : compared[i] <= MaxAttempts

\* As long as a code can pair a device that has been asked for it, that device
\* still offers to type it: the prompt does not run out before the code, and no
\* failed or finished call takes it (record_offer, clear_offer, verify).
OffersOutliveCodes ==
  \A p \in prompted :
    LET i == p[1]
        d == p[2]
    IN /\ outgoing[i].age < CodeTTL
       /\ d \in outgoing[i].pending
       => Offered(d, i)

\* The server accepts exactly the devices that are pinned and listed, on every
\* device where no step failed and no two pinnings or unpairings overlapped:
\* nothing else can make memory, files and table disagree (pin_paired_device,
\* unpair, TrustStore::reload).
OneTruthUnlessTorn ==
  \A d \in Device : AtRest(d) /\ d \notin torn =>
    certs[d] = rows[d] /\ trust[d] = certs[d]

\* When nothing is under way between two devices, either each pins the other or
\* neither does, unless a call between them was lost or given up, a step failed,
\* one of them restarted in the middle, or one unpaired the other: refusals,
\* expiry, cancelling and a second pairing leave nobody half paired
\* (pair_confirm, confirm_pairing).
Quiet(i, d) == \A t \in Task : task[t].stage = "idle"
                                \/ {task[t].at, task[t].who} # {i, d}

MutualUnlessTroubled ==
  \A i, d \in Device :
    Quiet(i, d) /\ <<i, d>> \notin troubled =>
      /\ d \in certs[i] <=> i \in certs[d]
      /\ d \in rows[i] <=> i \in rows[d]
=============================================================================
