---------------------------- MODULE Notifications ----------------------------
(***************************************************************************)
(* From an event of the domain to the mails about it: the listeners, each  *)
(* of which runs on its own after the emitter has gone on, EmailService    *)
(* with its log, and SES.  Nothing of this survives the process, only the  *)
(* client of SES tries again, and an error must not reach the emitter.     *)
(*                                                                         *)
(* admins       who is an active admin of the company now.                 *)
(* listener[e]  the listener of event e: where it is, whom it will tell    *)
(*              (found), who of these is left (todo), whom it is at (to),  *)
(*              and the attempts of the client without an answer (tries).  *)
(* log[e][a]    the status of the email_logs row of e for address a.       *)
(* mails[e][a]  history: how often SES delivered the mail.                 *)
(* unanswered[e][a]  history: the deliveries the client did not hear of.   *)
(* faults       history: how often the database failed a listener.         *)
(***************************************************************************)
EXTENDS Integers

CONSTANTS
  Events,      \* the occasions for mails
  Addresses,   \* of users and customers
  MaxTries,    \* attempts of the client, which keeps the default of the SDK
  MaxFaults    \* bound: the statements of listeners that fail

ASSUME MaxTriesAssumption == MaxTries \in Nat \ {0}
ASSUME MaxFaultsAssumption == MaxFaults \in Nat

VARIABLES admins, listener, log, mails, unanswered, faults

mailVars == <<admins, listener, log, mails, unanswered, faults>>

Nobody == "nobody"
NoListener == [pc |-> "none", found |-> {}, todo |-> {}, to |-> Nobody, tries |-> 0]
Ended == {"done", "aborted", "killed"}
ListenerLabels == Ended \cup {"none", "reading", "next", "logged", "sent", "refused"}

MailInit ==
  /\ admins \in SUBSET Addresses
  /\ listener = [e \in Events |-> NoListener]
  /\ log = [e \in Events |-> [a \in Addresses |-> "none"]]
  /\ mails = [e \in Events |-> [a \in Addresses |-> 0]]
  /\ unanswered = mails
  /\ faults = 0

ListenerAt(e, label) == listener[e].pc = label
ListenerGoto(e, label) == listener' = [listener EXCEPT ![e].pc = label]
Running(e) == listener[e].pc \notin Ended \cup {"none"}

Tell(e, recipients) ==
  /\ listener' = [listener EXCEPT ![e] = [NoListener EXCEPT
                     !.pc = "next", !.found = recipients, !.todo = recipients]]
  /\ UNCHANGED <<admins, log, mails, unanswered, faults>>

------------------------------------------------------------------------------
(* The listeners.                                                          *)

(* onUserRegistered, onEmailVerificationRequested,                         *)
(* onPasswordResetRequested, onPasswordResetCompleted and onUserInvited:   *)
(* the address is in the event.                                            *)
TellUser(e) == ListenerAt(e, "none") /\ \E a \in Addresses : Tell(e, {a})

(* onStatusChanged, onApprovalRequested and onCompleted: the customer may  *)
(* have no address, and then nothing happens.                              *)
TellCustomer(e) ==
  ListenerAt(e, "none") /\ \E recipients \in {{}} \cup {{a} : a \in Addresses} : Tell(e, recipients)

(* onSubscriptionActivated, onInvoicePaid, onPaymentFailed and             *)
(* onSubscriptionCanceled tell the admins of the company ...               *)
TellCompany(e) ==
  /\ ListenerAt(e, "none")
  /\ ListenerGoto(e, "reading")
  /\ UNCHANGED <<admins, log, mails, unanswered, faults>>

(* ... there are when the listener reads them.                             *)
getCompanyWithAdmins(e) == ListenerAt(e, "reading") /\ Tell(e, admins)

(* The loop has come to its end.                                           *)
LoopEnds(e) ==
  /\ ListenerAt(e, "next") /\ listener[e].todo = {}
  /\ ListenerGoto(e, "done")
  /\ UNCHANGED <<admins, log, mails, unanswered, faults>>

(* Users become admins and cease to be, are disabled and removed.          *)
ChangeAdmins == admins' \in SUBSET Addresses /\ UNCHANGED <<listener, log, mails, unanswered, faults>>

------------------------------------------------------------------------------
(* EmailService.send, for the next recipient: the log is created PENDING,  *)
(* the mail is sent, the log is updated.                                   *)

CreateLog(e) ==
  \E a \in listener[e].todo :
    /\ ListenerAt(e, "next")
    /\ log' = [log EXCEPT ![e][a] = "PENDING"]
    /\ listener' = [listener EXCEPT ![e].pc = "logged", ![e].to = a, ![e].todo = @ \ {a}]
    /\ UNCHANGED <<admins, mails, unanswered, faults>>

SetStatus(e, status) ==
  /\ log' = [log EXCEPT ![e][listener[e].to] = status]
  /\ listener' = [listener EXCEPT ![e].pc = "next", ![e].to = Nobody, ![e].tries = 0]
  /\ UNCHANGED <<admins, mails, unanswered, faults>>

(* One attempt of the client.  SES takes the mail, or rejects it for good, *)
(* or there is no answer or one that says to come again (a timeout, a 5xx, *)
(* a throttling), the mail being delivered or not: then the client makes   *)
(* the next attempt, and gives up after the last.                          *)
SendEmail(e) ==
  LET to == listener[e].to
  IN  /\ ListenerAt(e, "logged")
      /\ UNCHANGED <<admins, log, faults>>
      /\ \/ /\ mails' = [mails EXCEPT ![e][to] = @ + 1]
            /\ ListenerGoto(e, "sent") /\ UNCHANGED unanswered
         \/ ListenerGoto(e, "refused") /\ UNCHANGED <<mails, unanswered>>
         \/ \E delivered \in 0..1 :
              /\ mails' = [mails EXCEPT ![e][to] = @ + delivered]
              /\ unanswered' = [unanswered EXCEPT ![e][to] = @ + delivered]
              /\ listener' = [listener EXCEPT
                   ![e].tries = @ + 1,
                   ![e].pc = IF listener[e].tries + 1 = MaxTries THEN "refused" ELSE "logged"]

(* Mutant of MarkSent: the log says SENT whatever SES answered.            *)
MarkAnythingSent(e) == listener[e].pc \in {"sent", "refused"} /\ SetStatus(e, "SENT")

MarkSent(e) == ListenerAt(e, "sent") /\ SetStatus(e, "SENT")

(* Mutants of MarkFailed: the error goes on to the listener; the mail is   *)
(* tried again.                                                            *)
MarkFailedAndStop(e) ==
  /\ ListenerAt(e, "refused")
  /\ log' = [log EXCEPT ![e][listener[e].to] = "FAILED"]
  /\ ListenerGoto(e, "done")
  /\ UNCHANGED <<admins, mails, unanswered, faults>>
TryAgain(e) ==
  ListenerAt(e, "refused") /\ ListenerGoto(e, "logged") /\ UNCHANGED <<admins, log, mails, unanswered, faults>>

(* The catch, after a refusal and after a failed update to SENT.           *)
MarkFailed(e) == ListenerAt(e, "refused") /\ SetStatus(e, "FAILED")

(* A statement fails.  That of MarkSent is caught in send, the others end  *)
(* the listener in its own catch, and whoever is left is not told.         *)
StatementFails(e) ==
  /\ listener[e].pc \in {"reading", "next", "sent", "refused"} /\ faults < MaxFaults
  /\ faults' = faults + 1
  /\ ListenerGoto(e, IF ListenerAt(e, "sent") THEN "refused" ELSE "aborted")
  /\ UNCHANGED <<admins, log, mails, unanswered>>

(* The process dies: its listeners are gone, whatever they were doing.     *)
ProcessDies ==
  /\ \E e \in Events : Running(e)
  /\ listener' = [e \in Events |->
                    IF Running(e) THEN [listener[e] EXCEPT !.pc = "killed"] ELSE listener[e]]
  /\ UNCHANGED <<admins, log, mails, unanswered, faults>>

------------------------------------------------------------------------------

Happen(e) == TellUser(e) \/ TellCustomer(e) \/ TellCompany(e)

Proceed(e) ==
  \/ getCompanyWithAdmins(e) \/ CreateLog(e) \/ SendEmail(e)
  \/ MarkSent(e) \/ MarkFailed(e) \/ LoopEnds(e)

MailNext ==
  \/ \E e \in Events : Happen(e) \/ Proceed(e) \/ StatementFails(e)
  \/ ChangeAdmins
  \/ ProcessDies

(* A promise that is awaited settles.                                      *)
MailSpec == MailInit /\ [][MailNext]_mailVars /\ \A e \in Events : WF_mailVars(Proceed(e))

------------------------------------------------------------------------------

(* Types.                                                                  *)
Status == {"none", "PENDING", "SENT", "FAILED"}
Listener ==
  [pc : ListenerLabels, found : SUBSET Addresses, todo : SUBSET Addresses, to : Addresses \cup {Nobody},
   tries : 0..MaxTries]
MailTypes ==
  /\ admins \subseteq Addresses
  /\ listener \in [Events -> Listener]
  /\ \A e \in Events : listener[e].pc \in {"logged", "sent", "refused"} => listener[e].to \in Addresses
  /\ log \in [Events -> [Addresses -> Status]]
  /\ mails \in [Events -> [Addresses -> Nat]]
  /\ unanswered \in [Events -> [Addresses -> Nat]]
  /\ faults \in 0..MaxFaults

(* The log against the mailboxes: a mail goes out again only for a         *)
(* delivery whose answer was lost, and never more often than the client    *)
(* makes attempts; one that is logged as SENT was delivered in the attempt *)
(* that was answered, besides those that were not; none goes out unlogged. *)
(* (One that is logged as FAILED may have been delivered.)                 *)
LogMatchesMail ==
  \A e \in Events, a \in Addresses :
    /\ mails[e][a] <= MaxTries
    /\ mails[e][a] <= unanswered[e][a] + 1
    /\ log[e][a] = "SENT" => mails[e][a] = unanswered[e][a] + 1
    /\ log[e][a] = "none" => mails[e][a] = 0

(* A mail that SES refuses concerns its recipient only: a listener that    *)
(* the database and the process let run has an outcome in the log for      *)
(* everybody it was to tell, and one that they stopped has left at most    *)
(* the log it was at PENDING.                                              *)
EverybodyHasAnOutcome ==
  \A e \in Events :
    LET pending == {a \in Addresses : log[e][a] = "PENDING"}
    IN  /\ pending \subseteq {listener[e].to}
        /\ ListenerAt(e, "done") => \A a \in listener[e].found : log[e][a] \in {"SENT", "FAILED"}

(* Every event that happens is dealt with, one way or the other: no        *)
(* listener is left in the middle.                                         *)
EveryListenerEnds ==
  \A e \in Events : Running(e) ~> listener[e].pc \in Ended
==============================================================================
