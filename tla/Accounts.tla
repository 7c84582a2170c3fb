------------------------------ MODULE Accounts -------------------------------
(***************************************************************************)
(* How people come to have an account: registration with a new company,    *)
(* invitations and their acceptance, accounts made by an admin; the links  *)
(* that verify an address; and the lockout after wrong passwords.          *)
(*                                                                         *)
(* companies   the rows of that table; that one is deleted is a failure of *)
(*             the requests that look for it.                              *)
(* user[e]     the users row of address e (the address is unique, for      *)
(*             removed users too); via says how it came to be, history.    *)
(* invite[i]   invitation_tokens, in the order of their creation; known is *)
(*             history: the invitations that existed when this one was     *)
(*             checked against them.                                       *)
(* link[v]     email_verification_tokens, in the order of their creation.  *)
(* counter[e]  the keys login_attempts:<e> (count, and whether it has a    *)
(*             time to live) and login_locked:<e> in Redis.                *)
(* req[h]      the request in handler h.                                   *)
(* stranded, unbounded  history: the addresses for which a request died    *)
(*             after it had invalidated the links, or before it had given  *)
(*             the counter its time to live.                               *)
(***************************************************************************)
EXTENDS Integers

CONSTANTS
  Emails, Companies, Handlers,
  Founded,          \* the companies there are from the beginning
  MaxInvitations,   \* bound: the invitations created
  MaxLinks,         \* bound: the verification links created
  MaxAttempts,      \* bound: the wrong passwords counted in one window
  LOCKOUT_THRESHOLD

ASSUME ConstantsAssumption ==
  /\ Founded \subseteq Companies /\ "none" \notin Emails
  /\ MaxInvitations \in Nat /\ MaxLinks \in Nat /\ MaxAttempts \in Nat
  /\ LOCKOUT_THRESHOLD \in Nat \ {0, 1}

VARIABLES companies, user, invite, link, counter, req, stranded, unbounded

accounts == <<companies, user>>
history == <<stranded, unbounded>>
vars == <<accounts, invite, link, counter, req, history>>

Invitations == 1..MaxInvitations
Links == 1..MaxLinks

NoUser == [company |-> "none", removed |-> FALSE, verified |-> FALSE, via |-> 0]
NoInvitation == [state |-> "absent", email |-> "none", company |-> "none", known |-> {}]
NoLink == [state |-> "absent", email |-> "none"]
NoCounter == [attempts |-> 0, expires |-> FALSE, locked |-> FALSE]
Idle == [pc |-> "idle", email |-> "none", company |-> "none", on |-> 0, known |-> {}]

(* Besides by invitation i, an account comes by registration or by the     *)
(* hand of an admin.                                                       *)
ByRegistration == -1
ByAdmin == -2

Init ==
  /\ companies = Founded
  /\ user = [e \in Emails |-> NoUser]
  /\ invite = [i \in Invitations |-> NoInvitation]
  /\ link = [v \in Links |-> NoLink]
  /\ counter = [e \in Emails |-> NoCounter]
  /\ req = [h \in Handlers |-> Idle]
  /\ stranded = {} /\ unbounded = {}

At(h, label) == req[h].pc = label
Goto(h, label) == req' = [req EXCEPT ![h].pc = label]
Finish(h) == req' = [req EXCEPT ![h] = Idle]

(* findUnique by the address, removed or not.                              *)
Registered(e) == user[e] # NoUser

(* A user is inserted, unless the unique index knows the address.          *)
NewUser(h, verified, via) ==
  user' = [user EXCEPT ![req[h].email] =
             [company |-> req[h].company, removed |-> FALSE, verified |-> verified, via |-> via]]

------------------------------------------------------------------------------
(* register                                                                *)

CheckEmail(h) ==
  \E e \in Emails :
    /\ At(h, "idle") /\ ~Registered(e)
    /\ req' = [req EXCEPT ![h] = [Idle EXCEPT !.pc = "registering", !.email = e]]
    /\ UNCHANGED <<accounts, invite, link, counter, history>>

(* The transaction: a company and its admin, or, when the address or the   *)
(* slug has been taken in the meantime, neither.  Slugs are left out: that *)
(* one is taken is a failure like another (Fail).                          *)
CommitRegistration(h) ==
  /\ At(h, "registering")
  /\ IF Registered(req[h].email)
     THEN Finish(h) /\ UNCHANGED accounts
     ELSE \E c \in Companies \ companies :
            /\ companies' = companies \cup {c}
            /\ user' = [user EXCEPT ![req[h].email] =
                          [company |-> c, removed |-> FALSE, verified |-> FALSE,
                           via |-> ByRegistration]]
            /\ Goto(h, "linking")
  /\ UNCHANGED <<invite, link, counter, history>>

(* The next verification link, of register and of resendConfirmation; its  *)
(* mail goes out.                                                          *)
CreateLink(h) ==
  \E v \in Links :
    /\ At(h, "linking") /\ link[v] = NoLink /\ \A w \in 1..(v - 1) : link[w] # NoLink
    /\ link' = [link EXCEPT ![v] = [state |-> "unused", email |-> req[h].email]]
    /\ stranded' = stranded \ {req[h].email}
    /\ Finish(h)
    /\ UNCHANGED <<accounts, invite, counter, unbounded>>

------------------------------------------------------------------------------
(* resendConfirmation and confirmEmail.                                    *)

FindUnverified(h) ==
  \E e \in Emails :
    /\ At(h, "idle") /\ Registered(e) /\ ~user[e].removed /\ ~user[e].verified
    /\ req' = [req EXCEPT ![h] = [Idle EXCEPT !.pc = "resending", !.email = e]]
    /\ UNCHANGED <<accounts, invite, link, counter, history>>

Used(e) ==
  [v \in Links |-> IF link[v] = [state |-> "unused", email |-> e]
                   THEN [link[v] EXCEPT !.state = "used"] ELSE link[v]]

(* Mutant of InvalidateLinks: the new link is created first.               *)
InvalidateLinksAfter(h) ==
  \E v \in Links :
    /\ At(h, "resending") /\ link[v] = NoLink /\ \A w \in 1..(v - 1) : link[w] # NoLink
    /\ link' = [Used(req[h].email) EXCEPT ![v] = [state |-> "used", email |-> req[h].email]]
    /\ Finish(h)
    /\ UNCHANGED <<accounts, invite, counter, history>>

InvalidateLinks(h) ==
  /\ At(h, "resending")
  /\ link' = Used(req[h].email)
  /\ Goto(h, "linking")
  /\ UNCHANGED <<accounts, invite, counter, history>>

FindLink(h) ==
  \E v \in Links :
    /\ At(h, "idle") /\ link[v].state = "unused"
    /\ req' = [req EXCEPT ![h] = [Idle EXCEPT !.pc = "confirming", !.on = v]]
    /\ UNCHANGED <<accounts, invite, link, counter, history>>

ConfirmEmail(h) ==
  LET v == req[h].on
  IN  /\ At(h, "confirming")
      /\ user' = [user EXCEPT ![link[v].email].verified = TRUE]
      /\ link' = [link EXCEPT ![v].state = "used"]
      /\ Finish(h)
      /\ UNCHANGED <<companies, invite, counter, history>>

------------------------------------------------------------------------------
(* inviteUser                                                              *)

CheckInvitee(h) ==
  \E e \in Emails, c \in companies :
    /\ At(h, "idle") /\ ~Registered(e)
    /\ req' = [req EXCEPT ![h] = [Idle EXCEPT !.pc = "inviting", !.email = e, !.company = c]]
    /\ UNCHANGED <<accounts, invite, link, counter, history>>

Pending(e, c) ==
  {i \in Invitations : invite[i].state = "pending" /\ invite[i].email = e /\ invite[i].company = c}

Created == {i \in Invitations : invite[i].state # "absent"}

(* Mutant of CheckPending: an invitation by any company counts as none.    *)
CheckPendingNever(h) ==
  /\ At(h, "inviting")
  /\ req' = [req EXCEPT ![h].pc = "checked", ![h].known = Created]
  /\ UNCHANGED <<accounts, invite, link, counter, history>>

CheckPending(h) ==
  /\ At(h, "inviting") /\ Pending(req[h].email, req[h].company) = {}
  /\ req' = [req EXCEPT ![h].pc = "checked", ![h].known = Created]
  /\ UNCHANGED <<accounts, invite, link, counter, history>>

(* The company and the inviter are found, and the invitation is created.   *)
CreateInvitation(h) ==
  \E i \in Invitations :
    /\ At(h, "checked") /\ i \notin Created /\ 1..(i - 1) \subseteq Created
    /\ invite' = [invite EXCEPT ![i] =
                    [state |-> "pending", email |-> req[h].email, company |-> req[h].company,
                     known |-> req[h].known]]
    /\ Finish(h)
    /\ UNCHANGED <<accounts, link, counter, history>>

(* Its seven days are over.                                                *)
ExpireInvitation(i) ==
  /\ invite[i].state = "pending"
  /\ invite' = [invite EXCEPT ![i].state = "expired"]
  /\ UNCHANGED <<accounts, link, counter, req, history>>

------------------------------------------------------------------------------
(* acceptInvite, and create, the account an admin makes.                   *)

FindInvitation(h) ==
  \E i \in Invitations :
    /\ At(h, "idle") /\ invite[i].state = "pending"
    /\ req' = [req EXCEPT ![h] = [Idle EXCEPT !.pc = "accepting", !.on = i,
                  !.email = invite[i].email, !.company = invite[i].company]]
    /\ UNCHANGED <<accounts, invite, link, counter, history>>

CheckInvited(h) ==
  /\ At(h, "accepting") /\ ~Registered(req[h].email)
  /\ Goto(h, "joining")
  /\ UNCHANGED <<accounts, invite, link, counter, history>>

(* Mutant of CommitAcceptance: the invitation is used up first and on its  *)
(* own.                                                                    *)
UseInvitationFirst(h) ==
  /\ At(h, "joining")
  /\ invite' = [invite EXCEPT ![req[h].on].state = "used"]
  /\ IF Registered(req[h].email) THEN UNCHANGED user ELSE NewUser(h, TRUE, req[h].on)
  /\ Finish(h)
  /\ UNCHANGED <<companies, link, counter, history>>

(* The transaction: the member is there and the invitation used, or, when  *)
(* the address is taken by now, neither.                                   *)
CommitAcceptance(h) ==
  /\ At(h, "joining")
  /\ IF Registered(req[h].email)
     THEN UNCHANGED <<user, invite>>
     ELSE /\ NewUser(h, TRUE, req[h].on)
          /\ invite' = [invite EXCEPT ![req[h].on].state = "used"]
  /\ Finish(h)
  /\ UNCHANGED <<companies, link, counter, history>>

CheckNewUser(h) ==
  \E e \in Emails, c \in companies :
    /\ At(h, "idle") /\ ~Registered(e)
    /\ req' = [req EXCEPT ![h] = [Idle EXCEPT !.pc = "creating", !.email = e, !.company = c]]
    /\ UNCHANGED <<accounts, invite, link, counter, history>>

CreateUser(h) ==
  /\ At(h, "creating")
  /\ IF Registered(req[h].email) THEN UNCHANGED user ELSE NewUser(h, FALSE, ByAdmin)
  /\ Finish(h)
  /\ UNCHANGED <<companies, invite, link, counter, history>>

(* remove and deleteMyAccount.                                             *)
RemoveUser(e) ==
  /\ Registered(e) /\ ~user[e].removed
  /\ user' = [user EXCEPT ![e].removed = TRUE]
  /\ UNCHANGED <<companies, invite, link, counter, req, history>>

------------------------------------------------------------------------------
(* login, as far as it counts: whoever is locked out is turned away.       *)

CheckLock(h) ==
  \E e \in Emails :
    /\ At(h, "idle") /\ ~counter[e].locked
    /\ req' = [req EXCEPT ![h] = [Idle EXCEPT !.pc = "unlocked", !.email = e]]
    /\ UNCHANGED <<accounts, invite, link, counter, history>>

SetCounter(h, key) == counter' = [counter EXCEPT ![req[h].email] = key]

(* The password is right: both keys are deleted ...                        *)
Enter(h) ==
  /\ At(h, "unlocked") /\ Registered(req[h].email)
  /\ SetCounter(h, NoCounter)
  /\ unbounded' = unbounded \ {req[h].email}
  /\ Finish(h)
  /\ UNCHANGED <<accounts, invite, link, stranded>>

(* Mutant of CountFailure: the first failure gives the key no time to live.*)
CountFailureOnly(h) ==
  LET attempts == counter[req[h].email].attempts + 1
  IN  /\ At(h, "unlocked") /\ attempts <= MaxAttempts
      /\ counter' = [counter EXCEPT ![req[h].email].attempts = attempts]
      /\ IF attempts >= LOCKOUT_THRESHOLD THEN Goto(h, "locking") ELSE Finish(h)
      /\ UNCHANGED <<accounts, invite, link, history>>

(* ... or wrong, or there is no such user: the failure is counted; the     *)
(* first one opens a window, the last one locks.                           *)
CountFailure(h) ==
  LET attempts == counter[req[h].email].attempts + 1
  IN  /\ At(h, "unlocked") /\ attempts <= MaxAttempts
      /\ counter' = [counter EXCEPT ![req[h].email].attempts = attempts]
      /\ IF attempts = 1 THEN Goto(h, "opening")
         ELSE IF attempts >= LOCKOUT_THRESHOLD THEN Goto(h, "locking")
         ELSE Finish(h)
      /\ UNCHANGED <<accounts, invite, link, history>>

(* EXPIRE does nothing to a key that is not there.                         *)
OpenWindow(h) ==
  LET e == req[h].email
  IN  /\ At(h, "opening")
      /\ counter' = [counter EXCEPT ![e].expires = counter[e].attempts > 0]
      /\ unbounded' = unbounded \ {e}
      /\ Finish(h)
      /\ UNCHANGED <<accounts, invite, link, stranded>>

LockOut(h) ==
  /\ At(h, "locking")
  /\ counter' = [counter EXCEPT ![req[h].email].locked = TRUE]
  /\ Goto(h, "clearing")
  /\ UNCHANGED <<accounts, invite, link, history>>

Cleared(key) == [key EXCEPT !.attempts = 0, !.expires = FALSE]

ClearAttempts(h) ==
  /\ At(h, "clearing")
  /\ SetCounter(h, Cleared(counter[req[h].email]))
  /\ unbounded' = unbounded \ {req[h].email}
  /\ Finish(h)
  /\ UNCHANGED <<accounts, invite, link, stranded>>

(* The window or the lockout is over.                                      *)
ExpireKeys(e) ==
  /\ \/ counter[e].expires /\ counter' = [counter EXCEPT ![e] = Cleared(@)]
     \/ counter[e].locked /\ counter' = [counter EXCEPT ![e].locked = FALSE]
  /\ UNCHANGED <<accounts, invite, link, req, history>>

------------------------------------------------------------------------------

(* The request fails, in a statement or with the process.                  *)
Fail(h) ==
  /\ ~At(h, "idle")
  /\ stranded' = IF At(h, "linking") THEN stranded \cup {req[h].email} ELSE stranded
  /\ unbounded' = IF At(h, "opening") THEN unbounded \cup {req[h].email} ELSE unbounded
  /\ Finish(h)
  /\ UNCHANGED <<accounts, invite, link, counter>>

RegisterStep(h) ==
  CheckEmail(h) \/ CommitRegistration(h) \/ CreateLink(h)

VerifyStep(h) == FindUnverified(h) \/ InvalidateLinks(h) \/ FindLink(h) \/ ConfirmEmail(h)

InviteStep(h) == CheckInvitee(h) \/ CheckPending(h) \/ CreateInvitation(h)

JoinStep(h) ==
  FindInvitation(h) \/ CheckInvited(h) \/ CommitAcceptance(h) \/ CheckNewUser(h) \/ CreateUser(h)

LoginStep(h) ==
  CheckLock(h) \/ Enter(h) \/ CountFailure(h) \/ OpenWindow(h) \/ LockOut(h) \/ ClearAttempts(h)

Next ==
  \/ \E h \in Handlers :
       RegisterStep(h) \/ VerifyStep(h) \/ InviteStep(h) \/ JoinStep(h) \/ LoginStep(h) \/ Fail(h)
  \/ \E e \in Emails : RemoveUser(e) \/ ExpireKeys(e)
  \/ \E i \in Invitations : ExpireInvitation(i)

Spec == Init /\ [][Next]_vars

------------------------------------------------------------------------------

(* Types.                                                                  *)
TypeOK ==
  /\ companies \subseteq Companies
  /\ user \in [Emails -> [company : Companies \cup {"none"}, removed : BOOLEAN,
                          verified : BOOLEAN, via : Invitations \cup {ByAdmin, ByRegistration, 0}]]
  /\ invite \in [Invitations ->
                   [state : {"absent", "pending", "expired", "used"}, email : Emails \cup {"none"},
                    company : Companies \cup {"none"}, known : SUBSET Invitations]]
  /\ link \in [Links -> [state : {"absent", "unused", "used"}, email : Emails \cup {"none"}]]
  /\ counter \in [Emails -> [attempts : Nat, expires : BOOLEAN, locked : BOOLEAN]]

(* An invitation is used exactly when the account of its address came by   *)
(* it, in its company and with a verified address.  So an invitation makes *)
(* one account, and of several for one address, or of one that is accepted *)
(* twice, whichever transaction is first wins, also against a registration *)
(* and an admin.                                                           *)
InvitationsMatchMembers ==
  \A i \in Invitations : \A e \in Emails :
    invite[i].email = e =>
      /\ invite[i].state = "used" <=> user[e].via = i
      /\ user[e].via = i => user[e].company = invite[i].company /\ user[e].verified

(* A company invites an address twice at a time only when the two requests *)
(* overlap: neither was there when the other was checked.                  *)
DuplicatesOverlap ==
  \A i, j \in Invitations :
    /\ i # j /\ invite[i].state = "pending" /\ invite[j].state = "pending"
    /\ invite[i].email = invite[j].email /\ invite[i].company = invite[j].company
    => i \notin invite[j].known

(* The newest link that was mailed to an unverified user works (for its    *)
(* 24 hours, which are left out), in whatever order links are requested    *)
(* and followed, except while a newer one is being made, or when the       *)
(* request for one has died.                                               *)
NewestLinkWorks ==
  \A v \in Links :
    LET e == link[v].email
    IN  /\ link[v] # NoLink /\ ~user[e].verified /\ e \notin stranded
        /\ \A w \in Links : w > v => link[w].email # e
        /\ \A h \in Handlers : At(h, "linking") => req[h].email # e
        => link[v].state = "unused"

(* A count of wrong passwords is forgotten in time: it has a time to live, *)
(* or the request that will give it one is under way, or died before.      *)
FailuresAreForgotten ==
  \A e \in Emails :
    counter[e].attempts > 0 =>
      \/ counter[e].expires \/ e \in unbounded
      \/ \E h \in Handlers : At(h, "opening") /\ req[h].email = e
==============================================================================
