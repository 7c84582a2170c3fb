----------------------------- MODULE AuthSessions ----------------------------
(***************************************************************************)
(* AuthService for one active user: the refresh tokens (login, refresh,    *)
(* logout) and what revokes them all (a change of password, a reset, the   *)
(* reuse of a revoked token), and the password reset tokens.               *)
(*                                                                         *)
(* A refresh token is a JWT whose only changing claim is the second of its *)
(* issue, so it is modelled by that second: two tokens of one second are   *)
(* the same string, and the unique index rejects the later one.            *)
(*                                                                         *)
(* now        the clock, in seconds.                                       *)
(* token[t]   the refresh_tokens row of the token issued in second t.      *)
(* reset[n]   the n-th password_reset_tokens row.                          *)
(* call[h]    the request in handler h: the token or reset it works on.    *)
(* epoch, and the fields epoch, slipped and from  history: how often       *)
(*            everything was revoked; the epoch in which the user of a     *)
(*            live token proved who he is; whether a request handed the    *)
(*            session on while everything was being revoked; and the token *)
(*            that was exchanged for this one.                             *)
(***************************************************************************)
EXTENDS FiniteSets, Integers

CONSTANTS
  CallHandlers,
  MaxTime,    \* bound: the seconds
  MaxResets,  \* bound: the reset tokens created
  MaxEpoch    \* bound: how often everything is revoked

ASSUME BoundsAssumption ==
  MaxTime \in Nat \ {0} /\ MaxResets \in Nat /\ MaxEpoch \in Nat

ASSUME CallHandlersAssumption == IsFiniteSet(CallHandlers)

VARIABLES now, token, reset, call, epoch

sessionVars == <<now, token, reset, call, epoch>>

Seconds == 1..MaxTime
Resets == 1..MaxResets

NoToken == [state |-> "absent", epoch |-> 0, slipped |-> FALSE, from |-> 0]
IdleCall == [pc |-> "idle", on |-> 0, epoch |-> 0, slipped |-> FALSE]

CallLabels == {"idle", "refreshing", "signing", "reused", "changing", "resetting", "invalidated"}

SessionInit ==
  /\ now = 1
  /\ token = [t \in Seconds |-> NoToken]
  /\ reset = [n \in Resets |-> "absent"]
  /\ call = [h \in CallHandlers |-> IdleCall]
  /\ epoch = 0

CallAt(h, label) == call[h].pc = label
CallEnds(h) == call' = [call EXCEPT ![h] = IdleCall]
Issued == {t \in Seconds : token[t].state # "absent"}
Live == {t \in Seconds : token[t].state = "live"}
Revoked(tokens) ==
  [t \in Seconds |-> IF t \in tokens /\ token[t].state = "live"
                     THEN [NoToken EXCEPT !.state = "revoked", !.from = token[t].from]
                     ELSE token[t]]

Tick ==
  /\ now < MaxTime
  /\ now' = now + 1
  /\ UNCHANGED <<token, reset, call, epoch>>

(* login: the password is right.                                           *)
Login(h) ==
  /\ CallAt(h, "idle")
  /\ call' = [call EXCEPT ![h] = [IdleCall EXCEPT !.pc = "signing", !.epoch = epoch]]
  /\ UNCHANGED <<now, token, reset, epoch>>

(* refreshTokens: the token is found, revoked or not.                      *)
ReadToken(h) ==
  \E t \in Issued :
    /\ CallAt(h, "idle")
    /\ call' = [call EXCEPT ![h] =
                  IF t \in Live
                  THEN [pc |-> "refreshing", on |-> t, epoch |-> token[t].epoch,
                       slipped |-> token[t].slipped]
                 ELSE [IdleCall EXCEPT !.pc = "reused"]]
    /\ UNCHANGED <<now, token, reset, epoch>>

(* Mutant of Rotate: the token is not revoked.                             *)
RotateKeeping(h) ==
  /\ CallAt(h, "refreshing")
  /\ call' = [call EXCEPT ![h].pc = "signing"]
  /\ UNCHANGED <<now, token, reset, epoch>>

(* A live one is revoked ...                                               *)
Rotate(h) ==
  /\ CallAt(h, "refreshing")
  /\ token' = Revoked({call[h].on})
  /\ call' = [call EXCEPT ![h].pc = "signing"]
  /\ UNCHANGED <<now, reset, epoch>>

(* Mutant of StoreToken: a row of the same token is overwritten.           *)
StoreTokenUpserting(h) ==
  /\ CallAt(h, "signing")
  /\ token' = [token EXCEPT ![now] =
                 [state |-> "live", epoch |-> call[h].epoch, slipped |-> call[h].slipped,
                  from |-> call[h].on]]
  /\ CallEnds(h)
  /\ UNCHANGED <<now, reset, epoch>>

(* ... and generateTokenPair, for login too, signs and stores the token of *)
(* this second, unless it exists: then the request fails.                  *)
StoreToken(h) ==
  /\ CallAt(h, "signing")
  /\ token' = IF now \in Issued THEN token
              ELSE [token EXCEPT ![now] =
                      [state |-> "live", epoch |-> call[h].epoch,
                       slipped |-> call[h].slipped, from |-> call[h].on]]
  /\ CallEnds(h)
  /\ UNCHANGED <<now, reset, epoch>>

Logout(h) ==
  \E t \in Issued :
    /\ CallAt(h, "idle")
    /\ token' = Revoked({t})
    /\ UNCHANGED <<now, reset, call, epoch>>

(* changePassword and resetPassword have checked what they were given.     *)
CheckPassword(h) ==
  /\ CallAt(h, "idle")
  /\ call' = [call EXCEPT ![h].pc = "changing"]
  /\ UNCHANGED <<now, token, reset, epoch>>

CheckReset(h) ==
  \E n \in Resets :
    /\ CallAt(h, "idle") /\ reset[n] = "unused"
    /\ call' = [call EXCEPT ![h].pc = "resetting", ![h].on = n]
    /\ UNCHANGED <<now, token, reset, epoch>>

(* Requests that have read a token or a password and are about to hand the *)
(* session on slip through when everything is revoked.                     *)
Slip(h) ==
  call' = [g \in CallHandlers |->
            IF g = h THEN IdleCall
            ELSE [call[g] EXCEPT !.slipped = @ \/ call[g].pc \in {"refreshing", "signing"}]]

(* Mutant of RevokeAll: a change of password leaves the tokens alone.      *)
RevokeAllButOnChange(h) ==
  /\ call[h].pc \in {"reused", "changing", "resetting"} /\ epoch < MaxEpoch
  /\ token' = IF CallAt(h, "changing") THEN token ELSE Revoked(Live)
  /\ epoch' = epoch + 1
  /\ Slip(h)
  /\ UNCHANGED <<now, reset>>

(* The updateMany of a reuse, or the transaction with the new password and *)
(* the use of the reset token.                                             *)
RevokeAll(h) ==
  /\ call[h].pc \in {"reused", "changing", "resetting"} /\ epoch < MaxEpoch
  /\ token' = Revoked(Live)
  /\ reset' = IF CallAt(h, "resetting") THEN [reset EXCEPT ![call[h].on] = "used"] ELSE reset
  /\ epoch' = epoch + 1
  /\ Slip(h)
  /\ UNCHANGED now

(* Mutant of InvalidateResets: nothing is invalidated.                     *)
InvalidateNothing(h) ==
  /\ CallAt(h, "idle")
  /\ call' = [call EXCEPT ![h].pc = "invalidated"]
  /\ UNCHANGED <<now, token, reset, epoch>>

(* forgotPassword: the unused reset tokens are invalidated ...             *)
InvalidateResets(h) ==
  /\ CallAt(h, "idle")
  /\ reset' = [n \in Resets |-> IF reset[n] = "unused" THEN "used" ELSE reset[n]]
  /\ call' = [call EXCEPT ![h].pc = "invalidated"]
  /\ UNCHANGED <<now, token, epoch>>

(* ... and a new one is created.                                           *)
CreateReset(h) ==
  \E n \in Resets :
    /\ CallAt(h, "invalidated")
    /\ reset[n] = "absent" /\ \A m \in 1..(n - 1) : reset[m] # "absent"
    /\ reset' = [reset EXCEPT ![n] = "unused"]
    /\ CallEnds(h)
    /\ UNCHANGED <<now, token, epoch>>

(* The request fails or the process dies.                                  *)
CallFails(h) ==
  /\ ~CallAt(h, "idle")
  /\ CallEnds(h)
  /\ UNCHANGED <<now, token, reset, epoch>>

TokenStep(h) == Login(h) \/ ReadToken(h) \/ Rotate(h) \/ StoreToken(h) \/ Logout(h)

PasswordStep(h) ==
  CheckPassword(h) \/ CheckReset(h) \/ RevokeAll(h) \/ InvalidateResets(h) \/ CreateReset(h)

SessionNext == Tick \/ \E h \in CallHandlers : TokenStep(h) \/ PasswordStep(h) \/ CallFails(h)

SessionSpec == SessionInit /\ [][SessionNext]_sessionVars

------------------------------------------------------------------------------

SessionTypes ==
  /\ now \in Seconds /\ epoch \in 0..MaxEpoch
  /\ token \in [Seconds -> [state : {"absent", "live", "revoked"}, epoch : 0..MaxEpoch,
                            slipped : BOOLEAN, from : 0..MaxTime]]
  /\ reset \in [Resets -> {"absent", "unused", "used"}]
  /\ \A h \in CallHandlers : call[h].pc \in CallLabels

(* Whatever revokes everything ends the sessions: a token that is live     *)
(* belongs to a session authenticated since, however often it has been     *)
(* exchanged, unless a request was handing that session on at that moment. *)
RevokedSessionsEnd ==
  \A t \in Live : token[t].epoch = epoch \/ token[t].slipped

(* A token is exchanged once, but for refreshes of it that overlap: there  *)
(* are never more successors of one token than handlers.                   *)
ExchangedOnce ==
  \A t \in Issued :
    Cardinality({s \in Issued : token[s].from = t}) <= Cardinality(CallHandlers)

(* A token that is revoked is never accepted again, also when the token of *)
(* a later login or refresh in the same second is the same string.         *)
RevokedStaysRevoked ==
  [][\A t \in Seconds : token[t].state = "revoked" => token'[t].state = "revoked"]_sessionVars

(* A new reset token replaces the earlier ones: there are never more       *)
(* unused ones than requests that can overlap.                             *)
NewestResetOnly ==
  Cardinality({n \in Resets : reset[n] = "unused"}) <= Cardinality(CallHandlers)
==============================================================================
