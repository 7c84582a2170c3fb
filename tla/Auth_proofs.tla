----------------------------- MODULE Auth_proofs -----------------------------
(***************************************************************************)
(* Proofs about AuthSessions and about Accounts, for any handlers and any  *)
(* bounds: the tokens of one user, and the accounts, invitations and links *)
(* of all of them.                                                         *)
(***************************************************************************)
EXTENDS AuthSessions, Accounts, FiniteSetTheorems, TLAPS

------------------------------------------------------------------------------
(* The sessions and the reset tokens.                                      *)

Token == [state : {"absent", "live", "revoked"}, epoch : 0..MaxEpoch, slipped : BOOLEAN,
          from : 0..MaxTime]
Call == [pc : CallLabels, on : Nat, epoch : 0..MaxEpoch, slipped : BOOLEAN]

(* SessionTypes, with what a request holds.                                *)
Typed ==
  /\ now \in Seconds /\ epoch \in 0..MaxEpoch
  /\ token \in [Seconds -> Token]
  /\ reset \in [Resets -> {"absent", "unused", "used"}]
  /\ call \in [CallHandlers -> Call]
  /\ \A h \in CallHandlers :
       /\ call[h].pc \in {"refreshing", "signing"} => call[h].on \in 0..MaxTime
       /\ call[h].pc = "resetting" => call[h].on \in Resets

(* A request that is handing a session on either authenticated since       *)
(* everything was last revoked, or knows that it slipped through.          *)
SessionsInHand ==
  \A h \in CallHandlers :
    call[h].pc \in {"refreshing", "signing"} => call[h].epoch = epoch \/ call[h].slipped

SessionInv == Typed /\ SessionsInHand /\ RevokedSessionsEnd

LEMMA SessionInitInv == SessionInit => SessionInv
BY BoundsAssumption
DEF SessionInit, SessionInv, Typed, Token, Call, SessionsInHand, RevokedSessionsEnd, Live, NoToken,
    IdleCall, CallLabels, Seconds, Resets

(* Revoking keeps the types, makes nothing live and takes from no token    *)
(* that it was revoked.                                                    *)
LEMMA RevokedTokens ==
  ASSUME NEW S, token \in [Seconds -> Token]
  PROVE  /\ Revoked(S) \in [Seconds -> Token]
         /\ \A t \in Seconds : /\ Revoked(S)[t].state = "live" =>
                                    Revoked(S)[t] = token[t] /\ t \notin S
                               /\ token[t].state = "revoked" => Revoked(S)[t] = token[t]
<1>1. 0 \in 0..MaxEpoch
  BY BoundsAssumption
<1> QED
  BY <1>1 DEF Revoked, Token, NoToken

(* A step that leaves the request of a handler idle, or replaces it by one *)
(* of these.                                                               *)
LEMMA IdleIsCall ==
  IdleCall \in Call /\ IdleCall.pc = "idle" /\ IdleCall.on \in 0..MaxTime
BY BoundsAssumption DEF IdleCall, Call, CallLabels

LEMMA SessionStepInv == SessionInv /\ [SessionNext]_sessionVars => SessionInv'
<1> SUFFICES ASSUME SessionInv, [SessionNext]_sessionVars PROVE SessionInv'
  OBVIOUS
<1> USE IdleIsCall
<1>0. Typed /\ SessionsInHand /\ RevokedSessionsEnd
  BY DEF SessionInv
<1>1. CASE Tick
  BY <1>0, <1>1, BoundsAssumption
  DEF Tick, SessionInv, Typed, SessionsInHand, RevokedSessionsEnd, Live, Seconds
<1>2. ASSUME NEW h \in CallHandlers, Login(h) PROVE SessionInv'
  <2> DEFINE q == [IdleCall EXCEPT !.pc = "signing", !.epoch = epoch]
  <2>1. call' = [call EXCEPT ![h] = q] /\ UNCHANGED <<now, token, reset, epoch>>
    BY <1>2 DEF Login
  <2>2. q \in Call /\ q.pc = "signing" /\ q.on \in 0..MaxTime /\ q.epoch = epoch
    BY <1>0 DEF Typed, Call, CallLabels
  <2> HIDE DEF q
  <2> QED
    BY <1>0, <2>1, <2>2 DEF SessionInv, Typed, SessionsInHand, RevokedSessionsEnd, Live
<1>3. ASSUME NEW h \in CallHandlers, ReadToken(h) PROVE SessionInv'
  <2>1. PICK t \in Issued :
          call' = [call EXCEPT ![h] =
                    IF t \in Live
                    THEN [pc |-> "refreshing", on |-> t, epoch |-> token[t].epoch,
                          slipped |-> token[t].slipped]
                    ELSE [IdleCall EXCEPT !.pc = "reused"]]
    BY <1>3 DEF ReadToken
  <2>2. /\ UNCHANGED <<now, token, reset, epoch>>
        /\ t \in Seconds /\ t \in Nat /\ t \in 0..MaxTime /\ token[t] \in Token
    BY <1>0, <1>3, BoundsAssumption DEF ReadToken, Issued, Seconds, Typed
  <2> QED
    BY <1>0, <2>1, <2>2, BoundsAssumption
    DEF IdleCall, SessionInv, Typed, Token, Call, CallLabels, SessionsInHand, RevokedSessionsEnd, Live
<1>4. ASSUME NEW h \in CallHandlers, Rotate(h) PROVE SessionInv'
  <2>1. /\ token' = Revoked({call[h].on}) /\ call' = [call EXCEPT ![h].pc = "signing"]
        /\ call[h].pc = "refreshing" /\ UNCHANGED <<now, reset, epoch>>
    BY <1>4 DEF Rotate, CallAt
  <2> QED
    BY <1>0, <2>1, RevokedTokens
    DEF SessionInv, Typed, Call, CallLabels, SessionsInHand, RevokedSessionsEnd, Live
<1>5. ASSUME NEW h \in CallHandlers, StoreToken(h) PROVE SessionInv'
  BY <1>0, <1>5
  DEF StoreToken, CallAt, CallEnds, SessionInv, Typed, Token, Call, CallLabels, SessionsInHand,
      RevokedSessionsEnd, Live, Issued
<1>6. ASSUME NEW h \in CallHandlers, Logout(h) PROVE SessionInv'
  <2>1. PICK t \in Issued : token' = Revoked({t})
    BY <1>6 DEF Logout
  <2>2. UNCHANGED <<now, reset, call, epoch>>
    BY <1>6 DEF Logout
  <2> QED
    BY <1>0, <2>1, <2>2, RevokedTokens DEF SessionInv, Typed, SessionsInHand, RevokedSessionsEnd, Live
<1>7. ASSUME NEW h \in CallHandlers, CheckPassword(h) PROVE SessionInv'
  BY <1>0, <1>7
  DEF CheckPassword, CallAt, SessionInv, Typed, Call, CallLabels, SessionsInHand, RevokedSessionsEnd, Live
<1>8. ASSUME NEW h \in CallHandlers, CheckReset(h) PROVE SessionInv'
  <2>1. PICK n \in Resets : call' = [call EXCEPT ![h].pc = "resetting", ![h].on = n]
    BY <1>8 DEF CheckReset
  <2> DEFINE q == [call[h] EXCEPT !.pc = "resetting", !.on = n]
  <2>2. call' = [call EXCEPT ![h] = q] /\ UNCHANGED <<now, token, reset, epoch>>
    BY <1>0, <1>8, <2>1 DEF CheckReset, Typed
  <2>3. call[h] \in Call /\ n \in Nat
    BY <1>0, BoundsAssumption DEF Typed, Resets
  <2>4. q \in Call /\ q.pc = "resetting" /\ q.on = n
    BY <2>3 DEF Call, CallLabels
  <2> HIDE DEF q
  <2> QED
    BY <1>0, <2>2, <2>4 DEF SessionInv, Typed, SessionsInHand, RevokedSessionsEnd, Live
<1>9. ASSUME NEW h \in CallHandlers, RevokeAll(h) PROVE SessionInv'
  <2>1. /\ token' = Revoked(Live) /\ epoch' = epoch + 1 /\ epoch' \in 0..MaxEpoch /\ now' = now
        /\ reset' = IF CallAt(h, "resetting") THEN [reset EXCEPT ![call[h].on] = "used"] ELSE reset
    BY <1>0, <1>9, BoundsAssumption DEF RevokeAll, Typed
  <2>2. \A g \in CallHandlers :
          call'[g] = IF g = h THEN IdleCall
                    ELSE [call[g] EXCEPT !.slipped = @ \/ call[g].pc \in {"refreshing", "signing"}]
    BY <1>9 DEF RevokeAll, Slip
  <2>3. call' \in [CallHandlers -> Call]
    BY <1>0, <1>9, <2>2 DEF RevokeAll, Slip, Typed, Call
  <2>4. Typed'
    BY <1>0, <2>1, <2>2, <2>3, RevokedTokens DEF Typed, Call, CallAt
  <2>5. SessionsInHand'
    <3> SUFFICES ASSUME NEW g \in CallHandlers, call'[g].pc \in {"refreshing", "signing"}
                 PROVE  call'[g].slipped
      BY DEF SessionsInHand
    <3>1. g # h /\ call[g] \in Call
      BY <1>0, <2>2 DEF Typed
    <3>2. call'[g] = [call[g] EXCEPT !.slipped = @ \/ call[g].pc \in {"refreshing", "signing"}]
      BY <2>2, <3>1
    <3>3. call'[g].pc = call[g].pc
      BY <3>1, <3>2 DEF Call
    <3>4. call'[g].slipped = (call[g].slipped \/ call[g].pc \in {"refreshing", "signing"})
      BY <3>1, <3>2 DEF Call
    <3> QED
      BY <3>3, <3>4
  <2>6. RevokedSessionsEnd'
    BY <1>0, <2>1, RevokedTokens DEF RevokedSessionsEnd, Live, Typed
  <2> QED
    BY <2>4, <2>5, <2>6 DEF SessionInv
<1>10. ASSUME NEW h \in CallHandlers, InvalidateResets(h) \/ CreateReset(h) PROVE SessionInv'
  <2>1. call'[h].pc \in {"invalidated", "idle"} /\ call' \in [CallHandlers -> Call]
    BY <1>0, <1>10 DEF InvalidateResets, CreateReset, CallEnds, Typed, Call, CallLabels
  <2>2. /\ \A g \in CallHandlers \ {h} : call'[g] = call[g]
        /\ UNCHANGED <<now, token, epoch>>
    BY <1>0, <1>10 DEF InvalidateResets, CreateReset, CallEnds, Typed
  <2>3. reset' \in [Resets -> {"absent", "unused", "used"}]
    BY <1>0, <1>10 DEF InvalidateResets, CreateReset, Typed
  <2> QED
    BY <1>0, <2>1, <2>2, <2>3 DEF SessionInv, Typed, SessionsInHand, RevokedSessionsEnd, Live
<1>11. ASSUME NEW h \in CallHandlers, CallFails(h) PROVE SessionInv'
  BY <1>0, <1>11 DEF CallFails, CallEnds, SessionInv, Typed, SessionsInHand, RevokedSessionsEnd, Live
<1>12. CASE UNCHANGED sessionVars
  BY <1>0, <1>12 DEF sessionVars, SessionInv, Typed, SessionsInHand, RevokedSessionsEnd, Live
<1> QED
  BY <1>1, <1>2, <1>3, <1>4, <1>5, <1>6, <1>7, <1>8, <1>9, <1>10, <1>11, <1>12
  DEF SessionNext, TokenStep, PasswordStep

LEMMA SessionInvHolds == SessionSpec => []SessionInv
BY SessionInitInv, SessionStepInv, PTL DEF SessionSpec

(* The tables hold the values the code writes, at all times.               *)
THEOREM SessionTypesHold == SessionSpec => []SessionTypes
<1>1. SessionInv => SessionTypes
  BY DEF SessionInv, Typed, Token, Call, SessionTypes
<1> QED
  BY <1>1, SessionInvHolds, PTL

(* A change of password, a reset or a reuse ends every session that is not *)
(* being handed on at that moment, however long the chain of refreshes.    *)
THEOREM RevokedSessionsEndAlways == SessionSpec => []RevokedSessionsEnd
<1>1. SessionInv => RevokedSessionsEnd
  BY DEF SessionInv
<1> QED
  BY <1>1, SessionInvHolds, PTL

(* A revoked token is never live again, also when the token of the same    *)
(* second is the same string.                                              *)
THEOREM RevokedStaysRevokedAlways == SessionSpec => RevokedStaysRevoked
<1> DEFINE Kept == \A t \in Seconds : token[t].state = "revoked" => token'[t].state = "revoked"
<1>1. SessionInv /\ [SessionNext]_sessionVars => Kept
  <2> SUFFICES ASSUME SessionInv, [SessionNext]_sessionVars PROVE Kept
    OBVIOUS
  <2>0. token \in [Seconds -> Token]
    BY DEF SessionInv, Typed
  <2>1. CASE token' = token
    BY <2>1
  <2>2. ASSUME NEW S, token' = Revoked(S) PROVE Kept
    BY <2>0, <2>2, RevokedTokens
  <2>3. ASSUME NEW h \in CallHandlers, StoreToken(h) PROVE Kept
    BY <2>0, <2>3 DEF StoreToken, Issued
  <2> QED
    BY <2>1, <2>2, <2>3
    DEF SessionNext, sessionVars, TokenStep, PasswordStep, Tick, Login, ReadToken, Rotate, Logout,
          CheckPassword,
        CheckReset, RevokeAll, InvalidateResets, CreateReset, CallFails
<1>2. SessionInv /\ [SessionNext]_sessionVars => [Kept]_sessionVars
  BY <1>1
<1> QED
  BY <1>2, SessionInvHolds, PTL DEF SessionSpec, RevokedStaysRevoked

------------------------------------------------------------------------------

(* What bounds the unused resets: a request that has invalidated them will *)
(* make one more, and it is counted with those there are.                  *)
Unused == {n \in Resets : reset[n] = "unused"}
Replacing == {h \in CallHandlers : CallAt(h, "invalidated")}
ResetsBounded == Cardinality(Unused) + Cardinality(Replacing) <= Cardinality(CallHandlers)

(* What bounds the successors of a token: the requests that exchange it    *)
(* are counted with those there are; nobody joins them once it is revoked, *)
(* and before there are no successors.                                     *)
Successors(t) == {s \in Issued : token[s].from = t}
Exchanging(t) == {h \in CallHandlers : call[h].pc \in {"refreshing", "signing"} /\ call[h].on = t}
ExchangeBounded(t) ==
  /\ token[t].state # "revoked" => Successors(t) = {}
  /\ \A h \in Exchanging(t) : token[t].state # "absent" /\ (CallAt(h, "signing") => token[t].state = "revoked")
  /\ Cardinality(Successors(t)) + Cardinality(Exchanging(t)) <= Cardinality(CallHandlers)

Counted == ResetsBounded /\ \A t \in Seconds : ExchangeBounded(t)

LEMMA Finite ==
  /\ IsFiniteSet(Unused) /\ IsFiniteSet(Replacing)
  /\ \A t \in Seconds : IsFiniteSet(Successors(t)) /\ IsFiniteSet(Exchanging(t))
<1>1. IsFiniteSet(Resets) /\ IsFiniteSet(Seconds)
  BY BoundsAssumption, FS_Interval DEF Resets, Seconds
<1>2. Unused \subseteq Resets /\ Replacing \subseteq CallHandlers
  BY DEF Unused, Replacing
<1>3. \A t \in Seconds : Successors(t) \subseteq Seconds /\ Exchanging(t) \subseteq CallHandlers
  BY DEF Successors, Exchanging, Issued
<1> QED
  BY <1>1, <1>2, <1>3, CallHandlersAssumption, FS_Subset

(* Two sets that are counted together, of which one may lose elements, or  *)
(* hand one over to the other.                                             *)
LEMMA Smaller ==
  ASSUME NEW A, NEW B, NEW A1, NEW B1, NEW n \in Nat, IsFiniteSet(A), IsFiniteSet(B),
         Cardinality(A) + Cardinality(B) <= n, A1 \subseteq A, B1 \subseteq B
  PROVE  Cardinality(A1) + Cardinality(B1) <= n
<1>1. /\ Cardinality(A1) \in Nat /\ Cardinality(A) \in Nat /\ Cardinality(A1) <= Cardinality(A)
      /\ Cardinality(B1) \in Nat /\ Cardinality(B) \in Nat /\ Cardinality(B1) <= Cardinality(B)
  BY FS_Subset, FS_CardinalityType
<1> QED
  BY <1>1

LEMMA HandedOver ==
  ASSUME NEW A, NEW B, NEW n \in Nat, IsFiniteSet(A), IsFiniteSet(B),
         Cardinality(A) + Cardinality(B) <= n, NEW x, NEW y \in B
  PROVE  Cardinality(A \cup {x}) + Cardinality(B \ {y}) <= n
<1>1. Cardinality(A) \in Nat /\ Cardinality(B) \in Nat
  BY FS_CardinalityType
<1>2. Cardinality(A \cup {x}) = Cardinality(A) \/ Cardinality(A \cup {x}) = Cardinality(A) + 1
  BY FS_AddElement
<1>3. Cardinality(B \ {y}) = Cardinality(B) - 1
  BY FS_RemoveElement
<1> QED
  BY <1>1, <1>2, <1>3

LEMMA AloneIsSmall ==
  ASSUME NEW B, NEW H, IsFiniteSet(H), B \subseteq H
  PROVE  Cardinality({}) + Cardinality(B) <= Cardinality(H)
<1>1. Cardinality(B) \in Nat /\ Cardinality(H) \in Nat /\ Cardinality(B) <= Cardinality(H)
  BY FS_Subset, FS_CardinalityType
<1>2. Cardinality({}) = 0
  BY FS_EmptySet
<1> QED
  BY <1>1, <1>2

LEMMA InitCounted == SessionInit => Counted
<1> SUFFICES ASSUME SessionInit PROVE Counted
  OBVIOUS
<1>1. Unused = {} /\ Replacing = {}
  BY DEF SessionInit, Unused, Replacing, CallAt, IdleCall
<1>2. \A t \in Seconds : Successors(t) = {} /\ Exchanging(t) = {}
  BY DEF SessionInit, Successors, Exchanging, Issued, IdleCall, NoToken
<1>3. Cardinality({}) + Cardinality({}) <= Cardinality(CallHandlers)
  BY CallHandlersAssumption, AloneIsSmall
<1> QED
  BY <1>1, <1>2, <1>3 DEF Counted, ResetsBounded, ExchangeBounded

(* The resets: InvalidateResets leaves none, CreateReset hands over one.   *)
LEMMA ResetsStep == SessionInv /\ ResetsBounded /\ [SessionNext]_sessionVars => ResetsBounded'
<1> SUFFICES ASSUME SessionInv, ResetsBounded, [SessionNext]_sessionVars PROVE ResetsBounded'
  OBVIOUS
<1>0. Typed
  BY DEF SessionInv
<1>1. Cardinality(CallHandlers) \in Nat
  BY CallHandlersAssumption, FS_CardinalityType
<1>2. ASSUME Unused' \subseteq Unused, Replacing' \subseteq Replacing PROVE ResetsBounded'
  BY <1>1, <1>2, Finite, Smaller DEF ResetsBounded
<1>3. ASSUME NEW h \in CallHandlers, InvalidateResets(h) PROVE ResetsBounded'
  <2>1. Unused' = {} /\ Replacing' \subseteq CallHandlers
    BY <1>3 DEF InvalidateResets, Unused, Replacing
  <2> QED
    BY <2>1, CallHandlersAssumption, AloneIsSmall DEF ResetsBounded
<1>4. ASSUME NEW h \in CallHandlers, CreateReset(h) PROVE ResetsBounded'
  <2>1. PICK n \in Resets : reset' = [reset EXCEPT ![n] = "unused"]
    BY <1>4 DEF CreateReset
  <2>2. CallAt(h, "invalidated") /\ call' = [call EXCEPT ![h] = IdleCall]
    BY <1>4 DEF CreateReset, CallEnds
  <2>3. h \in Replacing
    BY <2>2 DEF Replacing
  <2>4. Unused' \subseteq Unused \cup {n}
    BY <1>0, <2>1 DEF Unused, Typed
  <2>5. Replacing' \subseteq Replacing \ {h}
    BY <1>0, <2>2 DEF Replacing, CallAt, Typed, IdleCall
  <2>6. Cardinality(Unused \cup {n}) + Cardinality(Replacing \ {h}) <= Cardinality(CallHandlers)
    BY <1>1, <2>3, Finite, HandedOver DEF ResetsBounded
  <2>7. IsFiniteSet(Unused \cup {n}) /\ IsFiniteSet(Replacing \ {h})
    BY Finite, FS_AddElement, FS_RemoveElement
  <2> QED
    BY <1>1, <2>4, <2>5, <2>6, <2>7, Smaller DEF ResetsBounded
<1>5. ASSUME NEW h \in CallHandlers, RevokeAll(h) PROVE ResetsBounded'
  <2>1. Unused' \subseteq Unused
    BY <1>0, <1>5 DEF RevokeAll, Unused, Typed
  <2>2. Replacing' \subseteq Replacing
    <3> SUFFICES ASSUME NEW g \in CallHandlers, call'[g].pc = "invalidated" PROVE call[g].pc = "invalidated"
      BY DEF Replacing, CallAt
    <3>1. call'[g] = IF g = h THEN IdleCall
                    ELSE [call[g] EXCEPT !.slipped = @ \/ call[g].pc \in {"refreshing", "signing"}]
      BY <1>5 DEF RevokeAll, Slip
    <3> QED
      BY <1>0, <3>1 DEF IdleCall, Typed, Call
  <2> QED
    BY <1>2, <2>1, <2>2
<1>6. ASSUME UNCHANGED reset,
             \A g \in CallHandlers : call'[g].pc = call[g].pc \/ call'[g].pc # "invalidated"
      PROVE  ResetsBounded'
  BY <1>2, <1>6 DEF Unused, Replacing, CallAt
<1> QED
  <2>1. CASE Tick \/ UNCHANGED sessionVars
    BY <1>6, <2>1 DEF Tick, sessionVars
  <2>2. ASSUME NEW h \in CallHandlers, TokenStep(h) \/ CheckPassword(h) \/ CheckReset(h) \/ CallFails(h)
        PROVE  ResetsBounded'
    <3>1. UNCHANGED reset
      BY <2>2 DEF TokenStep, Login, ReadToken, Rotate, StoreToken, Logout, CheckPassword, CheckReset, CallFails
    <3>2. CASE Login(h) \/ ReadToken(h)
      <4>1. /\ call'[h].pc # "invalidated"
            /\ \A g \in CallHandlers \ {h} : call'[g] = call[g]
        <5>1. CASE Login(h)
          BY <1>0, <5>1 DEF Login, IdleCall, Typed
        <5>2. CASE ReadToken(h)
          <6>1. PICK t \in Issued :
                  call' = [call EXCEPT ![h] =
                            IF t \in Live
                            THEN [pc |-> "refreshing", on |-> t, epoch |-> token[t].epoch,
                                  slipped |-> token[t].slipped]
                            ELSE [IdleCall EXCEPT !.pc = "reused"]]
            BY <5>2 DEF ReadToken
          <6> QED
            BY <1>0, <6>1 DEF IdleCall, Typed
        <5> QED
          BY <3>2, <5>1, <5>2
      <4> QED
        BY <1>6, <3>1, <4>1
    <3>3. CASE Rotate(h) \/ CheckPassword(h) \/ Logout(h)
      BY <1>0, <1>6, <3>1, <3>3 DEF Rotate, CheckPassword, Logout, Typed, Call
    <3>5. CASE CheckReset(h)
      <4>1. PICK n \in Resets : call' = [call EXCEPT ![h].pc = "resetting", ![h].on = n]
        BY <3>5 DEF CheckReset
      <4> QED
        BY <1>0, <1>6, <3>1, <4>1 DEF Typed, Call
    <3>4. CASE StoreToken(h) \/ CallFails(h)
      BY <1>0, <1>6, <3>1, <3>4 DEF StoreToken, CallFails, CallEnds, IdleCall, Typed, Call
    <3> QED
      BY <2>2, <3>2, <3>3, <3>4, <3>5 DEF TokenStep
  <2> QED
    BY <1>3, <1>4, <1>5, <2>1, <2>2 DEF SessionNext, PasswordStep

(* Revoking takes a token neither its row nor what it was exchanged for.   *)
LEMMA RevokedKeeps ==
  ASSUME NEW S, token \in [Seconds -> Token], NEW t \in Seconds
  PROVE  /\ Revoked(S)[t].state = "absent" <=> token[t].state = "absent"
         /\ Revoked(S)[t].from = token[t].from
         /\ token[t].state = "revoked" => Revoked(S)[t].state = "revoked"
         /\ t \in S /\ token[t].state # "absent" => Revoked(S)[t].state = "revoked"
BY DEF Revoked, Token, NoToken

(* The exchanges of token t: ReadToken adds one while it has no successor, *)
(* StoreToken hands one over.                                              *)
LEMMA ExchangeStep ==
  ASSUME SessionInv, NEW t \in Seconds, ExchangeBounded(t), [SessionNext]_sessionVars
  PROVE  ExchangeBounded(t)'
<1>0. Typed
  BY DEF SessionInv
<1>1. Cardinality(CallHandlers) \in Nat
  BY CallHandlersAssumption, FS_CardinalityType
<1>2. ASSUME Successors(t)' \subseteq Successors(t), Exchanging(t)' \subseteq Exchanging(t),
             token[t].state # "absent" => token'[t].state # "absent",
             token[t].state = "revoked" => token'[t].state = "revoked" \/ Successors(t)' = {},
             token'[t].state # "revoked" => token[t].state # "revoked" \/ Successors(t)' = {},
             \A g \in Exchanging(t)' : call'[g].pc = "signing" => token'[t].state = "revoked"
      PROVE  ExchangeBounded(t)'
  BY <1>1, <1>2, Finite, Smaller DEF ExchangeBounded, CallAt
(* Steps that change no token but may revoke some, and let nobody join.    *)
<1>3. ASSUME NEW S, token' = token \/ token' = Revoked(S), Exchanging(t)' \subseteq Exchanging(t),
             \A g \in Exchanging(t)' : call'[g].pc = call[g].pc \/ token'[t].state = "revoked"
      PROVE  ExchangeBounded(t)'
  <2>1. \A s \in Seconds : /\ token'[s].state = "absent" <=> token[s].state = "absent"
                           /\ token'[s].from = token[s].from
                           /\ token[s].state = "revoked" => token'[s].state = "revoked"
    BY <1>0, <1>3, RevokedKeeps DEF Typed
  <2>2. Successors(t)' = Successors(t)
    BY <2>1 DEF Successors, Issued
  <2> QED
    BY <1>2, <1>3, <2>1, <2>2 DEF ExchangeBounded, CallAt
<1>4. CASE Tick \/ UNCHANGED sessionVars
  BY <1>3, <1>4 DEF Tick, sessionVars, Exchanging
<1>5. ASSUME NEW h \in CallHandlers, \A g \in CallHandlers \ {h} : call'[g] = call[g],
             call'[h].pc \notin {"refreshing", "signing"} \/ call'[h].on # t
      PROVE  /\ Exchanging(t)' \subseteq Exchanging(t) \ {h}
             /\ \A g \in Exchanging(t)' : call'[g].pc = call[g].pc
  BY <1>0, <1>5 DEF Exchanging, Typed
<1>6. ASSUME NEW h \in CallHandlers, Login(h) PROVE ExchangeBounded(t)'
  <2>1. (\A g \in CallHandlers \ {h} : call'[g] = call[g]) /\ call'[h].on = 0 /\ token' = token
    BY <1>0, <1>6 DEF Login, IdleCall, Typed
  <2>2. t # 0
    BY BoundsAssumption DEF Seconds
  <2> QED
    BY <1>3, <1>5, <2>1, <2>2
<1>7. ASSUME NEW h \in CallHandlers, ReadToken(h) PROVE ExchangeBounded(t)'
  <2>1. PICK s \in Issued :
          call' = [call EXCEPT ![h] =
                    IF s \in Live
                    THEN [pc |-> "refreshing", on |-> s, epoch |-> token[s].epoch,
                          slipped |-> token[s].slipped]
                    ELSE [IdleCall EXCEPT !.pc = "reused"]]
    BY <1>7 DEF ReadToken
  <2>2. token' = token /\ \A g \in CallHandlers \ {h} : call'[g] = call[g]
    BY <1>0, <1>7, <2>1 DEF ReadToken, Typed
  <2>3. CASE s \in Live /\ s = t
    <3>1. token[t].state = "live" /\ Successors(t) = {}
      BY <2>3 DEF Live, ExchangeBounded
    <3>2. Successors(t)' = {} /\ token'[t] = token[t] /\ Exchanging(t)' \subseteq CallHandlers
      BY <2>2, <3>1 DEF Successors, Issued, Exchanging
    <3>3. \A g \in Exchanging(t)' : call'[g].pc # "signing"
      BY <1>0, <2>1, <2>2, <2>3, <3>1 DEF Exchanging, ExchangeBounded, CallAt, Typed
    <3> QED
      BY <3>1, <3>2, <3>3, CallHandlersAssumption, AloneIsSmall DEF ExchangeBounded, CallAt
  <2>4. CASE ~(s \in Live /\ s = t)
    <3>1. call'[h].pc \notin {"refreshing", "signing"} \/ call'[h].on # t
      BY <1>0, <2>1, <2>4 DEF IdleCall, Typed
    <3> QED
      BY <1>3, <1>5, <2>2, <3>1
  <2> QED
    BY <2>3, <2>4
<1>8. ASSUME NEW h \in CallHandlers, Rotate(h) PROVE ExchangeBounded(t)'
  <2>1. /\ call[h].pc = "refreshing" /\ token' = Revoked({call[h].on})
        /\ call' = [call EXCEPT ![h].pc = "signing"]
    BY <1>8 DEF Rotate, CallAt
  <2>2. call'[h].on = call[h].on /\ \A g \in CallHandlers \ {h} : call'[g] = call[g]
    BY <1>0, <2>1 DEF Typed, Call
  <2>3. Exchanging(t)' \subseteq Exchanging(t)
    BY <2>1, <2>2 DEF Exchanging
  <2>4. h \in Exchanging(t)' => token'[t].state = "revoked"
    <3>1. h \in Exchanging(t)' => call[h].on = t /\ token[t].state # "absent"
      BY <2>2, <2>3 DEF Exchanging, ExchangeBounded
    <3> QED
      BY <1>0, <2>1, <3>1, RevokedKeeps DEF Typed
  <2> QED
    BY <1>3, <2>1, <2>2, <2>3, <2>4
<1>9. ASSUME NEW h \in CallHandlers, StoreToken(h) PROVE ExchangeBounded(t)'
  <2>1. /\ call[h].pc = "signing" /\ call' = [call EXCEPT ![h] = IdleCall]
        /\ token' = IF now \in Issued THEN token
                    ELSE [token EXCEPT ![now] =
                            [state |-> "live", epoch |-> call[h].epoch,
                             slipped |-> call[h].slipped, from |-> call[h].on]]
    BY <1>9 DEF StoreToken, CallAt, CallEnds
  <2>2. (\A g \in CallHandlers \ {h} : call'[g] = call[g]) /\ call'[h].pc = "idle"
    BY <1>0, <2>1 DEF Typed, IdleCall
  <2>3. /\ Exchanging(t)' \subseteq Exchanging(t) \ {h}
        /\ \A g \in Exchanging(t)' : call'[g].pc = call[g].pc
    BY <1>5, <2>2
  <2>4. CASE now \in Issued
    BY <1>3, <2>1, <2>3, <2>4
  <2>5. CASE now \notin Issued
    <3>1. /\ token'[now].state = "live" /\ token'[now].from = call[h].on /\ token[now].state = "absent"
          /\ \A s \in Seconds \ {now} : token'[s] = token[s]
      BY <1>0, <2>1, <2>5 DEF Typed, Issued
    <3>2. Successors(t)' \subseteq Successors(t) \cup {now}
      BY <3>1 DEF Successors, Issued
    <3>3. call[h].on # t => Successors(t)' \subseteq Successors(t)
      BY <3>1 DEF Successors, Issued
    <3>4. call[h].on = t => h \in Exchanging(t) /\ token[t].state = "revoked"
      BY <2>1 DEF Exchanging, ExchangeBounded, CallAt
    <3>5. CASE call[h].on = t
      <4>1. t # now /\ token'[t] = token[t] /\ token[t].state = "revoked"
        BY <3>1, <3>4, <3>5
      <4>2. Cardinality(Successors(t) \cup {now}) + Cardinality(Exchanging(t) \ {h})
              <= Cardinality(CallHandlers)
        BY <1>1, <3>4, <3>5, Finite, HandedOver DEF ExchangeBounded
      <4>3. IsFiniteSet(Successors(t) \cup {now}) /\ IsFiniteSet(Exchanging(t) \ {h})
        BY Finite, FS_AddElement, FS_RemoveElement
      <4>4. Cardinality(Successors(t)') + Cardinality(Exchanging(t)') <= Cardinality(CallHandlers)
        BY <1>1, <2>3, <3>2, <4>2, <4>3, Smaller
      <4> QED
        BY <4>1, <4>4 DEF ExchangeBounded
    <3>6. CASE call[h].on # t
      <4>1. t = now => Successors(t)' = {} /\ Exchanging(t)' = {}
        BY <2>3, <3>1, <3>3, <3>6 DEF ExchangeBounded
      <4>2. t # now => token'[t] = token[t]
        BY <3>1
      <4> QED
        BY <1>2, <2>3, <3>1, <3>3, <3>6, <4>1, <4>2 DEF ExchangeBounded, CallAt
    <3> QED
      BY <3>5, <3>6
  <2> QED
    BY <2>4, <2>5
<1>10. ASSUME NEW h \in CallHandlers, RevokeAll(h) PROVE ExchangeBounded(t)'
  <2>1. \A g \in CallHandlers :
          call'[g] = IF g = h THEN IdleCall
                    ELSE [call[g] EXCEPT !.slipped = @ \/ call[g].pc \in {"refreshing", "signing"}]
    BY <1>10 DEF RevokeAll, Slip
  <2>2. call'[h] = IdleCall /\ call'[h].pc = "idle"
    <3>1. call'[h] = IdleCall
      BY <2>1
    <3> QED
      BY <3>1 DEF IdleCall
  <2>3. \A g \in CallHandlers \ {h} : call'[g].pc = call[g].pc /\ call'[g].on = call[g].on
    BY <1>0, <2>1 DEF Typed, Call
  <2>4. Exchanging(t)' \subseteq Exchanging(t) /\ \A g \in Exchanging(t)' : call'[g].pc = call[g].pc
    BY <2>2, <2>3 DEF Exchanging
  <2>5. token' = Revoked(Live)
    BY <1>10 DEF RevokeAll
  <2> QED
    BY <1>3, <2>4, <2>5
<1>11. ASSUME NEW h \in CallHandlers, CheckReset(h) PROVE ExchangeBounded(t)'
  <2>1. PICK n \in Resets : call' = [call EXCEPT ![h].pc = "resetting", ![h].on = n]
    BY <1>11 DEF CheckReset
  <2>2. (\A g \in CallHandlers \ {h} : call'[g] = call[g]) /\ call'[h].pc = "resetting" /\ token' = token
    BY <1>0, <1>11, <2>1 DEF CheckReset, Typed, Call
  <2> QED
    BY <1>3, <1>5, <2>2
<1>12. ASSUME NEW h \in CallHandlers, Logout(h) PROVE ExchangeBounded(t)'
  BY <1>3, <1>12 DEF Logout, Exchanging
<1>13. ASSUME NEW h \in CallHandlers,
              CheckPassword(h) \/ InvalidateResets(h) \/ CreateReset(h) \/ CallFails(h)
       PROVE  ExchangeBounded(t)'
  <2>1. /\ \A g \in CallHandlers \ {h} : call'[g] = call[g]
        /\ call'[h].pc \in {"changing", "invalidated", "idle"} /\ token' = token
    BY <1>0, <1>13
    DEF CheckPassword, InvalidateResets, CreateReset, CallFails, CallEnds, IdleCall, Typed, Call
  <2> QED
    BY <1>3, <1>5, <2>1
<1> QED
  BY <1>4, <1>6, <1>7, <1>8, <1>9, <1>10, <1>11, <1>12, <1>13 DEF SessionNext, TokenStep, PasswordStep

LEMMA CountedHolds == SessionSpec => []Counted
<1>1. SessionInv /\ Counted /\ [SessionNext]_sessionVars => Counted'
  BY ResetsStep, ExchangeStep DEF Counted
<1> QED
  BY <1>1, InitCounted, SessionInvHolds, PTL DEF SessionSpec

(* However many resets are asked for, no more of them can be used than     *)
(* requests for one overlap.                                               *)
THEOREM NewestResetOnlyAlways == SessionSpec => []NewestResetOnly
<1>1. ResetsBounded => NewestResetOnly
  BY Finite, CallHandlersAssumption, FS_CardinalityType DEF ResetsBounded, NewestResetOnly, Unused
<1> QED
  BY <1>1, CountedHolds, PTL DEF Counted

(* However long a session is handed on, a token is exchanged by overlapping*)
(* refreshes only.                                                         *)
THEOREM ExchangedOnceAlways == SessionSpec => []ExchangedOnce
<1>1. (\A t \in Seconds : ExchangeBounded(t)) => ExchangedOnce
  <2> SUFFICES ASSUME \A t \in Seconds : ExchangeBounded(t), NEW t \in Issued
               PROVE  Cardinality(Successors(t)) <= Cardinality(CallHandlers)
    BY DEF ExchangedOnce, Successors
  <2>1. t \in Seconds /\ Cardinality(CallHandlers) \in Nat
    BY CallHandlersAssumption, FS_CardinalityType DEF Issued
  <2> QED
    BY <2>1, Finite, FS_CardinalityType DEF ExchangeBounded
<1> QED
  BY <1>1, CountedHolds, PTL DEF Counted

------------------------------------------------------------------------------
(* The accounts.                                                           *)

Labels ==
  {"idle", "registering", "linking", "resending", "confirming", "inviting", "checked", "accepting",
   "joining", "creating", "unlocked", "opening", "locking", "clearing"}

Request ==
  [pc : Labels, email : Emails \cup {"none"}, company : Companies \cup {"none"}, on : Nat,
   known : SUBSET Invitations]

(* Of the invitations inv, k was created, and does not stand in the way of *)
(* another one of e by c: it never will again.                             *)
NoRival(inv, k, e, c) ==
  /\ inv[k].state # "absent"
  /\ ~(inv[k].state = "pending" /\ inv[k].email = e /\ inv[k].company = c)

(* What request r holds is about something in the invitations inv and the  *)
(* links lk.                                                               *)
RequestOK(r, inv, lk) ==
  /\ r.pc \notin {"idle", "confirming"} => r.email \in Emails
  /\ r.pc \in {"inviting", "checked", "accepting", "joining", "creating"} => r.company \in Companies
  /\ r.pc = "confirming" => r.on \in Links /\ lk[r.on].state # "absent"
  /\ r.pc \in {"accepting", "joining"} =>
       /\ r.on \in Invitations /\ inv[r.on].state # "absent"
       /\ inv[r.on].email = r.email /\ inv[r.on].company = r.company
  /\ r.pc = "checked" => \A k \in r.known : NoRival(inv, k, r.email, r.company)

InvitationsOK(inv) ==
  \A i \in Invitations :
    inv[i].state # "absent" =>
      /\ inv[i].email \in Emails /\ inv[i].company \in Companies
      /\ \A k \in inv[i].known : NoRival(inv, k, inv[i].email, inv[i].company)

(* Who came by an invitation, and which are used.                          *)
MembersOK(members, inv) ==
  /\ \A i \in Invitations :
       inv[i].state = "used" => members[inv[i].email].via = i
  /\ \A e \in Emails : \A i \in Invitations :
       members[e].via = i =>
         /\ inv[i].state = "used" /\ inv[i].email = e
         /\ members[e].company = inv[i].company /\ members[e].verified

LinksOK(lk) == \A v \in Links : lk[v].state # "absent" => lk[v].email \in Emails

Types == TypeOK /\ req \in [Handlers -> Request]

Sound ==
  /\ MembersOK(user, invite) /\ InvitationsOK(invite) /\ LinksOK(link)

IInv ==
  /\ Types /\ Sound
  /\ \A h \in Handlers : RequestOK(req[h], invite, link)

LEMMA IdleIsOK ==
  /\ Idle \in Request /\ Idle.pc = "idle"
  /\ \A inv, lk : RequestOK(Idle, inv, lk)
BY DEF Idle, Request, Labels, RequestOK

LEMMA InitInv == Init => IInv
<1> SUFFICES ASSUME Init PROVE IInv
  OBVIOUS
<1>1. TypeOK
  BY ConstantsAssumption
  DEF Init, TypeOK, NoUser, NoInvitation, NoLink, NoCounter, ByAdmin, ByRegistration
<1>2. req \in [Handlers -> Request] /\ \A h \in Handlers : RequestOK(req[h], invite, link)
  BY IdleIsOK DEF Init
<1>3. MembersOK(user, invite)
  BY ConstantsAssumption DEF Init, MembersOK, NoUser, NoInvitation, Invitations
<1>4. InvitationsOK(invite) /\ LinksOK(link)
  BY DEF Init, InvitationsOK, LinksOK, NoInvitation, NoLink
<1> QED
  BY <1>1, <1>2, <1>3, <1>4 DEF IInv, Types, Sound

(* How invitations inv and links lk may change while requests hold them.   *)
Goes(inv, next, lk, newLinks) ==
  /\ \A i \in Invitations :
       inv[i].state # "absent" =>
         /\ next[i].state # "absent"
         /\ next[i].email = inv[i].email /\ next[i].company = inv[i].company
         /\ next[i].state = "pending" => inv[i].state = "pending"
  /\ \A v \in Links : lk[v].state # "absent" => newLinks[v].state # "absent"

(* A request that is OK stays so.                                          *)
LEMMA RequestStays ==
  ASSUME NEW inv, NEW next, NEW lk, NEW newLinks, Goes(inv, next, lk, newLinks),
         NEW r \in Request, RequestOK(r, inv, lk)
  PROVE  RequestOK(r, next, newLinks)
<1>1. \A k \in r.known : NoRival(inv, k, r.email, r.company) => NoRival(next, k, r.email, r.company)
  BY DEF NoRival, Goes, Request
<1> QED
  BY <1>1 DEF RequestOK, Goes

(* A step of handler h, which has the request q after it.                  *)
LEMMA HandlerStep ==
  ASSUME IInv, Goes(invite, invite', link, link'), TypeOK', Sound', NEW h \in Handlers,
         NEW q \in Request, req' = [req EXCEPT ![h] = q], RequestOK(q, invite', link')
  PROVE  IInv'
<1>1. req' \in [Handlers -> Request] /\ req'[h] = q /\ \A g \in Handlers \ {h} : req'[g] = req[g]
  BY DEF IInv, Types
<1>2. ASSUME NEW g \in Handlers PROVE RequestOK(req'[g], invite', link')
  <2>1. req[g] \in Request /\ RequestOK(req[g], invite, link)
    BY DEF IInv, Types
  <2>2. RequestOK(req[g], invite', link')
    BY <2>1, RequestStays
  <2> QED
    BY <1>1, <2>2
<1> QED
  BY <1>1, <1>2 DEF IInv, Types

(* A step that only takes a request further, and may count in Redis.       *)
LEMMA RequestStep ==
  ASSUME IInv, UNCHANGED <<accounts, invite, link>>, NEW h \in Handlers, NEW q \in Request,
         req' = [req EXCEPT ![h] = q], RequestOK(q, invite, link),
         counter' \in [Emails -> [attempts : Nat, expires : BOOLEAN, locked : BOOLEAN]]
  PROVE  IInv'
<1>1. Goes(invite, invite', link, link')
  BY DEF Goes
<1>2. TypeOK' /\ Sound'
  BY DEF IInv, Types, TypeOK, Sound, accounts
<1> QED
  BY <1>1, <1>2, HandlerStep

(* Of the request only its place changes.                                  *)
LEMMA MovedRequest ==
  ASSUME NEW r \in Request, NEW label \in Labels
  PROVE  LET q == [r EXCEPT !.pc = label]
         IN  /\ q \in Request /\ q.pc = label /\ q.email = r.email /\ q.company = r.company
             /\ q.on = r.on /\ q.known = r.known
BY DEF Request

(* The starts of requests that look at users.                              *)
LEMMA StartKeeps ==
  ASSUME IInv, NEW h \in Handlers,
         CheckEmail(h) \/ FindUnverified(h) \/ CheckInvitee(h) \/ CheckNewUser(h) \/ CheckLock(h)
  PROVE  IInv'
<1>1. counter \in [Emails -> [attempts : Nat, expires : BOOLEAN, locked : BOOLEAN]]
      /\ companies \subseteq Companies
  BY DEF IInv, Types, TypeOK
<1>2. PICK q \in Request :
        /\ req' = [req EXCEPT ![h] = q] /\ q.email \in Emails
        /\ q.pc \in {"registering", "resending", "unlocked", "inviting", "creating"}
        /\ q.pc \in {"inviting", "creating"} => q.company \in Companies
        /\ UNCHANGED <<accounts, invite, link, counter>>
  <2>1. CASE CheckEmail(h) \/ FindUnverified(h) \/ CheckLock(h)
    <3>1. PICK e \in Emails, label \in {"registering", "resending", "unlocked"} :
            /\ req' = [req EXCEPT ![h] = [Idle EXCEPT !.pc = label, !.email = e]]
            /\ UNCHANGED <<accounts, invite, link, counter>>
      BY <2>1 DEF CheckEmail, FindUnverified, CheckLock
    <3> DEFINE q == [Idle EXCEPT !.pc = label, !.email = e]
    <3>2. q \in Request /\ q.pc = label /\ q.email = e
      BY DEF Idle, Request, Labels
    <3> HIDE DEF q
    <3>3. req' = [req EXCEPT ![h] = q]
      BY <3>1 DEF q
    <3> QED
      BY <3>1, <3>2, <3>3
  <2>2. CASE CheckInvitee(h) \/ CheckNewUser(h)
    <3>1. PICK e \in Emails, c \in Companies, label \in {"inviting", "creating"} :
            /\ req' = [req EXCEPT ![h] = [Idle EXCEPT !.pc = label, !.email = e, !.company = c]]
            /\ UNCHANGED <<accounts, invite, link, counter>>
      BY <1>1, <2>2 DEF CheckInvitee, CheckNewUser
    <3> DEFINE q == [Idle EXCEPT !.pc = label, !.email = e, !.company = c]
    <3>2. q \in Request /\ q.pc = label /\ q.email = e /\ q.company = c
      BY DEF Idle, Request, Labels
    <3> HIDE DEF q
    <3>3. req' = [req EXCEPT ![h] = q]
      BY <3>1 DEF q
    <3> QED
      BY <3>1, <3>2, <3>3
  <2> QED
    BY <2>1, <2>2
<1>3. RequestOK(q, invite, link)
  BY <1>2 DEF RequestOK
<1> QED
  BY <1>1, <1>2, <1>3, RequestStep

LEMMA FindLinkKeeps == ASSUME IInv, NEW h \in Handlers, FindLink(h) PROVE IInv'
<1>1. PICK v \in Links :
        /\ link[v].state = "unused" /\ UNCHANGED <<accounts, invite, link, counter>>
        /\ req' = [req EXCEPT ![h] = [Idle EXCEPT !.pc = "confirming", !.on = v]]
  BY DEF FindLink
<1> DEFINE q == [Idle EXCEPT !.pc = "confirming", !.on = v]
<1>2. q \in Request /\ q.pc = "confirming" /\ q.on = v
  <2>1. v \in Nat
    BY ConstantsAssumption DEF Links
  <2> QED
    BY <2>1 DEF Idle, Request, Labels
<1>3. req' = [req EXCEPT ![h] = q]
  BY <1>1
<1> HIDE DEF q
<1>4. RequestOK(q, invite, link)
  BY <1>1, <1>2 DEF RequestOK
<1>5. counter \in [Emails -> [attempts : Nat, expires : BOOLEAN, locked : BOOLEAN]]
  BY DEF IInv, Types, TypeOK
<1> QED
  BY <1>1, <1>2, <1>3, <1>4, <1>5, RequestStep

LEMMA FindInvitationKeeps == ASSUME IInv, NEW h \in Handlers, FindInvitation(h) PROVE IInv'
<1>1. PICK i \in Invitations :
        /\ invite[i].state = "pending" /\ UNCHANGED <<accounts, invite, link, counter>>
        /\ req' = [req EXCEPT ![h] = [Idle EXCEPT !.pc = "accepting", !.on = i,
                      !.email = invite[i].email, !.company = invite[i].company]]
  BY DEF FindInvitation
<1> DEFINE q == [Idle EXCEPT !.pc = "accepting", !.on = i,
                   !.email = invite[i].email, !.company = invite[i].company]
<1>2. invite[i].email \in Emails /\ invite[i].company \in Companies
  BY <1>1 DEF IInv, Sound, InvitationsOK
<1>3. /\ q \in Request /\ q.pc = "accepting" /\ q.on = i
      /\ q.email = invite[i].email /\ q.company = invite[i].company
  <2>1. i \in Nat
    BY ConstantsAssumption DEF Invitations
  <2> QED
    BY <1>2, <2>1 DEF Idle, Request, Labels
<1>4. req' = [req EXCEPT ![h] = q]
  BY <1>1
<1> HIDE DEF q
<1>5. RequestOK(q, invite, link)
  BY <1>1, <1>2, <1>3 DEF RequestOK
<1>6. counter \in [Emails -> [attempts : Nat, expires : BOOLEAN, locked : BOOLEAN]]
  BY DEF IInv, Types, TypeOK
<1> QED
  BY <1>1, <1>3, <1>4, <1>5, <1>6, RequestStep

(* The invitations that are there stand in nobody's way after the check.   *)
LEMMA CheckPendingKeeps == ASSUME IInv, NEW h \in Handlers, CheckPending(h) PROVE IInv'
<1> DEFINE r == req[h]
           q == [r EXCEPT !.pc = "checked", !.known = Created]
<1>0. r \in Request /\ RequestOK(r, invite, link) /\ r.pc = "inviting"
  BY DEF IInv, Types, CheckPending, At
<1>1. Created \in SUBSET Invitations /\ \A k \in Created : invite[k].state # "absent"
  BY DEF Created
<1>2. \A k \in Created : NoRival(invite, k, r.email, r.company)
  BY <1>1 DEF CheckPending, Pending, NoRival
<1>3. q \in Request /\ q.pc = "checked" /\ q.known = Created /\ q.email = r.email /\ q.company = r.company
  BY <1>0, <1>1 DEF Request, Labels
<1>4. req' = [req EXCEPT ![h] = q] /\ UNCHANGED <<accounts, invite, link, counter>>
  BY DEF CheckPending, IInv, Types
<1> HIDE DEF q
<1>5. RequestOK(q, invite, link)
  BY <1>0, <1>2, <1>3 DEF RequestOK
<1>6. counter \in [Emails -> [attempts : Nat, expires : BOOLEAN, locked : BOOLEAN]]
  BY DEF IInv, Types, TypeOK
<1> QED
  BY <1>3, <1>4, <1>5, <1>6, RequestStep

Counters == [attempts : Nat, expires : BOOLEAN, locked : BOOLEAN]

(* The request is over, or goes on with what it has.                       *)
LEMMA GoOn ==
  ASSUME IInv, UNCHANGED <<accounts, invite, link>>, NEW h \in Handlers,
         counter' \in [Emails -> Counters],
         \/ Finish(h)
         \/ Goto(h, "joining") /\ At(h, "accepting")
         \/ /\ Goto(h, "opening") \/ Goto(h, "locking") \/ Goto(h, "clearing")
            /\ At(h, "unlocked") \/ At(h, "locking")
  PROVE  IInv'
<1>0. req[h] \in Request /\ RequestOK(req[h], invite, link)
  BY DEF IInv, Types
<1>1. CASE Finish(h)
  BY <1>1, IdleIsOK, RequestStep DEF Finish, Counters
<1>2. ASSUME NEW label \in {"joining", "opening", "locking", "clearing"}, Goto(h, label),
             IF label = "joining" THEN At(h, "accepting") ELSE At(h, "unlocked") \/ At(h, "locking")
      PROVE  IInv'
  <2> DEFINE q == [req[h] EXCEPT !.pc = label]
  <2>1. label \in Labels
    BY DEF Labels
  <2>2. /\ q \in Request /\ q.pc = label /\ q.email = req[h].email /\ q.company = req[h].company
        /\ q.on = req[h].on /\ q.known = req[h].known
    BY <1>0, <2>1, MovedRequest
  <2>3. req' = [req EXCEPT ![h] = q]
    BY <1>2 DEF Goto, IInv, Types
  <2> HIDE DEF q
  <2>4. RequestOK(q, invite, link)
    BY <1>0, <1>2, <2>2 DEF RequestOK, At
  <2> QED
    BY <2>2, <2>3, <2>4, RequestStep DEF Counters
<1> QED
  BY <1>1, <1>2

LEMMA LoginKeeps ==
  ASSUME IInv, NEW h \in Handlers,
         Enter(h) \/ CountFailure(h) \/ OpenWindow(h) \/ LockOut(h) \/ ClearAttempts(h)
  PROVE  IInv'
<1> DEFINE e == req[h].email
<1>0. counter \in [Emails -> Counters] /\ req[h] \in Request /\ RequestOK(req[h], invite, link)
  BY DEF IInv, Types, TypeOK, Counters
<1>1. e \in Emails /\ counter[e] \in Counters
  BY <1>0 DEF RequestOK, At, Enter, CountFailure, OpenWindow, LockOut, ClearAttempts
<1>2. CASE Enter(h)
  <2>1. NoCounter \in Counters
    BY DEF NoCounter, Counters
  <2>2. counter' \in [Emails -> Counters]
    BY <1>0, <1>2, <2>1 DEF Enter, SetCounter
  <2> QED
    BY <1>2, <2>2, GoOn DEF Enter
<1>3. CASE CountFailure(h)
  <2>1. [counter[e] EXCEPT !.attempts = counter[e].attempts + 1] \in Counters
    BY <1>1 DEF Counters
  <2>2. counter' = [counter EXCEPT ![e] = [counter[e] EXCEPT !.attempts = counter[e].attempts + 1]]
    BY <1>0, <1>1, <1>3 DEF CountFailure
  <2>3. counter' \in [Emails -> Counters]
    BY <1>0, <2>1, <2>2
  <2>4. Goto(h, "opening") \/ Goto(h, "locking") \/ Finish(h)
    BY <1>3 DEF CountFailure
  <2> QED
    BY <1>3, <2>3, <2>4, GoOn DEF CountFailure
<1>4. CASE OpenWindow(h)
  <2>1. (counter[e].attempts > 0) \in BOOLEAN
    OBVIOUS
  <2>2. [counter[e] EXCEPT !.expires = counter[e].attempts > 0] \in Counters
    BY <1>1, <2>1 DEF Counters
  <2>3. counter' = [counter EXCEPT ![e] = [counter[e] EXCEPT !.expires = counter[e].attempts > 0]]
    BY <1>0, <1>1, <1>4 DEF OpenWindow
  <2>4. counter' \in [Emails -> Counters]
    BY <1>0, <2>2, <2>3
  <2> QED
    BY <1>4, <2>4, GoOn DEF OpenWindow
<1>5. CASE LockOut(h)
  <2>1. [counter[e] EXCEPT !.locked = TRUE] \in Counters
    BY <1>1 DEF Counters
  <2>2. counter' \in [Emails -> Counters]
    BY <1>0, <1>1, <1>5, <2>1 DEF LockOut
  <2> QED
    BY <1>5, <2>2, GoOn DEF LockOut
<1>6. CASE ClearAttempts(h)
  <2>1. Cleared(counter[e]) \in Counters
    BY <1>1 DEF Cleared, Counters
  <2>2. counter' \in [Emails -> Counters]
    BY <1>0, <1>6, <2>1 DEF ClearAttempts, SetCounter
  <2> QED
    BY <1>6, <2>2, GoOn DEF ClearAttempts
<1> QED
  BY <1>2, <1>3, <1>4, <1>5, <1>6

LEMMA ExpireKeysKeeps == ASSUME IInv, NEW e \in Emails, ExpireKeys(e) PROVE IInv'
<1>1. counter \in [Emails -> Counters] /\ counter[e] \in Counters
  BY DEF IInv, Types, TypeOK, Counters
<1>2. Cleared(counter[e]) \in Counters /\ [counter[e] EXCEPT !.locked = FALSE] \in Counters
  BY <1>1 DEF Cleared, Counters
<1>3. counter' \in [Emails -> Counters]
  BY <1>1, <1>2 DEF ExpireKeys
<1>4. UNCHANGED <<companies, user, invite, link, req>>
  BY DEF ExpireKeys, accounts
<1> QED
  BY <1>3, <1>4 DEF IInv, Types, TypeOK, Sound, Counters

LinkRows == [state : {"absent", "unused", "used"}, email : Emails \cup {"none"}]

(* Steps that change links only.                                           *)
LEMMA LinkStep ==
  ASSUME IInv, UNCHANGED <<accounts, invite, counter>>, NEW h \in Handlers, NEW q \in Request,
         req' = [req EXCEPT ![h] = q],
         q.pc = "idle" \/ (q.pc = "linking" /\ q.email \in Emails),
         link' \in [Links -> LinkRows],
         \A v \in Links : link'[v] = link[v] \/ (link'[v].state # "absent" /\ link'[v].email \in Emails)
  PROVE  IInv'
<1>1. Goes(invite, invite', link, link')
  BY DEF Goes
<1>2. TypeOK' /\ Sound'
  BY DEF IInv, Types, TypeOK, Sound, accounts, LinksOK, LinkRows
<1>3. RequestOK(q, invite', link')
  BY DEF RequestOK
<1> QED
  BY <1>1, <1>2, <1>3, HandlerStep

LEMMA LinksKeep == ASSUME IInv, NEW h \in Handlers, CreateLink(h) \/ InvalidateLinks(h) PROVE IInv'
<1>0. /\ link \in [Links -> LinkRows] /\ req[h] \in Request /\ RequestOK(req[h], invite, link)
      /\ UNCHANGED <<accounts, invite, counter>>
  BY DEF IInv, Types, TypeOK, LinkRows, CreateLink, InvalidateLinks
<1>1. req[h].email \in Emails
  BY <1>0 DEF RequestOK, At, CreateLink, InvalidateLinks
<1>2. CASE CreateLink(h)
  <2>1. PICK v \in Links : link' = [link EXCEPT ![v] = [state |-> "unused", email |-> req[h].email]]
    BY <1>2 DEF CreateLink
  <2>2. [state |-> "unused", email |-> req[h].email] \in LinkRows
    BY <1>1 DEF LinkRows
  <2>3. link' \in [Links -> LinkRows]
    BY <1>0, <2>1, <2>2
  <2>4. \A w \in Links : link'[w] = link[w] \/ (link'[w].state # "absent" /\ link'[w].email \in Emails)
    BY <1>0, <1>1, <2>1
  <2> QED
    BY <1>0, <1>2, <2>3, <2>4, LinkStep, IdleIsOK DEF CreateLink, Finish
<1>3. CASE InvalidateLinks(h)
  <2> DEFINE q == [req[h] EXCEPT !.pc = "linking"]
  <2>1. q \in Request /\ q.pc = "linking" /\ q.email = req[h].email
    <3>1. "linking" \in Labels
      BY DEF Labels
    <3> QED
      BY <1>0, <3>1, MovedRequest
  <2>2. req' = [req EXCEPT ![h] = q]
    BY <1>3 DEF InvalidateLinks, Goto, IInv, Types
  <2> HIDE DEF q
  <2>3. \A v \in Links :
          link'[v] = IF link[v] = [state |-> "unused", email |-> req[h].email]
                     THEN [link[v] EXCEPT !.state = "used"] ELSE link[v]
    BY <1>3 DEF InvalidateLinks, Used
  <2>4. ASSUME NEW v \in Links
        PROVE  /\ link'[v] \in LinkRows
               /\ link'[v] = link[v] \/ (link'[v].state # "absent" /\ link'[v].email \in Emails)
    <3>1. CASE link[v] = [state |-> "unused", email |-> req[h].email]
      <4>1. link[v].email = req[h].email /\ link[v] \in LinkRows
        BY <1>0, <3>1
      <4>2. /\ [link[v] EXCEPT !.state = "used"] \in LinkRows
            /\ [link[v] EXCEPT !.state = "used"].state = "used"
            /\ [link[v] EXCEPT !.state = "used"].email = link[v].email
        BY <4>1 DEF LinkRows
      <4> QED
        BY <1>1, <2>3, <3>1, <4>1, <4>2
    <3>2. CASE link[v] # [state |-> "unused", email |-> req[h].email]
      BY <1>0, <2>3, <3>2
    <3> QED
      BY <3>1, <3>2
  <2>5. link' \in [Links -> LinkRows]
    BY <1>3, <2>4 DEF InvalidateLinks, Used
  <2> QED
    BY <1>0, <1>1, <2>1, <2>2, <2>4, <2>5, LinkStep
<1> QED
  BY <1>2, <1>3

Members ==
  [company : Companies \cup {"none"}, removed : BOOLEAN, verified : BOOLEAN,
   via : Invitations \cup {ByAdmin, ByRegistration, 0}]

(* Who came how is not changed by the verification and the removal of e.   *)
LEMMA MembersStay ==
  ASSUME IInv, NEW e \in Emails, NEW m \in Members, user' = [user EXCEPT ![e] = m], invite' = invite,
         m.via = user[e].via /\ m.company = user[e].company /\ (user[e].verified => m.verified)
  PROVE  MembersOK(user', invite') /\ user' \in [Emails -> Members]
<1>1. user \in [Emails -> Members] /\ MembersOK(user, invite)
  BY DEF IInv, Types, TypeOK, Sound, Members
<1>2. user'[e] = m /\ (\A f \in Emails \ {e} : user'[f] = user[f]) /\ user' \in [Emails -> Members]
  BY <1>1
<1>3. InvitationsOK(invite)
  BY DEF IInv, Sound
<1>4. \A f \in Emails :
        /\ user'[f].via = user[f].via /\ user'[f].company = user[f].company
        /\ user[f].verified => user'[f].verified
  BY <1>2
<1>5. \A i \in Invitations : invite[i].state = "used" => invite[i].email \in Emails
  BY <1>3 DEF InvitationsOK
<1> QED
  BY <1>1, <1>2, <1>4, <1>5 DEF MembersOK

LEMMA ConfirmEmailKeeps == ASSUME IInv, NEW h \in Handlers, ConfirmEmail(h) PROVE IInv'
<1> DEFINE v == req[h].on
           e == link[v].email
<1>0. /\ v \in Links /\ e \in Emails /\ link[v].state # "absent"
      /\ user \in [Emails -> Members] /\ link \in [Links -> LinkRows]
  BY DEF IInv, Types, TypeOK, Members, LinkRows, RequestOK, ConfirmEmail, At, Sound, LinksOK
<1> DEFINE m == [user[e] EXCEPT !.verified = TRUE]
           row == [link[v] EXCEPT !.state = "used"]
<1>1. m \in Members /\ m.via = user[e].via /\ m.company = user[e].company /\ m.verified
  <2>1. user[e] \in Members
    BY <1>0
  <2> QED
    BY <2>1 DEF Members
<1>2. row \in LinkRows /\ row.state = "used" /\ row.email = e
  <2>1. link[v] \in LinkRows
    BY <1>0
  <2> QED
    BY <2>1 DEF LinkRows
<1>3. /\ user' = [user EXCEPT ![e] = m] /\ link' = [link EXCEPT ![v] = row]
      /\ req' = [req EXCEPT ![h] = Idle] /\ UNCHANGED <<companies, invite, counter>>
  BY <1>0 DEF ConfirmEmail, Finish
<1> HIDE DEF m, row
<1>4. MembersOK(user', invite') /\ user' \in [Emails -> Members]
  BY <1>0, <1>1, <1>3, MembersStay
<1>5. link' \in [Links -> LinkRows] /\ link'[v] = row /\ \A w \in Links \ {v} : link'[w] = link[w]
  BY <1>0, <1>2, <1>3
<1>6. Goes(invite, invite', link, link')
  BY <1>2, <1>3, <1>5 DEF Goes
<1>7. LinksOK(link)'
  BY <1>0, <1>2, <1>5 DEF IInv, Sound, LinksOK
<1>8. TypeOK'
  BY <1>3, <1>4, <1>5 DEF IInv, Types, TypeOK, Members, LinkRows
<1>9. Sound'
  BY <1>3, <1>4, <1>7 DEF IInv, Sound
<1> QED
  BY <1>3, <1>6, <1>8, <1>9, HandlerStep, IdleIsOK

LEMMA RemoveUserKeeps == ASSUME IInv, NEW e \in Emails, RemoveUser(e) PROVE IInv'
<1> DEFINE m == [user[e] EXCEPT !.removed = TRUE]
<1>1. m \in Members /\ m.via = user[e].via /\ m.company = user[e].company /\ m.verified = user[e].verified
  <2>1. user[e] \in Members
    BY DEF IInv, Types, TypeOK, Members
  <2> QED
    BY <2>1 DEF Members
<1>2. user' = [user EXCEPT ![e] = m] /\ UNCHANGED <<companies, invite, link, counter, req>>
  BY DEF RemoveUser, IInv, Types, TypeOK
<1> HIDE DEF m
<1>3. MembersOK(user', invite') /\ user' \in [Emails -> Members]
  BY <1>1, <1>2, MembersStay
<1> QED
  BY <1>2, <1>3 DEF IInv, Types, TypeOK, Members, Sound

(* A new account, that does not come by an invitation.                     *)
LEMMA NewAccount ==
  ASSUME IInv, NEW e \in Emails, NEW m \in Members, user' = [user EXCEPT ![e] = m], invite' = invite,
         ~Registered(e), m.via \in {ByAdmin, ByRegistration}
  PROVE  MembersOK(user', invite') /\ user' \in [Emails -> Members]
<1>1. user \in [Emails -> Members] /\ MembersOK(user, invite) /\ InvitationsOK(invite)
  BY DEF IInv, Types, TypeOK, Sound, Members
<1>2. user'[e] = m /\ (\A f \in Emails \ {e} : user'[f] = user[f]) /\ user' \in [Emails -> Members]
  BY <1>1
<1>3. user[e].via = 0
  BY DEF Registered, NoUser
<1>4. \A i \in Invitations : i # 0 /\ i # m.via
  BY ConstantsAssumption DEF Invitations, ByAdmin, ByRegistration
<1>5. \A i \in Invitations : invite[i].state = "used" => invite[i].email \in Emails \ {e}
  BY <1>1, <1>3, <1>4 DEF InvitationsOK, MembersOK
<1> QED
  BY <1>1, <1>2, <1>4, <1>5 DEF MembersOK

LEMMA CommitRegistrationKeeps ==
  ASSUME IInv, NEW h \in Handlers, CommitRegistration(h) PROVE IInv'
<1>0. /\ req[h] \in Request /\ req[h].email \in Emails /\ UNCHANGED <<invite, link, counter>>
      /\ counter \in [Emails -> Counters]
  BY DEF IInv, Types, TypeOK, Counters, RequestOK, CommitRegistration, At
<1>1. CASE Registered(req[h].email)
  BY <1>0, <1>1, GoOn DEF CommitRegistration
<1>2. CASE ~Registered(req[h].email)
  <2>1. PICK c \in Companies \ companies :
          /\ companies' = companies \cup {c}
          /\ user' = [user EXCEPT ![req[h].email] =
                        [company |-> c, removed |-> FALSE, verified |-> FALSE, via |-> ByRegistration]]
          /\ Goto(h, "linking")
    BY <1>2 DEF CommitRegistration
  <2> DEFINE m == [company |-> c, removed |-> FALSE, verified |-> FALSE, via |-> ByRegistration]
             q == [req[h] EXCEPT !.pc = "linking"]
  <2>2. m \in Members /\ m.via = ByRegistration
    BY DEF Members
  <2>3. q \in Request /\ q.pc = "linking" /\ q.email = req[h].email
    <3>1. "linking" \in Labels
      BY DEF Labels
    <3> QED
      BY <1>0, <3>1, MovedRequest
  <2>4. user' = [user EXCEPT ![req[h].email] = m] /\ req' = [req EXCEPT ![h] = q]
    BY <2>1 DEF Goto, IInv, Types
  <2> HIDE DEF m, q
  <2>5. MembersOK(user', invite') /\ user' \in [Emails -> Members]
    BY <1>0, <1>2, <2>2, <2>4, NewAccount
  <2>6. TypeOK' /\ Sound'
    BY <1>0, <2>1, <2>5 DEF IInv, Types, TypeOK, Members, Sound
  <2>7. Goes(invite, invite', link, link') /\ RequestOK(q, invite', link')
    BY <1>0, <2>3 DEF Goes, RequestOK
  <2> QED
    BY <2>3, <2>4, <2>6, <2>7, HandlerStep
<1> QED
  BY <1>1, <1>2

LEMMA CreateUserKeeps == ASSUME IInv, NEW h \in Handlers, CreateUser(h) PROVE IInv'
<1>0. /\ req[h] \in Request /\ req[h].email \in Emails /\ req[h].company \in Companies
      /\ UNCHANGED <<companies, invite, link, counter>> /\ counter \in [Emails -> Counters]
      /\ req' = [req EXCEPT ![h] = Idle]
  BY DEF IInv, Types, TypeOK, Counters, RequestOK, CreateUser, At, Finish
<1>1. CASE Registered(req[h].email)
  BY <1>0, <1>1, GoOn DEF CreateUser, accounts
<1>2. CASE ~Registered(req[h].email)
  <2> DEFINE m == [company |-> req[h].company, removed |-> FALSE, verified |-> FALSE, via |-> ByAdmin]
  <2>1. m \in Members /\ m.via = ByAdmin /\ user' = [user EXCEPT ![req[h].email] = m]
    BY <1>0, <1>2 DEF Members, CreateUser, NewUser
  <2> HIDE DEF m
  <2>2. MembersOK(user', invite') /\ user' \in [Emails -> Members]
    BY <1>0, <1>2, <2>1, NewAccount
  <2>3. TypeOK' /\ Sound' /\ Goes(invite, invite', link, link')
    BY <1>0, <2>2 DEF IInv, Types, TypeOK, Members, Sound, Goes
  <2> QED
    BY <1>0, <2>3, HandlerStep, IdleIsOK
<1> QED
  BY <1>1, <1>2

InviteRows ==
  [state : {"absent", "pending", "expired", "used"}, email : Emails \cup {"none"},
   company : Companies \cup {"none"}, known : SUBSET Invitations]

(* An invitation that is expired, or used, is all the less in the way.     *)
LEMMA InvitationEnds ==
  ASSUME IInv, NEW i \in Invitations, NEW row \in InviteRows, invite' = [invite EXCEPT ![i] = row],
         invite[i].state # "absent", row.state \in {"expired", "used"},
         row.email = invite[i].email, row.company = invite[i].company, row.known = invite[i].known
  PROVE  /\ Goes(invite, invite', link, link) /\ InvitationsOK(invite')
         /\ invite' \in [Invitations -> InviteRows] /\ invite'[i] = row
         /\ \A j \in Invitations \ {i} : invite'[j] = invite[j]
<1>1. invite \in [Invitations -> InviteRows] /\ InvitationsOK(invite)
  BY DEF IInv, Types, TypeOK, InviteRows, Sound
<1>2. /\ invite' \in [Invitations -> InviteRows] /\ invite'[i] = row
      /\ \A j \in Invitations \ {i} : invite'[j] = invite[j]
  BY <1>1
<1>3. Goes(invite, invite', link, link)
  BY <1>2 DEF Goes
<1>4. \A k \in Invitations : \A e, c : NoRival(invite, k, e, c) => NoRival(invite', k, e, c)
  BY <1>3 DEF NoRival, Goes
<1>5. \A j \in Invitations :
        /\ invite'[j].email = invite[j].email /\ invite'[j].company = invite[j].company
        /\ invite'[j].known = invite[j].known /\ invite'[j].known \subseteq Invitations
        /\ invite'[j].state # "absent" => invite[j].state # "absent"
  BY <1>1, <1>2 DEF InviteRows
<1>6. InvitationsOK(invite')
  BY <1>1, <1>4, <1>5 DEF InvitationsOK
<1> QED
  BY <1>2, <1>3, <1>6

LEMMA ExpireInvitationKeeps == ASSUME IInv, NEW i \in Invitations, ExpireInvitation(i) PROVE IInv'
<1>0. /\ invite \in [Invitations -> InviteRows] /\ invite[i].state = "pending"
      /\ UNCHANGED <<companies, user, link, counter, req>>
  BY DEF IInv, Types, TypeOK, InviteRows, ExpireInvitation, accounts
<1> DEFINE row == [invite[i] EXCEPT !.state = "expired"]
<1>1. /\ row \in InviteRows /\ row.state = "expired" /\ row.email = invite[i].email
      /\ row.company = invite[i].company /\ row.known = invite[i].known
  <2>1. invite[i] \in InviteRows
    BY <1>0
  <2> QED
    BY <2>1 DEF InviteRows
<1>2. invite' = [invite EXCEPT ![i] = row]
  BY <1>0 DEF ExpireInvitation
<1> HIDE DEF row
<1>3. /\ Goes(invite, invite', link, link) /\ InvitationsOK(invite')
      /\ invite' \in [Invitations -> InviteRows] /\ invite'[i] = row
      /\ \A j \in Invitations \ {i} : invite'[j] = invite[j]
  BY <1>0, <1>1, <1>2, InvitationEnds
<1>4. MembersOK(user, invite')
  BY <1>0, <1>1, <1>3 DEF IInv, Sound, MembersOK
<1>5. ASSUME NEW g \in Handlers PROVE RequestOK(req[g], invite', link)
  <2>1. req[g] \in Request /\ RequestOK(req[g], invite, link)
    BY DEF IInv, Types
  <2> QED
    BY <1>3, <2>1, RequestStays
<1>6. Types' /\ Sound'
  BY <1>0, <1>3, <1>4 DEF IInv, Types, TypeOK, InviteRows, Sound
<1>7. \A g \in Handlers : RequestOK(req'[g], invite', link')
  BY <1>0, <1>5
<1> QED
  BY <1>6, <1>7 DEF IInv

(* The account and the use of its invitation, together.                    *)
LEMMA CommitAcceptanceKeeps ==
  ASSUME IInv, NEW h \in Handlers, CommitAcceptance(h) PROVE IInv'
<1> DEFINE i == req[h].on
           e == req[h].email
<1>0. /\ req[h] \in Request /\ RequestOK(req[h], invite, link) /\ req[h].pc = "joining"
      /\ UNCHANGED <<companies, link, counter>> /\ counter \in [Emails -> Counters]
      /\ req' = [req EXCEPT ![h] = Idle] /\ invite \in [Invitations -> InviteRows]
      /\ user \in [Emails -> Members]
  BY DEF IInv, Types, TypeOK, Counters, Members, InviteRows, CommitAcceptance, At, Finish
<1>1. /\ i \in Invitations /\ invite[i].state # "absent" /\ invite[i].email = e
      /\ invite[i].company = req[h].company /\ e \in Emails /\ req[h].company \in Companies
  BY <1>0 DEF RequestOK
<1>2. CASE Registered(e)
  BY <1>0, <1>2, GoOn DEF CommitAcceptance, accounts
<1>3. CASE ~Registered(e)
  <2> DEFINE m == [company |-> req[h].company, removed |-> FALSE, verified |-> TRUE, via |-> i]
             row == [invite[i] EXCEPT !.state = "used"]
  <2>1. m \in Members /\ m.via = i /\ m.company = req[h].company /\ m.verified
    BY <1>1 DEF Members
  <2>2. /\ row \in InviteRows /\ row.state = "used" /\ row.email = invite[i].email
        /\ row.company = invite[i].company /\ row.known = invite[i].known
    <3>1. invite[i] \in InviteRows
      BY <1>0, <1>1
    <3> QED
      BY <3>1 DEF InviteRows
  <2>3. user' = [user EXCEPT ![e] = m] /\ invite' = [invite EXCEPT ![i] = row]
    BY <1>0, <1>3 DEF CommitAcceptance, NewUser
  <2> HIDE DEF m, row
  <2>4. /\ Goes(invite, invite', link, link) /\ InvitationsOK(invite')
        /\ invite' \in [Invitations -> InviteRows] /\ invite'[i] = row
        /\ \A j \in Invitations \ {i} : invite'[j] = invite[j]
    BY <1>1, <2>2, <2>3, InvitationEnds
  <2>5. user' \in [Emails -> Members] /\ user'[e] = m /\ \A f \in Emails \ {e} : user'[f] = user[f]
    BY <1>0, <1>1, <2>1, <2>3
  <2>6. user[e].via = 0 /\ \A j \in Invitations : j # 0
    BY <1>3, ConstantsAssumption DEF Registered, NoUser, Invitations
  <2>7. ASSUME NEW j \in Invitations, invite'[j].state = "used" PROVE user'[invite'[j].email].via = j
    <3>1. CASE j = i
      BY <1>1, <2>1, <2>2, <2>4, <2>5, <3>1
    <3>2. CASE j # i
      <4>1. invite'[j] = invite[j] /\ invite[j].email \in Emails /\ user[invite[j].email].via = j
        BY <2>4, <2>7, <3>2 DEF IInv, Sound, MembersOK, InvitationsOK
      <4> QED
        BY <2>5, <2>6, <4>1
    <3> QED
      BY <3>1, <3>2
  <2>8. ASSUME NEW f \in Emails, NEW j \in Invitations, user'[f].via = j
        PROVE  /\ invite'[j].state = "used" /\ invite'[j].email = f
               /\ user'[f].company = invite'[j].company /\ user'[f].verified
    <3>1. CASE f = e
      BY <1>1, <2>1, <2>2, <2>4, <2>5, <2>8, <3>1
    <3>2. CASE f # e
      <4>1. /\ user'[f] = user[f] /\ invite[j].state = "used" /\ invite[j].email = f
            /\ user[f].company = invite[j].company /\ user[f].verified
        BY <2>5, <2>8, <3>2 DEF IInv, Sound, MembersOK
      <4>2. j # i
        BY <1>1, <3>2, <4>1
      <4> QED
        BY <2>4, <4>1, <4>2
    <3> QED
      BY <3>1, <3>2
  <2>9. MembersOK(user', invite')
    BY <2>7, <2>8 DEF MembersOK
  <2>10. TypeOK' /\ Sound'
    BY <1>0, <2>4, <2>5, <2>9 DEF IInv, Types, TypeOK, Members, InviteRows, Sound
  <2> QED
    BY <1>0, <2>4, <2>10, HandlerStep, IdleIsOK
<1> QED
  BY <1>2, <1>3

LEMMA CreateInvitationKeeps ==
  ASSUME IInv, NEW h \in Handlers, CreateInvitation(h) PROVE IInv'
<1>0. /\ req[h] \in Request /\ RequestOK(req[h], invite, link) /\ req[h].pc = "checked"
      /\ UNCHANGED <<companies, user, link, counter>>
      /\ req' = [req EXCEPT ![h] = Idle] /\ invite \in [Invitations -> InviteRows]
  BY DEF IInv, Types, TypeOK, InviteRows, CreateInvitation, At, Finish, accounts
<1>1. PICK i \in Invitations :
        /\ invite[i].state = "absent"
        /\ invite' = [invite EXCEPT ![i] =
                        [state |-> "pending", email |-> req[h].email, company |-> req[h].company,
                         known |-> req[h].known]]
  BY DEF CreateInvitation, Created
<1> DEFINE row == [state |-> "pending", email |-> req[h].email, company |-> req[h].company,
                   known |-> req[h].known]
<1>2. req[h].email \in Emails /\ req[h].company \in Companies /\ req[h].known \subseteq Invitations
  BY <1>0 DEF RequestOK, Request
<1>3. /\ row \in InviteRows /\ row.state = "pending" /\ row.email = req[h].email
      /\ row.company = req[h].company /\ row.known = req[h].known
  BY <1>2 DEF InviteRows
<1>4. invite' = [invite EXCEPT ![i] = row]
  BY <1>1
<1> HIDE DEF row
<1>5. /\ invite' \in [Invitations -> InviteRows] /\ invite'[i] = row
      /\ \A j \in Invitations \ {i} : invite'[j] = invite[j]
  BY <1>0, <1>3, <1>4
<1>6. Goes(invite, invite', link, link)
  BY <1>1, <1>5 DEF Goes
<1>7. \A k \in Invitations : \A e, c : NoRival(invite, k, e, c) => NoRival(invite', k, e, c)
  BY <1>6 DEF NoRival, Goes
<1>8. \A j \in Invitations : invite[j].known \subseteq Invitations
  BY <1>0 DEF InviteRows
<1>9. InvitationsOK(invite')
  <2>1. ASSUME NEW j \in Invitations, invite'[j].state # "absent"
        PROVE  /\ invite'[j].email \in Emails /\ invite'[j].company \in Companies
               /\ \A k \in invite'[j].known : NoRival(invite', k, invite'[j].email, invite'[j].company)
    <3>1. CASE j = i
      <4>1. \A k \in req[h].known : NoRival(invite, k, req[h].email, req[h].company)
        BY <1>0 DEF RequestOK
      <4> QED
        BY <1>2, <1>3, <1>5, <1>7, <3>1, <4>1
    <3>2. CASE j # i
      <4>1. /\ invite'[j] = invite[j] /\ invite[j].email \in Emails /\ invite[j].company \in Companies
            /\ \A k \in invite[j].known : NoRival(invite, k, invite[j].email, invite[j].company)
        BY <1>5, <2>1, <3>2 DEF IInv, Sound, InvitationsOK
      <4> QED
        BY <1>7, <1>8, <4>1
    <3> QED
      BY <3>1, <3>2
  <2> QED
    BY <2>1 DEF InvitationsOK
<1>10. MembersOK(user, invite')
  BY <1>1, <1>3, <1>5 DEF IInv, Sound, MembersOK
<1>11. TypeOK' /\ Sound'
  BY <1>0, <1>5, <1>9, <1>10 DEF IInv, Types, TypeOK, InviteRows, Sound
<1> QED
  BY <1>0, <1>6, <1>11, HandlerStep, IdleIsOK

LEMMA StepInv == IInv /\ [Next]_vars => IInv'
<1> SUFFICES ASSUME IInv, [Next]_vars PROVE IInv'
  OBVIOUS
<1>0. counter \in [Emails -> Counters]
  BY DEF IInv, Types, TypeOK, Counters
<1>1. ASSUME NEW h \in Handlers, RegisterStep(h) \/ VerifyStep(h) PROVE IInv'
  BY <1>1, StartKeeps, CommitRegistrationKeeps, LinksKeep, FindLinkKeeps, ConfirmEmailKeeps
  DEF RegisterStep, VerifyStep
<1>2. ASSUME NEW h \in Handlers, InviteStep(h) PROVE IInv'
  BY <1>2, StartKeeps, CheckPendingKeeps, CreateInvitationKeeps DEF InviteStep
<1>3. ASSUME NEW h \in Handlers, JoinStep(h) PROVE IInv'
  <2>1. CASE CheckInvited(h)
    BY <1>0, <2>1, GoOn DEF CheckInvited
  <2> QED
    BY <1>3, <2>1, FindInvitationKeeps, CommitAcceptanceKeeps, StartKeeps, CreateUserKeeps DEF JoinStep
<1>4. ASSUME NEW h \in Handlers, LoginStep(h) PROVE IInv'
  BY <1>4, StartKeeps, LoginKeeps DEF LoginStep
<1>5. ASSUME NEW h \in Handlers, Fail(h) PROVE IInv'
  BY <1>0, <1>5, GoOn DEF Fail
<1>6. CASE UNCHANGED vars
  BY <1>6 DEF vars, accounts, history, IInv, Types, TypeOK, Sound
<1> QED
  BY <1>1, <1>2, <1>3, <1>4, <1>5, <1>6, RemoveUserKeeps, ExpireKeysKeeps, ExpireInvitationKeeps
  DEF Next

LEMMA InvHolds == Spec => []IInv
BY InitInv, StepInv, PTL DEF Spec

(* Users, invitations, links and counters hold the values the code writes. *)
THEOREM TypesHold == Spec => []TypeOK
<1>1. IInv => TypeOK
  BY DEF IInv, Types
<1> QED
  BY <1>1, InvHolds, PTL

(* An invitation is used exactly when the account of its address came by   *)
(* it, however many acceptances, registrations and admins are at it.       *)
THEOREM UsedInvitationsHaveMembers == Spec => []InvitationsMatchMembers
<1>1. IInv => InvitationsMatchMembers
  BY DEF IInv, Sound, MembersOK, InvitationsMatchMembers
<1> QED
  BY <1>1, InvHolds, PTL

(* Two pending invitations of one address by one company come from         *)
(* requests that overlapped: neither knew the other.                       *)
THEOREM DuplicatesCameFromOverlaps == Spec => []DuplicatesOverlap
<1>1. IInv => DuplicatesOverlap
  BY DEF IInv, Sound, InvitationsOK, NoRival, DuplicatesOverlap
<1> QED
  BY <1>1, InvHolds, PTL

------------------------------------------------------------------------------

(* A step of handler h alone that leaves the counters as they are, and is  *)
(* not one that was to open a window.                                      *)
LEMMA CountsStay ==
  ASSUME FailuresAreForgotten, NEW h, ~At(h, "opening"), UNCHANGED <<counter, unbounded>>,
         \A g \in Handlers \ {h} : req'[g] = req[g]
  PROVE  FailuresAreForgotten'
<1> SUFFICES ASSUME NEW e \in Emails, counter[e].attempts > 0, ~counter[e].expires, e \notin unbounded
             PROVE  \E g \in Handlers : At(g, "opening")' /\ req'[g].email = e
  BY DEF FailuresAreForgotten
<1>1. PICK g \in Handlers : At(g, "opening") /\ req[g].email = e
  BY DEF FailuresAreForgotten
<1> QED
  BY <1>1 DEF At

(* Whoever counts the first failure will open its window, or die and leave *)
(* the address unbounded; any other count had a window, or was waiting for *)
(* one, before.                                                            *)
LEMMA FailuresStep ==
  ASSUME IInv, FailuresAreForgotten, [Next]_vars
  PROVE  FailuresAreForgotten'
<1>0. /\ counter \in [Emails -> Counters] /\ req \in [Handlers -> Request]
      /\ \A h \in Handlers : RequestOK(req[h], invite, link)
  BY DEF IInv, Types, TypeOK, Counters
<1>f. ASSUME NEW h \in Handlers, Finish(h) \/ \E label \in Labels : Goto(h, label)
      PROVE  \A g \in Handlers \ {h} : req'[g] = req[g]
  BY <1>0, <1>f DEF Finish, Goto
<1>1. ASSUME NEW h \in Handlers,
      RegisterStep(h) \/ VerifyStep(h) \/ InviteStep(h) \/ JoinStep(h) \/ CheckLock(h)
      PROVE  FailuresAreForgotten'
  <2>1. ~At(h, "opening") /\ UNCHANGED <<counter, unbounded>> /\ \A g \in Handlers \ {h} : req'[g] = req[g]
    BY <1>0, <1>1
    DEF RegisterStep, VerifyStep, InviteStep, JoinStep, CheckLock, CheckEmail, CommitRegistration,
        CreateLink, FindUnverified, InvalidateLinks, FindLink, ConfirmEmail, CheckInvitee, CheckPending,
        CreateInvitation, FindInvitation, CheckInvited, CommitAcceptance, CheckNewUser, CreateUser,
        At, Finish, Goto, history
  <2> QED
    BY <2>1, CountsStay
<1>2. ASSUME NEW h \in Handlers, Enter(h) \/ OpenWindow(h) \/ ClearAttempts(h)
      PROVE  FailuresAreForgotten'
  <2> DEFINE e == req[h].email
  <2>1. /\ e \in Emails /\ counter[e] \in Counters /\ unbounded' = unbounded \ {e}
        /\ \A g \in Handlers \ {h} : req'[g] = req[g]
    BY <1>0, <1>2 DEF RequestOK, At, Enter, OpenWindow, ClearAttempts, Finish
  <2>2. \A d \in Emails \ {e} : counter'[d] = counter[d]
    BY <1>0, <1>2, <2>1 DEF Enter, OpenWindow, ClearAttempts, SetCounter
  <2>3. counter'[e].attempts > 0 => counter'[e].expires
    <3>1. CASE Enter(h)
      BY <1>0, <2>1, <3>1 DEF Enter, SetCounter, NoCounter
    <3>2. CASE ClearAttempts(h)
      <4>1. counter'[e] = Cleared(counter[e])
        BY <1>0, <2>1, <3>2 DEF ClearAttempts, SetCounter
      <4> QED
        BY <2>1, <4>1 DEF Cleared, Counters
    <3>3. CASE OpenWindow(h)
      <4>1. counter'[e] = [counter[e] EXCEPT !.expires = counter[e].attempts > 0]
        BY <1>0, <2>1, <3>3 DEF OpenWindow
      <4>2. counter'[e].attempts = counter[e].attempts /\ counter'[e].expires = (counter[e].attempts > 0)
        BY <2>1, <4>1 DEF Counters
      <4> QED
        BY <4>2
    <3> QED
      BY <1>2, <3>1, <3>2, <3>3
  <2> SUFFICES ASSUME NEW d \in Emails \ {e}, counter[d].attempts > 0, ~counter[d].expires, d \notin unbounded
               PROVE  \E g \in Handlers : At(g, "opening")' /\ req'[g].email = d
    BY <2>1, <2>2, <2>3 DEF FailuresAreForgotten
  <2>4. PICK g \in Handlers : At(g, "opening") /\ req[g].email = d
    BY DEF FailuresAreForgotten
  <2> QED
    BY <2>1, <2>4 DEF At
<1>3. ASSUME NEW h \in Handlers, CountFailure(h)
      PROVE  FailuresAreForgotten'
  <2> DEFINE e == req[h].email
             n == counter[e].attempts + 1
  <2>1. e \in Emails /\ counter[e] \in Counters /\ req[h] \in Request /\ At(h, "unlocked")
    BY <1>0, <1>3 DEF RequestOK, At, CountFailure
  <2>2. /\ counter' = [counter EXCEPT ![e].attempts = n] /\ unbounded' = unbounded
        /\ \A g \in Handlers \ {h} : req'[g] = req[g]
        /\ n = 1 => Goto(h, "opening")
    BY <1>0, <1>3 DEF CountFailure, Goto, Finish, history
  <2>3. \A d \in Emails : counter'[d].expires = counter[d].expires
    BY <1>0, <2>1, <2>2 DEF Counters
  <2>4. \A d \in Emails \ {e} : counter'[d] = counter[d]
    BY <1>0, <2>2
  <2>5. ASSUME NEW d \in Emails, counter[d].attempts > 0, ~counter[d].expires, d \notin unbounded
        PROVE  \E g \in Handlers : At(g, "opening")' /\ req'[g].email = d
    <3>1. PICK g \in Handlers : At(g, "opening") /\ req[g].email = d
      BY <2>5 DEF FailuresAreForgotten
    <3> QED
      BY <2>1, <2>2, <3>1 DEF At
  <2>6. CASE n = 1
    <3>1. At(h, "opening")' /\ req'[h].email = e
      BY <1>0, <2>1, <2>2, <2>6 DEF Goto, At, Request
    <3> QED
      BY <2>2, <2>3, <2>4, <2>5, <3>1 DEF FailuresAreForgotten
  <2>7. CASE n # 1
    <3>1. counter[e].attempts > 0
      BY <2>1, <2>7 DEF Counters
    <3> QED
      BY <2>2, <2>3, <2>4, <2>5, <3>1 DEF FailuresAreForgotten
  <2> QED
    BY <2>6, <2>7
<1>4. ASSUME NEW h \in Handlers, LockOut(h) PROVE FailuresAreForgotten'
  <2>1. /\ req[h].email \in Emails /\ counter[req[h].email] \in Counters /\ unbounded' = unbounded
        /\ counter' = [counter EXCEPT ![req[h].email].locked = TRUE]
        /\ ~At(h, "opening") /\ \A g \in Handlers \ {h} : req'[g] = req[g]
    BY <1>0, <1>4 DEF RequestOK, At, LockOut, Goto, history
  <2>2. \A d \in Emails : counter'[d].attempts = counter[d].attempts /\ counter'[d].expires = counter[d].expires
    BY <1>0, <2>1 DEF Counters
  <2> SUFFICES ASSUME NEW d \in Emails, counter[d].attempts > 0, ~counter[d].expires, d \notin unbounded
               PROVE  \E g \in Handlers : At(g, "opening")' /\ req'[g].email = d
    BY <2>1, <2>2 DEF FailuresAreForgotten
  <2>3. PICK g \in Handlers : At(g, "opening") /\ req[g].email = d
    BY DEF FailuresAreForgotten
  <2> QED
    BY <2>1, <2>3 DEF At
<1>5. ASSUME NEW h \in Handlers, Fail(h) PROVE FailuresAreForgotten'
  <2>1. /\ counter' = counter /\ \A g \in Handlers \ {h} : req'[g] = req[g]
        /\ unbounded' = IF At(h, "opening") THEN unbounded \cup {req[h].email} ELSE unbounded
    BY <1>0, <1>5 DEF Fail, Finish
  <2> SUFFICES ASSUME NEW d \in Emails, counter[d].attempts > 0, ~counter[d].expires, d \notin unbounded'
               PROVE  \E g \in Handlers : At(g, "opening")' /\ req'[g].email = d
    BY <2>1 DEF FailuresAreForgotten
  <2>2. PICK g \in Handlers : At(g, "opening") /\ req[g].email = d
    BY <2>1 DEF FailuresAreForgotten
  <2> QED
    BY <2>1, <2>2 DEF At
<1>6. ASSUME NEW e \in Emails, ExpireKeys(e) PROVE FailuresAreForgotten'
  <2>1. /\ UNCHANGED <<req, unbounded>>
        /\ \/ counter' = [counter EXCEPT ![e] = Cleared(@)]
           \/ counter' = [counter EXCEPT ![e].locked = FALSE]
    BY <1>6 DEF ExpireKeys, history
  <2>2. /\ counter[e] \in Counters /\ \A d \in Emails \ {e} : counter'[d] = counter[d]
        /\ counter'[e].attempts > 0 =>
             counter'[e].attempts = counter[e].attempts /\ counter'[e].expires = counter[e].expires
    <3>1. counter[e] \in Counters
      BY <1>0
    <3>2. \A d \in Emails \ {e} : counter'[d] = counter[d]
      BY <1>0, <2>1
    <3>3. counter'[e] = Cleared(counter[e]) \/ counter'[e] = [counter[e] EXCEPT !.locked = FALSE]
      BY <1>0, <2>1
    <3>4. Cleared(counter[e]).attempts = 0
      BY <3>1 DEF Cleared, Counters
    <3>5. LET key == [counter[e] EXCEPT !.locked = FALSE]
          IN  key.attempts = counter[e].attempts /\ key.expires = counter[e].expires
      BY <3>1 DEF Counters
    <3>6. CASE counter'[e] = Cleared(counter[e])
      <4>1. ~(counter'[e].attempts > 0)
        BY <3>4, <3>6
      <4> QED
        BY <3>1, <3>2, <4>1
    <3>7. CASE counter'[e] = [counter[e] EXCEPT !.locked = FALSE]
      BY <3>1, <3>2, <3>5, <3>7
    <3> QED
      BY <3>3, <3>6, <3>7
  <2> QED
    BY <2>1, <2>2 DEF FailuresAreForgotten, At
<1>7. ASSUME UNCHANGED <<counter, req, unbounded>> PROVE FailuresAreForgotten'
  BY <1>7 DEF FailuresAreForgotten, At
<1> QED
  BY <1>1, <1>2, <1>3, <1>4, <1>5, <1>6, <1>7
  DEF Next, LoginStep, RemoveUser, ExpireInvitation, history, vars

(* No count of wrong passwords stays for ever but one whose request died   *)
(* between its two calls, for any number of logins.                        *)
THEOREM FailuresAreForgottenAlways == Spec => []FailuresAreForgotten
<1>1. Init => FailuresAreForgotten
  BY DEF Init, FailuresAreForgotten, NoCounter
<1>2. IInv /\ FailuresAreForgotten /\ [Next]_vars => FailuresAreForgotten'
  BY FailuresStep
<1> QED
  BY <1>1, <1>2, InvHolds, PTL DEF Spec

------------------------------------------------------------------------------

(* The links are created one after the other.                              *)
LinksInOrder ==
  \A v \in Links : link[v] # NoLink => link[v].state # "absent" /\ \A w \in 1..(v - 1) : link[w] # NoLink

LinksInv == LinksInOrder /\ NewestLinkWorks

(* A step of handler h alone that leaves the links as they are, verifies   *)
(* at most, and does not leave its place before the next link.             *)
LEMMA LinksStay ==
  ASSUME LinksInv, NEW h, UNCHANGED <<link, stranded>>, At(h, "linking") => At(h, "linking")',
         At(h, "linking") => req'[h].email = req[h].email,
         \A g \in Handlers \ {h} : req'[g] = req[g],
         \A v \in Links : link[v] # NoLink /\ ~user'[link[v].email].verified =>
           \/ ~user[link[v].email].verified
           \/ h \in Handlers /\ At(h, "linking")' /\ req'[h].email = link[v].email
  PROVE  LinksInv'
<1>1. LinksInOrder'
  BY DEF LinksInv, LinksInOrder
<1>2. NewestLinkWorks'
  <2> SUFFICES ASSUME NEW v \in Links, link[v] # NoLink, ~user'[link[v].email].verified,
                      link[v].email \notin stranded,
                      \A w \in Links : w > v => link[w].email # link[v].email,
                      \A g \in Handlers : At(g, "linking")' => req'[g].email # link[v].email
               PROVE  link[v].state = "unused"
    BY DEF NewestLinkWorks
  <2>1. ~user[link[v].email].verified
    OBVIOUS
  <2>2. \A g \in Handlers : At(g, "linking") => req[g].email # link[v].email
    BY DEF At
  <2> QED
    BY <2>1, <2>2 DEF LinksInv, NewestLinkWorks
<1> QED
  BY <1>1, <1>2 DEF LinksInv

LEMMA LinksStep ==
  ASSUME IInv, LinksInv, [Next]_vars
  PROVE  LinksInv'
<1>0. /\ user \in [Emails -> Members] /\ req \in [Handlers -> Request] /\ LinksOK(link)
      /\ link \in [Links -> [state : {"absent", "unused", "used"}, email : Emails \cup {"none"}]]
      /\ \A h \in Handlers : RequestOK(req[h], invite, link)
  BY DEF IInv, Types, TypeOK, Members, Sound
<1>r. \A v \in Links : link[v] # NoLink => link[v].email \in Emails
  BY <1>0 DEF LinksInv, LinksInOrder, LinksOK
<1>q. \A h \in Handlers :
        req[h] \in Request /\ ~At(h, "idle") /\ ~At(h, "confirming") => req[h].email \in Emails
  BY <1>0 DEF RequestOK, At
(* Steps that do not touch links, nor verify anybody.                      *)
<1>1. ASSUME NEW h \in Handlers,
             \/ CheckEmail(h) \/ FindUnverified(h) \/ FindLink(h) \/ InviteStep(h)
             \/ FindInvitation(h) \/ CheckInvited(h) \/ CheckNewUser(h) \/ LoginStep(h)
      PROVE  LinksInv'
  <2>1. /\ ~At(h, "linking") /\ UNCHANGED <<user, link, stranded>>
        /\ \A g \in Handlers \ {h} : req'[g] = req[g]
    BY <1>0, <1>1
    DEF CheckEmail, FindUnverified, FindLink, InviteStep, CheckInvitee, CheckPending, CreateInvitation,
        FindInvitation, CheckInvited, CheckNewUser, LoginStep, CheckLock, Enter, CountFailure, OpenWindow,
        LockOut, ClearAttempts, At, Finish, Goto, accounts, history
  <2> QED
    BY <2>1, LinksStay
(* A new account: only a registration has its address unverified anew.     *)
<1>2. ASSUME NEW h \in Handlers, CommitRegistration(h) \/ CommitAcceptance(h) \/ CreateUser(h)
      PROVE  LinksInv'
  <2> DEFINE e == req[h].email
  <2>1. /\ ~At(h, "linking") /\ UNCHANGED <<link, stranded>> /\ e \in Emails
        /\ \A g \in Handlers \ {h} : req'[g] = req[g]
    BY <1>0, <1>2, <1>q DEF CommitRegistration, CommitAcceptance, CreateUser, At, Finish, Goto, history
  <2>2. CASE user' = user
    BY <2>1, <2>2, LinksStay
  <2>3. ASSUME NEW m, user' = [user EXCEPT ![e] = m],
               \/ m.verified
               \/ ~user[e].verified
               \/ At(h, "linking")' /\ req'[h].email = e
        PROVE  LinksInv'
    <3>1. user'[e] = m /\ \A f \in Emails \ {e} : user'[f] = user[f]
      BY <1>0, <2>1, <2>3
    <3> QED
      BY <1>r, <2>1, <2>3, <3>1, LinksStay
  <2>4. ASSUME CommitRegistration(h), user' # user PROVE LinksInv'
    <3>1. PICK m : user' = [user EXCEPT ![e] = m] /\ Goto(h, "linking")
      BY <2>4 DEF CommitRegistration, accounts
    <3>2. At(h, "linking")' /\ req'[h].email = e
      BY <1>0, <3>1 DEF Goto, At, Request
    <3> QED
      BY <2>3, <3>1, <3>2
  <2>5. ASSUME CommitAcceptance(h), user' # user PROVE LinksInv'
    BY <2>3, <2>5 DEF CommitAcceptance, NewUser
  <2>6. ASSUME CreateUser(h), user' # user PROVE LinksInv'
    <3>1. ~user[e].verified
      <4>1. user[e] = NoUser
        BY <2>6 DEF CreateUser, Registered
      <4> QED
        BY <4>1 DEF NoUser
    <3> QED
      BY <2>3, <2>6, <3>1 DEF CreateUser, NewUser
  <2> QED
    BY <1>2, <2>2, <2>4, <2>5, <2>6
(* The steps that change links: a link that is used was unused, and its    *)
(* address is verified, or gets a new one next.                            *)
<1>u. ASSUME \A v \in Links : /\ link[v] = NoLink => link'[v] = NoLink
                              /\ link[v] # NoLink => /\ link'[v] # NoLink /\ link'[v].state # "absent"
                                                     /\ link'[v].email = link[v].email
      PROVE  LinksInOrder'
  <2>1. ASSUME NEW v \in Links, NEW w \in 1..(v - 1) PROVE w \in Links
    BY ConstantsAssumption DEF Links
  <2> QED
    BY <1>u, <2>1 DEF LinksInv, LinksInOrder
<1>3. ASSUME NEW h \in Handlers, ConfirmEmail(h) PROVE LinksInv'
  <2> DEFINE v == req[h].on
             e == link[v].email
  <2>1. v \in Links /\ link[v] # NoLink /\ e \in Emails
    BY <1>0, <1>3, <1>r DEF ConfirmEmail, At, RequestOK, NoLink
  <2>2. /\ user' = [user EXCEPT ![e].verified = TRUE] /\ link' = [link EXCEPT ![v].state = "used"]
        /\ stranded' = stranded /\ ~At(h, "linking") /\ \A g \in Handlers \ {h} : req'[g] = req[g]
    BY <1>0, <1>3 DEF ConfirmEmail, At, Finish, history
  <2>3. /\ link'[v].state = "used" /\ link'[v].email = e /\ \A w \in Links \ {v} : link'[w] = link[w]
    BY <1>0, <2>1, <2>2
  <2>4. user'[e].verified /\ \A f \in Emails \ {e} : user'[f] = user[f]
    BY <1>0, <2>1, <2>2 DEF Members
  <2>5. LinksInOrder'
    BY <1>u, <2>1, <2>3 DEF LinksInv, LinksInOrder, NoLink
  <2>6. NewestLinkWorks'
    <3> SUFFICES ASSUME NEW w \in Links, link'[w] # NoLink, ~user'[link'[w].email].verified,
                        link'[w].email \notin stranded,
                        \A x \in Links : x > w => link'[x].email # link'[w].email,
                        \A g \in Handlers : At(g, "linking")' => req'[g].email # link'[w].email
                 PROVE  link'[w].state = "unused"
      BY <2>2 DEF NewestLinkWorks
    <3>1. w # v /\ link'[w] = link[w] /\ link[w].email # e /\ link[w].email \in Emails
      BY <1>r, <2>3, <2>4
    <3>2. \A x \in Links : link'[x].email = link[x].email
      BY <2>3
    <3>3. \A g \in Handlers : At(g, "linking") => req[g].email # link[w].email
      BY <2>2, <3>1 DEF At
    <3> QED
      BY <2>2, <2>4, <3>1, <3>2, <3>3 DEF LinksInv, NewestLinkWorks
  <2> QED
    BY <2>5, <2>6 DEF LinksInv
<1>4. ASSUME NEW h \in Handlers, InvalidateLinks(h) PROVE LinksInv'
  <2> DEFINE e == req[h].email
  <2>1. /\ link' = Used(e) /\ Goto(h, "linking") /\ user' = user /\ stranded' = stranded /\ ~At(h, "linking")
    BY <1>4 DEF InvalidateLinks, accounts, history, At
  <2>2. /\ At(h, "linking")' /\ req'[h].email = e /\ \A g \in Handlers \ {h} : req'[g] = req[g]
    BY <1>0, <2>1 DEF Goto, At, Request
  <2>3. \A v \in Links : /\ link'[v].email = link[v].email
                         /\ \/ link'[v] = link[v]
                            \/ link[v].state = "unused" /\ link'[v].state = "used" /\ link'[v].email = e
    BY <1>0, <2>1 DEF Used
  <2>4. LinksInOrder'
    BY <1>u, <2>3 DEF LinksInv, LinksInOrder, NoLink
  <2>5. NewestLinkWorks'
    <3> SUFFICES ASSUME NEW w \in Links, link'[w] # NoLink, ~user[link'[w].email].verified,
                        link'[w].email \notin stranded,
                        \A x \in Links : x > w => link'[x].email # link'[w].email,
                        \A g \in Handlers : At(g, "linking")' => req'[g].email # link'[w].email
                 PROVE  link'[w].state = "unused"
      BY <2>1 DEF NewestLinkWorks
    <3>1. link'[w] = link[w] /\ link[w].email # e
      BY <2>2, <2>3
    <3>2. \A g \in Handlers : At(g, "linking") => req[g].email # link[w].email
      BY <2>1, <2>2, <3>1 DEF At
    <3> QED
      BY <2>3, <3>1, <3>2 DEF LinksInv, NewestLinkWorks
  <2> QED
    BY <2>4, <2>5 DEF LinksInv
<1>5. ASSUME NEW h \in Handlers, CreateLink(h) PROVE LinksInv'
  <2> DEFINE e == req[h].email
  <2>1. PICK v \in Links : /\ link[v] = NoLink /\ \A w \in 1..(v - 1) : link[w] # NoLink
                           /\ link' = [link EXCEPT ![v] = [state |-> "unused", email |-> e]]
    BY <1>5 DEF CreateLink
  <2>2. /\ stranded' = stranded \ {e} /\ user' = user /\ At(h, "linking") /\ e \in Emails
        /\ \A g \in Handlers \ {h} : req'[g] = req[g]
    BY <1>0, <1>5, <1>q DEF CreateLink, Finish, accounts, At
  <2>3. /\ link'[v].state = "unused" /\ link'[v].email = e /\ link'[v] # NoLink
        /\ \A w \in Links \ {v} : link'[w] = link[w]
    BY <1>0, <2>1 DEF NoLink
  <2>4. ASSUME NEW w \in Links, link'[w] # NoLink, w # v PROVE w < v
    <3>1. w \in Nat /\ v \in Nat /\ v >= 1 /\ link[w] # NoLink
      BY <2>3, <2>4, ConstantsAssumption DEF Links
    <3>2. v \notin 1..(w - 1)
      BY <2>1, <3>1 DEF LinksInv, LinksInOrder
    <3> QED
      BY <2>4, <3>1, <3>2
  <2>5. LinksInOrder'
    <3> SUFFICES ASSUME NEW w \in Links, link'[w] # NoLink
                 PROVE  link'[w].state # "absent" /\ \A x \in 1..(w - 1) : link'[x] # NoLink
      BY DEF LinksInOrder
    <3>1. ASSUME NEW x \in 1..(w - 1) PROVE x \in Links
      BY ConstantsAssumption DEF Links
    <3> QED
      BY <2>1, <2>3, <3>1 DEF LinksInv, LinksInOrder
  <2>6. NewestLinkWorks'
    <3> SUFFICES ASSUME NEW w \in Links, link'[w] # NoLink, ~user[link'[w].email].verified,
                        link'[w].email \notin stranded \ {e},
                        \A x \in Links : x > w => link'[x].email # link'[w].email,
                        \A g \in Handlers : At(g, "linking")' => req'[g].email # link'[w].email
                 PROVE  link'[w].state = "unused"
      BY <2>2 DEF NewestLinkWorks
    <3>1. CASE w = v
      BY <2>3, <3>1
    <3>2. CASE w # v
      <4>1. link'[w] = link[w] /\ w < v /\ w \in Nat /\ v \in Nat
        BY <2>3, <2>4, <3>2, ConstantsAssumption DEF Links
      <4>2. link[w].email # e
        BY <2>3, <4>1
      <4>3. \A g \in Handlers : At(g, "linking") => req[g].email # link[w].email
        BY <2>2, <4>1, <4>2 DEF At
      <4>4. \A x \in Links : x > w => link[x].email # link[w].email
        <5>1. link[v].email # link[w].email
          BY <1>r, <2>1, <4>1, ConstantsAssumption DEF NoLink
        <5> QED
          BY <2>3, <4>1, <5>1
      <4> QED
        BY <4>1, <4>2, <4>3, <4>4 DEF LinksInv, NewestLinkWorks
    <3> QED
      BY <3>1, <3>2
  <2> QED
    BY <2>5, <2>6 DEF LinksInv
<1>6. ASSUME NEW h \in Handlers, Fail(h) PROVE LinksInv'
  <2>1. /\ UNCHANGED <<user, link>> /\ \A g \in Handlers \ {h} : req'[g] = req[g]
        /\ stranded' = IF At(h, "linking") THEN stranded \cup {req[h].email} ELSE stranded
    BY <1>0, <1>6 DEF Fail, Finish, accounts
  <2>2. LinksInOrder'
    BY <2>1 DEF LinksInv, LinksInOrder
  <2>3. NewestLinkWorks'
    BY <2>1 DEF LinksInv, NewestLinkWorks, At
  <2> QED
    BY <2>2, <2>3 DEF LinksInv
<1>7. ASSUME NEW e \in Emails, RemoveUser(e) PROVE LinksInv'
  <2>1. UNCHANGED <<link, req, stranded>> /\ user' = [user EXCEPT ![e].removed = TRUE]
    BY <1>7 DEF RemoveUser, history
  <2>2. \A f \in Emails : user'[f].verified = user[f].verified
    BY <1>0, <2>1 DEF Members
  <2>3. LinksInOrder' /\ NewestLinkWorks'
    BY <1>r, <2>1, <2>2 DEF LinksInv, LinksInOrder, NewestLinkWorks, At
  <2> QED
    BY <2>3 DEF LinksInv
<1>8. ASSUME UNCHANGED <<user, link, req, stranded>> PROVE LinksInv'
  BY <1>8 DEF LinksInv, LinksInOrder, NewestLinkWorks, At
<1> QED
  BY <1>1, <1>2, <1>3, <1>4, <1>5, <1>6, <1>7, <1>8
  DEF Next, RegisterStep, VerifyStep, JoinStep, ExpireKeys, ExpireInvitation, accounts, history, vars

(* The newest link of an unverified user works, whatever requests overlap, *)
(* for any number of addresses and of links.                               *)
THEOREM NewestLinkAlwaysWorks == Spec => []NewestLinkWorks
<1>1. Init => LinksInv
  BY DEF Init, LinksInv, LinksInOrder, NewestLinkWorks
<1>2. IInv /\ LinksInv /\ [Next]_vars => LinksInv'
  BY LinksStep
<1>3. LinksInv => NewestLinkWorks
  BY DEF LinksInv
<1> QED
  BY <1>1, <1>2, <1>3, InvHolds, PTL DEF Spec
==============================================================================
