---------------------------- MODULE ProfileCache -----------------------------
(***************************************************************************)
(* The answers kept in Redis in front of the database: user:<id>,          *)
(* company:<id> and plans:public.  A read that misses loads the rows and   *)
(* fills the entry; a write deletes the entry after it has written; some   *)
(* writes do not know of the entry.  The steps of all handlers interleave. *)
(*                                                                         *)
(* row[k]      what an entry is about, as a version that every write       *)
(*             raises, and whether it is soft-deleted.                     *)
(* cache[k]    the version in the entry, or NoEntry.                       *)
(* req[h]      the request in handler h; missed is history: an             *)
(*             invalidation of the key came after the read that the        *)
(*             handler is about to fill the entry with.                    *)
(* excused[k]  history: the entry was filled by such a handler, or was not *)
(*             deleted by a write it is older than.                        *)
(***************************************************************************)
EXTENDS Integers

CONSTANTS
  Users, Companies,
  PlanLists,    \* the one list of public plans
  Handlers,
  MaxVersion    \* bound: the writes of a row

Keys == Users \cup Companies \cup PlanLists

ASSUME MaxVersionAssumption == MaxVersion \in Nat \ {0}

VARIABLES row, cache, req, excused

vars == <<row, cache, req, excused>>

NoEntry == 0
Idle == [pc |-> "idle", key |-> "none", version |-> 0, removes |-> FALSE, missed |-> FALSE]
Labels == {"idle", "missed", "filling", "found", "written"}

Init ==
  /\ row = [k \in Keys |-> [version |-> 1, removed |-> FALSE]]
  /\ cache = [k \in Keys |-> NoEntry]
  /\ req = [h \in Handlers |-> Idle]
  /\ excused = [k \in Keys |-> FALSE]

At(h, label) == req[h].pc = label
Finish(h) == req' = [req EXCEPT ![h] = Idle]

------------------------------------------------------------------------------
(* Reads: getMyProfile and getProfile, findWithSubscription,               *)
(* getPublicPlans.  A hit answers and changes nothing.                     *)

Lookup(h) ==
  \E k \in Keys :
    /\ At(h, "idle") /\ cache[k] = NoEntry
    /\ req' = [req EXCEPT ![h] = [Idle EXCEPT !.pc = "missed", !.key = k]]
    /\ UNCHANGED <<row, cache, excused>>

(* The row of the handler is read, to be cached when it is found.          *)
Load(h, found) ==
  /\ At(h, "missed")
  /\ IF found
     THEN req' = [req EXCEPT ![h].pc = "filling", ![h].version = row[req[h].key].version]
     ELSE Finish(h)
  /\ UNCHANGED <<row, cache, excused>>

LoadUser(h) == req[h].key \in Users /\ Load(h, ~row[req[h].key].removed)

LoadCompany(h) == req[h].key \in Companies /\ Load(h, ~row[req[h].key].removed)

LoadPlans(h) == req[h].key \in PlanLists /\ Load(h, TRUE)

(* cache.set, with the time to live.                                       *)
Fill(h) ==
  LET k == req[h].key
  IN  /\ At(h, "filling")
      /\ cache' = [cache EXCEPT ![k] = req[h].version]
      /\ excused' = [excused EXCEPT ![k] = req[h].missed]
      /\ Finish(h)
      /\ UNCHANGED row

(* Mutant of Expire: the entries have no time to live.                     *)
ExpireNever(k) == FALSE /\ UNCHANGED vars

Drop(k) ==
  /\ cache' = [cache EXCEPT ![k] = NoEntry]
  /\ excused' = [excused EXCEPT ![k] = FALSE]

(* The time to live ends.                                                  *)
Expire(k) ==
  /\ cache[k] # NoEntry
  /\ Drop(k)
  /\ UNCHANGED <<row, req>>

------------------------------------------------------------------------------
(* Writes that delete the entry.                                           *)

Choose(h, k, removes) ==
  /\ At(h, "idle")
  /\ req' = [req EXCEPT ![h] = [Idle EXCEPT !.pc = "found", !.key = k, !.removes = removes]]
  /\ UNCHANGED <<row, cache, excused>>

(* findUserOrThrow, and the user in updateMyProfile and deleteMyAccount.   *)
FindUser(h) ==
  \E u \in Users, removes \in BOOLEAN : ~row[u].removed /\ Choose(h, u, removes)

(* confirmEmail and resetPassword find a token; its user may be removed.   *)
FindToken(h) == \E u \in Users : Choose(h, u, FALSE)

(* changePlan finds a subscription; its company may be removed.            *)
FindSubscription(h) == \E c \in Companies : Choose(h, c, FALSE)

(* findById                                                                *)
FindCompany(h) ==
  \E c \in Companies, removes \in BOOLEAN : ~row[c].removed /\ Choose(h, c, removes)

Changed(k, removes) ==
  row' = [row EXCEPT ![k] = [version |-> @.version + 1, removed |-> @.removed \/ removes]]

Write(h) ==
  /\ At(h, "found") /\ row[req[h].key].version < MaxVersion
  /\ Changed(req[h].key, req[h].removes)
  /\ req' = [req EXCEPT ![h].pc = "written"]
  /\ UNCHANGED <<cache, excused>>

(* Mutant of UpdateUser: the entry is not deleted.                         *)
UpdateUserOnly(h) ==
  /\ req[h].key \in Users /\ ~req[h].removes /\ At(h, "found")
  /\ row[req[h].key].version < MaxVersion
  /\ Changed(req[h].key, FALSE)
  /\ Finish(h)
  /\ UNCHANGED <<cache, excused>>

UpdateUser(h) == req[h].key \in Users /\ ~req[h].removes /\ Write(h)

RemoveUser(h) == req[h].key \in Users /\ req[h].removes /\ Write(h)

(* update, uploadLogo and changePlan.                                      *)
UpdateCompany(h) == req[h].key \in Companies /\ ~req[h].removes /\ Write(h)

DeleteCompany(h) == req[h].key \in Companies /\ req[h].removes /\ Write(h)

(* The requests when something happens to the entries of the given keys:   *)
(* whoever has read one of them and not yet filled its entry misses it.    *)
Missing(keys) ==
  [g \in Handlers |->
     IF req[g].key \in keys /\ At(g, "filling") THEN [req[g] EXCEPT !.missed = TRUE] ELSE req[g]]

(* createPlan, updatePlan, deactivatePlan and activatePlan look at nothing *)
(* before they write.  The companies that have the plan are cached with    *)
(* it, and their entries are left alone.                                   *)
ChangePlans(h) ==
  \E k \in PlanLists, affected \in SUBSET Companies :
    /\ At(h, "idle")
    /\ \A j \in affected \cup {k} : row[j].version < MaxVersion
    /\ row' = [j \in Keys |-> IF j \in affected \cup {k}
                              THEN [row[j] EXCEPT !.version = @ + 1] ELSE row[j]]
    /\ excused' = [j \in Keys |-> excused[j] \/ j \in affected]
    /\ req' = [Missing(affected) EXCEPT ![h] = [Idle EXCEPT !.pc = "written", !.key = k]]
    /\ UNCHANGED cache

(* cache.del                                                               *)
Invalidate(h) ==
  /\ At(h, "written")
  /\ Drop(req[h].key)
  /\ req' = [Missing({req[h].key}) EXCEPT ![h] = Idle]
  /\ UNCHANGED row

(* The process dies, or Redis does not answer, before the entry is gone.   *)
LoseInvalidation(h) ==
  /\ At(h, "written")
  /\ excused' = [excused EXCEPT ![req[h].key] = TRUE]
  /\ req' = [Missing({req[h].key}) EXCEPT ![h] = Idle]
  /\ UNCHANGED <<row, cache>>

(* A request fails before it has written or filled anything.               *)
Fail(h) ==
  /\ req[h].pc \in {"missed", "filling", "found"}
  /\ Finish(h)
  /\ UNCHANGED <<row, cache, excused>>

------------------------------------------------------------------------------
(* Writes that leave the entry alone, each one statement by id.            *)

Bypass(k) ==
  /\ row[k].version < MaxVersion
  /\ excused' = [excused EXCEPT ![k] = TRUE]
  /\ req' = Missing({k})
  /\ UNCHANGED cache

(* changePassword                                                          *)
ChangePassword == \E u \in Users : ~row[u].removed /\ Changed(u, FALSE) /\ Bypass(u)

(* A webhook changes the subscription that is cached with its company.     *)
SyncSubscription == \E c \in Companies : Changed(c, FALSE) /\ Bypass(c)

(* AdminService                                                            *)
DeactivateCompany == \E c \in Companies : ~row[c].removed /\ Changed(c, TRUE) /\ Bypass(c)

ReactivateCompany ==
  \E c \in Companies :
    /\ row[c].removed
    /\ row' = [row EXCEPT ![c] = [version |-> @.version + 1, removed |-> FALSE]]
    /\ Bypass(c)

------------------------------------------------------------------------------

ReadStep(h) == LoadUser(h) \/ LoadCompany(h) \/ LoadPlans(h) \/ Fill(h)

WriteStep(h) ==
  UpdateUser(h) \/ RemoveUser(h) \/ UpdateCompany(h) \/ DeleteCompany(h) \/ Invalidate(h)

Start(h) ==
  \/ Lookup(h) \/ FindUser(h) \/ FindToken(h)
  \/ FindCompany(h) \/ FindSubscription(h) \/ ChangePlans(h)

Elsewhere == ChangePassword \/ SyncSubscription \/ DeactivateCompany \/ ReactivateCompany

Next ==
  \/ \E h \in Handlers : Start(h) \/ ReadStep(h) \/ WriteStep(h) \/ LoseInvalidation(h) \/ Fail(h)
  \/ \E k \in Keys : Expire(k)
  \/ Elsewhere

(* Redis expires what has a time to live, and a request that has missed or *)
(* written goes on.                                                        *)
Fairness ==
  /\ \A k \in Keys : WF_vars(Expire(k))
  /\ \A h \in Handlers : WF_vars(ReadStep(h) \/ Invalidate(h) \/ Fail(h))

Spec == Init /\ [][Next]_vars /\ Fairness

------------------------------------------------------------------------------

(* Types, for what the handlers hold too.                                  *)
Request ==
  [pc : Labels, key : Keys \cup {"none"}, version : Nat, removes : BOOLEAN, missed : BOOLEAN]
TypeOK ==
  /\ row \in [Keys -> [version : 1..MaxVersion, removed : BOOLEAN]]
  /\ cache \in [Keys -> 0..MaxVersion]
  /\ req \in [Handlers -> Request]
  /\ \A h \in Handlers : req[h].pc # "idle" => req[h].key \in Keys
  /\ \A h \in Handlers : At(h, "filling") => req[h].version \in 1..MaxVersion
  /\ excused \in [Keys -> BOOLEAN]

Stale(k) == cache[k] \notin {NoEntry, row[k].version}

Due(k) == \E h \in Handlers : At(h, "written") /\ req[h].key = k

(* An entry that is older than its row has one of four causes: the writer  *)
(* is still about to delete it; it was put there by a read that began      *)
(* before a deletion and ended after it; its deletion was lost; or it was  *)
(* written by somebody who does not delete it.  Nothing else makes it      *)
(* stale, in whatever order reads, writes, fills and deletions come.       *)
StaleHasCause == \A k \in Keys : Stale(k) => excused[k] \/ Due(k)

(* Once nobody writes any more, the entries agree with the rows and stay   *)
(* so: whatever made one stale, it ends with its time to live.             *)
EventuallyFresh == <>[](\A k \in Keys : ~Stale(k))
==============================================================================
