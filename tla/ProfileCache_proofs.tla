------------------------- MODULE ProfileCache_proofs -------------------------
(* Proofs about ProfileCache, for any users, companies and handlers.       *)
EXTENDS ProfileCache, TLAPS

(* What a handler is about to put into an entry is the row as it is, or    *)
(* the entry will have one of the causes of StaleHasCause.                 *)
FillsHaveCause ==
  \A h \in Handlers :
    At(h, "filling") =>
      \/ req[h].version = row[req[h].key].version
      \/ req[h].missed
      \/ Due(req[h].key)

IInv == TypeOK /\ StaleHasCause /\ FillsHaveCause

LEMMA InitInv == Init => IInv
BY MaxVersionAssumption
DEF Init, IInv, TypeOK, StaleHasCause, FillsHaveCause, Stale, Request, Idle, Labels, NoEntry, At

LEMMA IdleIsRequest == Idle \in Request /\ Idle.pc = "idle"
BY DEF Idle, Request, Labels

(* A handler that has not written takes another request, or drops its own: *)
(* whoever is due to delete an entry still is.                             *)
LEMMA RequestStep ==
  ASSUME IInv, NEW h \in Handlers, ~At(h, "written"), NEW q \in Request,
         req' = [req EXCEPT ![h] = q], UNCHANGED <<row, cache, excused>>,
         q.pc # "idle" => q.key \in Keys,
         q.pc = "filling" => q.version = row[q.key].version
  PROVE  IInv'
<1>1. req'[h] = q /\ (\A g \in Handlers \ {h} : req'[g] = req[g]) /\ req' \in [Handlers -> Request]
  BY DEF IInv, TypeOK
<1>2. \A k \in Keys : Due(k) => Due(k)'
  BY <1>1 DEF Due, At
<1>3. TypeOK'
  BY <1>1 DEF IInv, TypeOK, At, Request
<1>4. StaleHasCause'
  BY <1>2 DEF IInv, StaleHasCause, Stale
<1>5. FillsHaveCause'
  BY <1>1, <1>2 DEF IInv, TypeOK, FillsHaveCause, At
<1> QED
  BY <1>3, <1>4, <1>5 DEF IInv

(* What Missing does to the requests.                                      *)
LEMMA MissStep ==
  ASSUME TypeOK, NEW keys
  PROVE  /\ Missing(keys) \in [Handlers -> Request]
         /\ \A g \in Handlers :
              /\ Missing(keys)[g].pc = req[g].pc /\ Missing(keys)[g].key = req[g].key
              /\ Missing(keys)[g].version = req[g].version /\ (req[g].missed => Missing(keys)[g].missed)
              /\ At(g, "filling") /\ req[g].key \in keys => Missing(keys)[g].missed
<1>1. \A g \in Handlers : req[g] \in Request
  BY DEF TypeOK
<1>2. \A g \in Handlers :
        Missing(keys)[g] = IF req[g].key \in keys /\ At(g, "filling")
                           THEN [req[g] EXCEPT !.missed = TRUE] ELSE req[g]
  BY DEF Missing
<1>3. ASSUME NEW r \in Request
      PROVE  /\ [r EXCEPT !.missed = TRUE] \in Request
             /\ [r EXCEPT !.missed = TRUE].pc = r.pc /\ [r EXCEPT !.missed = TRUE].key = r.key
             /\ [r EXCEPT !.missed = TRUE].version = r.version /\ [r EXCEPT !.missed = TRUE].missed
  BY DEF Request
<1>4. \A g \in Handlers : Missing(keys)[g] \in Request
  BY <1>1, <1>2, <1>3
<1>5. Missing(keys) \in [Handlers -> Request]
  BY <1>4 DEF Missing
<1> QED
  BY <1>1, <1>2, <1>3, <1>5

(* Nobody who is done with entry k leaves it stale without a cause: the    *)
(* entry is empty or excused, and whoever is about to fill it has missed.  *)
LEMMA DoneStep ==
  ASSUME IInv, NEW k \in Keys, NEW done \in SUBSET Handlers, TypeOK',
         \A h \in done : At(h, "written") /\ req[h].key = k /\ req'[h] = Idle,
         \A h \in Handlers \ done : req'[h] = Missing({k})[h],
         cache'[k] = NoEntry \/ excused'[k],
         \A j \in Keys \ {k} : row'[j] = row[j] /\ cache'[j] = cache[j] /\ excused'[j] = excused[j]
  PROVE  IInv'
<1>1. /\ \A g \in done : req'[g] = Idle
      /\ \A g \in Handlers \ done :
           /\ req'[g].pc = req[g].pc /\ req'[g].key = req[g].key
           /\ req'[g].version = req[g].version /\ (req[g].missed => req'[g].missed)
           /\ At(g, "filling") /\ req[g].key = k => req'[g].missed
  BY MissStep DEF IInv
<1>2. \A j \in Keys \ {k} : Due(j) => Due(j)'
  BY <1>1 DEF Due, At
<1>3. StaleHasCause'
  BY <1>2 DEF IInv, StaleHasCause, Stale
<1>4. ASSUME NEW g \in Handlers, At(g, "filling")'
      PROVE  \/ req'[g].version = row'[req'[g].key].version
             \/ req'[g].missed
             \/ Due(req[g].key)'
  <2>1. g \notin done /\ At(g, "filling")
    BY <1>1, <1>4, IdleIsRequest DEF At
  <2>2. req[g].key \in Keys
    BY <2>1 DEF IInv, TypeOK, At
  <2>3. /\ req'[g].key = req[g].key /\ req'[g].version = req[g].version
        /\ req[g].missed => req'[g].missed
        /\ req[g].key = k => req'[g].missed
    BY <1>1, <2>1
  <2>4. req[g].version = row[req[g].key].version \/ req[g].missed \/ Due(req[g].key)
    BY <2>1 DEF IInv, FillsHaveCause
  <2>5. CASE req[g].key = k
    BY <2>3, <2>5
  <2>6. CASE req[g].key # k
    BY <1>2, <2>2, <2>3, <2>4, <2>6
  <2> QED
    BY <2>5, <2>6
<1>5. FillsHaveCause'
  BY <1>4 DEF FillsHaveCause
<1> QED
  BY <1>3, <1>5 DEF IInv

(* A write of k by h that is going to delete the entry.                    *)
LEMMA WriteStepKeeps ==
  ASSUME IInv, NEW h \in Handlers, ~At(h, "written"), NEW k \in Keys, NEW removes \in BOOLEAN,
         row[k].version < MaxVersion, Changed(k, removes), UNCHANGED <<cache, excused>>,
         NEW q \in Request, q.pc = "written", q.key = k, req' = [req EXCEPT ![h] = q]
  PROVE  IInv'
<1>1. req'[h] = q /\ (\A g \in Handlers \ {h} : req'[g] = req[g]) /\ req' \in [Handlers -> Request]
  BY DEF IInv, TypeOK
<1>2. Due(k)' /\ \A j \in Keys : Due(j) => Due(j)'
  BY <1>1 DEF Due, At
<1>3. row' \in [Keys -> [version : 1..MaxVersion, removed : BOOLEAN]]
  <2> DEFINE b == row[k].removed \/ removes
             r == [version |-> row[k].version + 1, removed |-> b]
  <2>1. row[k].version \in 1..MaxVersion /\ b \in BOOLEAN
    BY DEF IInv, TypeOK
  <2> HIDE DEF b
  <2>2. r \in [version : 1..MaxVersion, removed : BOOLEAN]
    BY <2>1, MaxVersionAssumption
  <2> USE DEF b
  <2>3. row' = [row EXCEPT ![k] = r]
    BY DEF Changed, IInv, TypeOK
  <2> HIDE DEF r
  <2> QED
    BY <2>2, <2>3 DEF IInv, TypeOK
<1>4. \A j \in Keys \ {k} : row'[j] = row[j]
  BY DEF IInv, TypeOK, Changed
<1>5. TypeOK'
  BY <1>1, <1>3 DEF IInv, TypeOK, At
<1>6. StaleHasCause'
  BY <1>2, <1>4 DEF IInv, StaleHasCause, Stale
<1>7. FillsHaveCause'
  BY <1>1, <1>2, <1>4 DEF IInv, TypeOK, FillsHaveCause, At
<1> QED
  BY <1>5, <1>6, <1>7 DEF IInv

LEMMA ChooseKeeps ==
  ASSUME IInv, NEW h \in Handlers, NEW k \in Keys, NEW removes \in BOOLEAN, Choose(h, k, removes)
  PROVE  IInv'
<1> DEFINE q == [Idle EXCEPT !.pc = "found", !.key = k, !.removes = removes]
<1>1. q \in Request /\ q.pc = "found" /\ q.key = k
  BY IdleIsRequest DEF Request, Labels
<1>2. req' = [req EXCEPT ![h] = q] /\ UNCHANGED <<row, cache, excused>> /\ ~At(h, "written")
  BY DEF Choose, At
<1> HIDE DEF q
<1> QED
  BY <1>1, <1>2, RequestStep

LEMMA LoadKeeps ==
  ASSUME IInv, NEW h \in Handlers, NEW found \in BOOLEAN, Load(h, found)
  PROVE  IInv'
<1>0. req[h] \in Request /\ At(h, "missed") /\ req[h].key \in Keys /\ UNCHANGED <<row, cache, excused>>
  BY DEF IInv, TypeOK, Load, At
<1> DEFINE q == [req[h] EXCEPT !.pc = "filling", !.version = row[req[h].key].version]
<1>1. CASE found
  <2>1. row[req[h].key].version \in Nat
    BY <1>0, MaxVersionAssumption DEF IInv, TypeOK
  <2>2. q \in Request /\ q.pc = "filling" /\ q.key = req[h].key /\ q.version = row[req[h].key].version
    BY <1>0, <2>1 DEF Request, Labels
  <2>3. req' = [req EXCEPT ![h] = q]
    BY <1>1 DEF Load, IInv, TypeOK
  <2> HIDE DEF q
  <2> QED
    BY <1>0, <2>2, <2>3, RequestStep DEF At
<1>2. CASE ~found
  BY <1>0, <1>2, RequestStep, IdleIsRequest DEF Load, Finish, At
<1> QED
  BY <1>1, <1>2

LEMMA FillKeeps == ASSUME IInv, NEW h \in Handlers, Fill(h) PROVE IInv'
<1> DEFINE k == req[h].key
<1>0. /\ k \in Keys /\ At(h, "filling") /\ row' = row /\ req' = [req EXCEPT ![h] = Idle]
      /\ req[h].version \in 1..MaxVersion /\ req[h].missed \in BOOLEAN
      /\ cache' = [cache EXCEPT ![k] = req[h].version]
      /\ excused' = [excused EXCEPT ![k] = req[h].missed]
  BY DEF IInv, TypeOK, Fill, Finish, At, Request
<1>1. req'[h] = Idle /\ (\A g \in Handlers \ {h} : req'[g] = req[g]) /\ req' \in [Handlers -> Request]
  BY <1>0, IdleIsRequest DEF IInv, TypeOK
<1>2. \A j \in Keys : Due(j) => Due(j)'
  BY <1>0, <1>1 DEF Due, At
<1>3. TypeOK'
  BY <1>0, <1>1, IdleIsRequest, MaxVersionAssumption DEF IInv, TypeOK, At
<1>4. ASSUME NEW j \in Keys PROVE Stale(j)' => excused'[j] \/ Due(j)'
  <2>1. CASE j = k
    <3>1. cache'[j] = req[h].version /\ excused'[j] = req[h].missed
      BY <1>0, <2>1 DEF IInv, TypeOK
    <3>2. req[h].version = row[j].version \/ req[h].missed \/ Due(j)
      BY <1>0, <2>1 DEF IInv, FillsHaveCause
    <3> QED
      BY <1>0, <1>2, <3>1, <3>2 DEF Stale
  <2>2. CASE j # k
    <3>1. cache'[j] = cache[j] /\ excused'[j] = excused[j]
      BY <1>0, <2>2 DEF IInv, TypeOK
    <3> QED
      BY <1>0, <1>2, <3>1 DEF IInv, StaleHasCause, Stale
  <2> QED
    BY <2>1, <2>2
<1>5. FillsHaveCause'
  BY <1>0, <1>1, <1>2, IdleIsRequest DEF IInv, TypeOK, FillsHaveCause, At
<1> QED
  BY <1>3, <1>4, <1>5 DEF IInv, StaleHasCause

LEMMA WriteKeeps == ASSUME IInv, NEW h \in Handlers, Write(h) PROVE IInv'
<1>1. req[h] \in Request /\ At(h, "found") /\ req[h].key \in Keys /\ req[h].removes \in BOOLEAN
  BY DEF IInv, TypeOK, Write, At, Request
<1> DEFINE q == [req[h] EXCEPT !.pc = "written"]
<1>2. q \in Request /\ q.pc = "written" /\ q.key = req[h].key
  BY <1>1 DEF Request, Labels
<1>3. /\ req' = [req EXCEPT ![h] = q] /\ UNCHANGED <<cache, excused>>
      /\ row[req[h].key].version < MaxVersion /\ Changed(req[h].key, req[h].removes)
  BY DEF Write, IInv, TypeOK
<1> HIDE DEF q
<1> QED
  BY <1>1, <1>2, <1>3, WriteStepKeeps DEF At

(* A change of the plans: the entry of the list is due to be deleted, and  *)
(* those of the companies that have the plan are excused.                  *)
LEMMA ChangePlansKeeps == ASSUME IInv, NEW h \in Handlers, ChangePlans(h) PROVE IInv'
<1>1. PICK k \in PlanLists, affected \in SUBSET Companies :
        /\ At(h, "idle")
        /\ \A j \in affected \cup {k} : row[j].version < MaxVersion
        /\ row' = [j \in Keys |-> IF j \in affected \cup {k}
                                  THEN [row[j] EXCEPT !.version = @ + 1] ELSE row[j]]
        /\ excused' = [j \in Keys |-> excused[j] \/ j \in affected]
        /\ req' = [Missing(affected) EXCEPT ![h] = [Idle EXCEPT !.pc = "written", !.key = k]]
        /\ cache' = cache
  BY DEF ChangePlans
<1> DEFINE q == [Idle EXCEPT !.pc = "written", !.key = k]
<1>2. q \in Request /\ q.pc = "written" /\ q.key = k /\ k \in Keys
  BY IdleIsRequest DEF Request, Labels, Keys
<1>3. req' = [Missing(affected) EXCEPT ![h] = q]
  BY <1>1
<1> HIDE DEF q
<1>4. /\ req' \in [Handlers -> Request] /\ req'[h] = q
      /\ \A g \in Handlers \ {h} :
           /\ req'[g].pc = req[g].pc /\ req'[g].key = req[g].key
           /\ req'[g].version = req[g].version /\ (req[g].missed => req'[g].missed)
           /\ At(g, "filling") /\ req[g].key \in affected => req'[g].missed
  BY <1>2, <1>3, MissStep DEF IInv
<1>5. Due(k)' /\ \A j \in Keys : Due(j) => Due(j)'
  BY <1>1, <1>2, <1>4 DEF Due, At
<1>6. row' \in [Keys -> [version : 1..MaxVersion, removed : BOOLEAN]]
  <2>1. ASSUME NEW j \in Keys PROVE row'[j] \in [version : 1..MaxVersion, removed : BOOLEAN]
    <3>1. row[j] \in [version : 1..MaxVersion, removed : BOOLEAN]
      BY DEF IInv, TypeOK
    <3>2. CASE j \in affected \cup {k}
      <4>1. row[j].version + 1 \in 1..MaxVersion
        BY <1>1, <3>1, <3>2, MaxVersionAssumption
      <4>2. row'[j] = [row[j] EXCEPT !.version = row[j].version + 1]
        BY <1>1, <3>2
      <4> QED
        BY <3>1, <4>1, <4>2
    <3>3. CASE j \notin affected \cup {k}
      BY <1>1, <3>1, <3>3
    <3> QED
      BY <3>2, <3>3
  <2> QED
    BY <1>1, <2>1
<1>7. \A j \in Keys :
        /\ cache'[j] = cache[j] /\ (excused[j] => excused'[j])
        /\ row'[j] = row[j] \/ j = k \/ (j \in affected /\ excused'[j])
  BY <1>1
<1>8. TypeOK'
  BY <1>1, <1>2, <1>4, <1>6 DEF IInv, TypeOK, At
<1>9. StaleHasCause'
  BY <1>5, <1>7 DEF IInv, StaleHasCause, Stale
<1>10. ASSUME NEW g \in Handlers, At(g, "filling")'
       PROVE  \/ req'[g].version = row'[req'[g].key].version
              \/ req'[g].missed
              \/ Due(req[g].key)'
  <2>1. g # h /\ At(g, "filling")
    BY <1>2, <1>4, <1>10 DEF At
  <2>2. req[g].key \in Keys /\ req'[g].key = req[g].key /\ req'[g].version = req[g].version
    BY <1>4, <2>1 DEF IInv, TypeOK, At
  <2>3. req[g].version = row[req[g].key].version \/ req[g].missed \/ Due(req[g].key)
    BY <2>1 DEF IInv, FillsHaveCause
  <2> QED
    BY <1>4, <1>5, <1>7, <2>1, <2>2, <2>3
<1>11. FillsHaveCause'
  BY <1>10 DEF FillsHaveCause
<1> QED
  BY <1>8, <1>9, <1>11 DEF IInv

LEMMA LookupKeeps == ASSUME IInv, NEW h \in Handlers, Lookup(h) PROVE IInv'
<1>1. PICK k \in Keys : req' = [req EXCEPT ![h] = [Idle EXCEPT !.pc = "missed", !.key = k]]
  BY DEF Lookup
<1> DEFINE q == [Idle EXCEPT !.pc = "missed", !.key = k]
<1>2. q \in Request /\ q.pc = "missed" /\ q.key = k
  BY IdleIsRequest DEF Request, Labels
<1>3. UNCHANGED <<row, cache, excused>> /\ ~At(h, "written") /\ req' = [req EXCEPT ![h] = q]
  BY <1>1 DEF Lookup, At
<1> HIDE DEF q
<1> QED
  BY <1>2, <1>3, RequestStep

(* The deletion of the entry, or its loss.                                 *)
LEMMA DeletionKeeps ==
  ASSUME IInv, NEW h \in Handlers, Invalidate(h) \/ LoseInvalidation(h)
  PROVE  IInv'
<1> DEFINE k == req[h].key
<1>1. k \in Keys /\ At(h, "written") /\ req' = [Missing({k}) EXCEPT ![h] = Idle] /\ row' = row
  BY DEF IInv, TypeOK, Invalidate, LoseInvalidation, At
<1>2. /\ cache' \in [Keys -> 0..MaxVersion] /\ excused' \in [Keys -> BOOLEAN]
      /\ cache'[k] = NoEntry \/ excused'[k]
      /\ \A j \in Keys \ {k} : row'[j] = row[j] /\ cache'[j] = cache[j] /\ excused'[j] = excused[j]
  <2>1. CASE Invalidate(h)
    <3>1. cache' = [cache EXCEPT ![k] = 0] /\ excused' = [excused EXCEPT ![k] = FALSE]
      BY <2>1 DEF Invalidate, Drop, NoEntry
    <3>2. cache' \in [Keys -> 0..MaxVersion] /\ excused' \in [Keys -> BOOLEAN]
      BY <1>1, <3>1, MaxVersionAssumption DEF IInv, TypeOK
    <3>3. cache'[k] = NoEntry
      BY <1>1, <3>1 DEF IInv, TypeOK, NoEntry
    <3>4. \A j \in Keys \ {k} : row'[j] = row[j] /\ cache'[j] = cache[j] /\ excused'[j] = excused[j]
      BY <1>1, <3>1 DEF IInv, TypeOK
    <3> QED
      BY <3>2, <3>3, <3>4
  <2>2. CASE LoseInvalidation(h)
    BY <1>1, <2>2 DEF IInv, TypeOK, LoseInvalidation
  <2> QED
    BY <2>1, <2>2
<1>3. /\ req' \in [Handlers -> Request] /\ req'[h] = Idle
      /\ \A g \in Handlers \ {h} :
           /\ req'[g] = Missing({k})[g]
           /\ req'[g].pc = req[g].pc /\ req'[g].key = req[g].key /\ req'[g].version = req[g].version
  BY <1>1, MissStep, IdleIsRequest DEF IInv
<1>4. TypeOK'
  <2>1. \A g \in Handlers :
          /\ req'[g].pc # "idle" => req'[g].key \in Keys
          /\ req'[g].pc = "filling" => req'[g].version \in 1..MaxVersion
    BY <1>3, IdleIsRequest DEF IInv, TypeOK, At
  <2>2. row' \in [Keys -> [version : 1..MaxVersion, removed : BOOLEAN]]
    BY <1>1 DEF IInv, TypeOK
  <2> QED
    BY <1>2, <1>3, <2>1, <2>2 DEF TypeOK, At
<1> HIDE DEF k
<1> DEFINE done == {h}
<1>5. /\ \A g \in done : At(g, "written") /\ req[g].key = k /\ req'[g] = Idle
      /\ \A g \in Handlers \ done : req'[g] = Missing({k})[g]
      /\ done \in SUBSET Handlers
  BY <1>1, <1>3 DEF k
<1> HIDE DEF done
<1> QED
  BY <1>1, <1>2, <1>4, <1>5, DoneStep

(* A write that does not know of the entry.                                *)
LEMMA BypassKeeps ==
  ASSUME IInv, NEW k \in Keys, Bypass(k), NEW removed \in BOOLEAN,
         row' = [row EXCEPT ![k] = [version |-> row[k].version + 1, removed |-> removed]]
  PROVE  IInv'
<1>1. /\ row' \in [Keys -> [version : 1..MaxVersion, removed : BOOLEAN]]
      /\ \A j \in Keys \ {k} : row'[j] = row[j]
  BY MaxVersionAssumption DEF IInv, TypeOK, Bypass
<1>2. /\ excused' \in [Keys -> BOOLEAN] /\ excused'[k] /\ cache' = cache /\ req' = Missing({k})
      /\ \A j \in Keys \ {k} : row'[j] = row[j] /\ cache'[j] = cache[j] /\ excused'[j] = excused[j]
  BY <1>1 DEF IInv, TypeOK, Bypass
<1>3. /\ req' \in [Handlers -> Request]
      /\ \A g \in Handlers :
           req'[g].pc = req[g].pc /\ req'[g].key = req[g].key /\ req'[g].version = req[g].version
  BY <1>2, MissStep DEF IInv
<1>4. TypeOK'
  BY <1>1, <1>2, <1>3 DEF IInv, TypeOK, At
<1> DEFINE done == {}
<1>5. /\ \A g \in done : At(g, "written") /\ req[g].key = k /\ req'[g] = Idle
      /\ \A g \in Handlers \ done : req'[g] = Missing({k})[g]
      /\ done \in SUBSET Handlers
  BY <1>2
<1> HIDE DEF done
<1> QED
  BY <1>2, <1>4, <1>5, DoneStep

LEMMA ElsewhereKeeps == ASSUME IInv, Elsewhere PROVE IInv'
<1>0. ASSUME NEW k \in Keys, Changed(k, FALSE) \/ Changed(k, TRUE)
      PROVE  \E removed \in BOOLEAN :
               row' = [row EXCEPT ![k] = [version |-> row[k].version + 1, removed |-> removed]]
  <2>1. (row[k].removed \/ FALSE) \in BOOLEAN /\ (row[k].removed \/ TRUE) \in BOOLEAN
    OBVIOUS
  <2>2. ASSUME NEW removes \in BOOLEAN, Changed(k, removes)
        PROVE  row' = [row EXCEPT ![k] = [version |-> row[k].version + 1,
                                          removed |-> row[k].removed \/ removes]]
    BY <2>2 DEF Changed, IInv, TypeOK
  <2> QED
    BY <1>0, <2>1, <2>2
<1>1. PICK k \in Keys : Bypass(k) /\ (\/ Changed(k, FALSE) \/ Changed(k, TRUE)
                                      \/ row' = [row EXCEPT ![k] = [version |-> @.version + 1,
                                                                    removed |-> FALSE]])
  BY DEF Elsewhere, ChangePassword, SyncSubscription, DeactivateCompany, ReactivateCompany, Keys
<1>2. CASE Changed(k, FALSE) \/ Changed(k, TRUE)
  BY <1>0, <1>1, <1>2, BypassKeeps
<1>3. CASE row' = [row EXCEPT ![k] = [version |-> @.version + 1, removed |-> FALSE]]
  <2>1. row' = [row EXCEPT ![k] = [version |-> row[k].version + 1, removed |-> FALSE]]
    BY <1>3 DEF IInv, TypeOK
  <2> QED
    BY <1>1, <2>1, BypassKeeps
<1> QED
  BY <1>1, <1>2, <1>3

LEMMA StepInv == IInv /\ [Next]_vars => IInv'
<1> SUFFICES ASSUME IInv, [Next]_vars PROVE IInv'
  OBVIOUS
<1>1. ASSUME NEW h \in Handlers, Start(h) PROVE IInv'
  BY <1>1, LookupKeeps, ChooseKeeps, ChangePlansKeeps
  DEF Start, FindUser, FindToken, FindCompany, FindSubscription, Keys
<1>2. ASSUME NEW h \in Handlers, ReadStep(h) PROVE IInv'
  <2>1. CASE Fill(h)
    BY <2>1, FillKeeps
  <2>2. CASE LoadUser(h) \/ LoadCompany(h) \/ LoadPlans(h)
    <3>1. \E found \in BOOLEAN : Load(h, found)
      BY <2>2 DEF LoadUser, LoadCompany, LoadPlans
    <3> QED
      BY <3>1, LoadKeeps
  <2> QED
    BY <1>2, <2>1, <2>2 DEF ReadStep
<1>3. ASSUME NEW h \in Handlers, WriteStep(h) \/ LoseInvalidation(h) PROVE IInv'
  BY <1>3, WriteKeeps, DeletionKeeps DEF WriteStep, UpdateUser, RemoveUser, UpdateCompany, DeleteCompany
<1>4. ASSUME NEW h \in Handlers, Fail(h) PROVE IInv'
  BY <1>4, RequestStep, IdleIsRequest DEF Fail, Finish, At
<1>5. ASSUME NEW k \in Keys, Expire(k) PROVE IInv'
  <2>1. /\ cache' \in [Keys -> 0..MaxVersion] /\ excused' \in [Keys -> BOOLEAN]
        /\ UNCHANGED <<row, req>> /\ cache'[k] = NoEntry
        /\ \A j \in Keys \ {k} : cache'[j] = cache[j] /\ excused'[j] = excused[j]
    BY <1>5, MaxVersionAssumption DEF IInv, TypeOK, Expire, Drop, NoEntry
  <2>2. TypeOK'
    BY <2>1 DEF IInv, TypeOK, At
  <2>3. StaleHasCause' /\ FillsHaveCause'
    BY <2>1 DEF IInv, StaleHasCause, FillsHaveCause, Stale, Due, At
  <2> QED
    BY <2>2, <2>3 DEF IInv
<1>6. CASE UNCHANGED vars
  BY <1>6 DEF vars, IInv, TypeOK, StaleHasCause, FillsHaveCause, Stale, Due, At
<1> QED
  BY <1>1, <1>2, <1>3, <1>4, <1>5, <1>6, ElsewhereKeeps DEF Next

LEMMA InvHolds == Spec => []IInv
BY InitInv, StepInv, PTL DEF Spec

(* The rows, the entries and the requests hold the values the code writes. *)
THEOREM TypesHold == Spec => []TypeOK
<1>1. IInv => TypeOK
  BY DEF IInv
<1> QED
  BY <1>1, InvHolds, PTL

(* A stale entry has one of the four causes, however many requests read,   *)
(* fill, write and delete at a time: deleting after the write leaves only  *)
(* the fill of an earlier read, a lost deletion and the writers that do    *)
(* not delete.                                                             *)
THEOREM StaleEntriesHaveCause == Spec => []StaleHasCause
<1>1. IInv => StaleHasCause
  BY DEF IInv
<1> QED
  BY <1>1, InvHolds, PTL
==============================================================================
