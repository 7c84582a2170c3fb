------------------------ MODULE FilesAndMails_proofs -------------------------
(***************************************************************************)
(* Proofs about the components that call AWS: Files, for any number of     *)
(* files, handlers and resources, and Notifications, for any events and    *)
(* addresses.                                                              *)
(***************************************************************************)
EXTENDS Files, Notifications, TLAPS

(***************************************************************************)
(* Files.                                                                  *)
(***************************************************************************)

(* What requests and background deletions hold on to: an object that was   *)
(* put or seen is there until a removal of its file, and only objects of   *)
(* removed files are deleted.                                              *)
ObjectsInHand ==
  \A h \in Handlers :
    req[h].pc \in {"stored", "seen"} =>
      \A k \in req[h].keys : k \in objects \/ row[k] = "deleted"

OnlyRemovedAreDeleted ==
  /\ \A k \in deletions : row[k] = "deleted"
  /\ \A h \in Handlers :
       req[h].pc \in {"marked", "markedMany"} =>
         \A k \in req[h].keys : row[k] = "deleted"

IInv == TypeOK /\ LiveRecordHasObject /\ ObjectsInHand /\ OnlyRemovedAreDeleted

(* The invariant holds in an empty store.                                  *)
LEMMA InitEstablishesInvariant == Init => IInv
BY DEF Init, IInv, TypeOK, LiveRecordHasObject, ObjectsInHand, OnlyRemovedAreDeleted,
       IdleRequest, Labels

(* Every step of a request, of the clients, of the background deletions    *)
(* and of a crash preserves it.                                            *)
LEMMA StepPreservesInvariant == IInv /\ [Next]_vars => IInv'
<1> SUFFICES ASSUME IInv, [Next]_vars PROVE IInv'
  OBVIOUS
<1> USE DEF IInv, TypeOK, LiveRecordHasObject, ObjectsInHand, OnlyRemovedAreDeleted
<1>1. ASSUME NEW h \in Handlers, PutObject(h) PROVE IInv'
  BY <1>1 DEF PutObject, At, Goto, Fresh, Labels
<1>2. ASSUME NEW h \in Handlers, OpenLink(h) PROVE IInv'
  BY <1>2 DEF OpenLink, getPresignedUploadUrl, At
<1>3. ASSUME NEW h \in Handlers, SeeObject(h) PROVE IInv'
  BY <1>3 DEF SeeObject, At, Goto, Labels
<1>4. ASSUME NEW h \in Handlers, CreateRecord(h) PROVE IInv'
  BY <1>4 DEF CreateRecord, At, Finish, IdleRequest, Labels
<1>5. ASSUME NEW h \in Handlers, FindFile(h) PROVE IInv'
  BY <1>5 DEF FindFile, At, Goto, Labels
<1>6. ASSUME NEW h \in Handlers, FindFiles(h) PROVE IInv'
  BY <1>6 DEF FindFiles, At, Goto, Labels
<1>7. ASSUME NEW h \in Handlers, MarkDeleted(h) PROVE IInv'
  BY <1>7 DEF MarkDeleted, At, Goto, Labels
<1>8. ASSUME NEW h \in Handlers, StartDeletion(h) PROVE IInv'
  BY <1>8 DEF StartDeletion, At, Finish, IdleRequest, Labels
<1>9. ASSUME NEW h \in Handlers, DeleteChunk(h) PROVE IInv'
  <2>1. PICK chunk \in SUBSET req[h].keys :
          /\ At(h, "markedMany")
          /\ \E deleted \in SUBSET chunk :
               /\ objects' = objects \ deleted
               /\ excused' = excused \cup (chunk \ deleted)
          /\ IF chunk = req[h].keys THEN Finish(h)
             ELSE Goto(h, "markedMany", req[h].keys \ chunk)
          /\ UNCHANGED <<row, links, deletions>>
    BY <1>9 DEF DeleteChunk, Chunks
  <2>2. \A k \in chunk : row[k] = "deleted" /\ k \in Keys
    BY <2>1 DEF At
  <2> QED
    BY <2>1, <2>2 DEF At, Goto, Finish, IdleRequest, Labels
<1>10. ASSUME NEW h \in Handlers, Fail(h) PROVE IInv'
  BY <1>10 DEF Fail, At, Finish, IdleRequest, Labels
<1>11. CASE ClientPut
  BY <1>11 DEF ClientPut
<1>12. CASE LinkExpires
  BY <1>12 DEF LinkExpires
<1>13. CASE DeleteObject
  BY <1>13 DEF DeleteObject
<1>14. CASE Crash
  BY <1>14 DEF Crash, At, IdleRequest, Labels
<1>15. CASE UNCHANGED vars
  BY <1>15 DEF vars
<1> QED
  BY <1>1, <1>2, <1>3, <1>4, <1>5, <1>6, <1>7, <1>8, <1>9, <1>10, <1>11, <1>12,
     <1>13, <1>14, <1>15 DEF Next, UploadStep, RemovalStep

(* The invariant holds in every reachable state.                           *)
THEOREM Invariance == Spec => []IInv
BY InitEstablishesInvariant, StepPreservesInvariant, PTL DEF Spec

(* The files table, the bucket and the requests keep their types.          *)
THEOREM TypeCorrect == Spec => []TypeOK
BY Invariance, PTL DEF IInv

(* A file that is listed has its object, whatever fails and races.         *)
THEOREM ListedFilesExist == Spec => []LiveRecordHasObject
BY Invariance, PTL DEF IInv

(* A removed file never comes back.                                        *)
THEOREM RemovalIsFinal == Spec => RemovedStaysRemoved
<1>1. TypeOK /\ [Next]_vars => \A k \in Keys : row[k] = "deleted" => row'[k] = "deleted"
  <2> SUFFICES ASSUME TypeOK, [Next]_vars, NEW k \in Keys, row[k] = "deleted"
               PROVE row'[k] = "deleted"
    OBVIOUS
  <2>1. ASSUME NEW h \in Handlers, CreateRecord(h) PROVE row'[k] = "deleted"
    BY <2>1 DEF CreateRecord, TypeOK
  <2>2. ASSUME NEW h \in Handlers, MarkDeleted(h) PROVE row'[k] = "deleted"
    BY <2>2 DEF MarkDeleted
  <2>3. CASE UNCHANGED row
    BY <2>3
  <2> QED
    BY <2>1, <2>2, <2>3
    DEF Next, UploadStep, RemovalStep, PutObject, OpenLink, getPresignedUploadUrl, SeeObject,
          FindFile, FindFiles,
        StartDeletion, DeleteChunk, Fail, ClientPut, LinkExpires, DeleteObject, Crash, vars
<1> QED
  BY <1>1, TypeCorrect, PTL DEF Spec, RemovedStaysRemoved

------------------------------------------------------------------------------

(***************************************************************************)
(* Notifications.                                                          *)
(***************************************************************************)

(* One event: its listener l, its rows lg in the log, its mails m and      *)
(* those of them u that the client did not hear of.  The rows of whoever   *)
(* is still to be told are not there, the one the listener is at is        *)
(* PENDING, and the others have an outcome.  Until an attempt is answered, *)
(* there is at most one delivery for each attempt that was not.            *)
EventOK(l, lg, m, u) ==
  /\ l.todo \subseteq l.found
  /\ \A a \in Addresses :
       /\ m[a] <= MaxTries
       /\ m[a] <= u[a] + 1
       /\ lg[a] = "SENT" => m[a] = u[a] + 1
       /\ lg[a] = "none" => m[a] = 0 /\ u[a] = 0
       /\ lg[a] = "PENDING" => a = l.to /\ l.pc \notin {"next", "done"}
  /\ l.pc \in {"none", "reading"} => \A a \in Addresses : lg[a] = "none"
  /\ \A a \in l.todo : lg[a] = "none"
  /\ l.pc \in {"logged", "sent", "refused"} => l.to \in Addresses /\ lg[l.to] = "PENDING"
  /\ l.pc \in {"none", "reading", "next"} => l.tries = 0
  /\ l.pc = "logged" => m[l.to] = u[l.to] /\ m[l.to] <= l.tries /\ l.tries < MaxTries
  /\ l.pc = "sent" => m[l.to] = u[l.to] + 1
  /\ l.pc \in {"next", "done"} => \A a \in l.found \ l.todo : lg[a] \in {"SENT", "FAILED"}
  /\ l.pc \in {"logged", "sent", "refused"} =>
       \A a \in l.found \ (l.todo \cup {l.to}) : lg[a] \in {"SENT", "FAILED"}
  /\ l.pc = "done" => l.todo = {}

MailTables ==
  /\ admins \subseteq Addresses
  /\ listener \in [Events -> Listener]
  /\ log \in [Events -> [Addresses -> Status]]
  /\ mails \in [Events -> [Addresses -> Nat]]
  /\ unanswered \in [Events -> [Addresses -> Nat]]
  /\ faults \in 0..MaxFaults

MailInv == MailTables /\ \A e \in Events : EventOK(listener[e], log[e], mails[e], unanswered[e])

LEMMA MailInitInv == MailInit => MailInv
<1> SUFFICES ASSUME MailInit PROVE MailInv
  OBVIOUS
<1>1. MailTables
  BY MaxTriesAssumption, MaxFaultsAssumption DEF MailInit, MailTables, NoListener, Listener, ListenerLabels, Ended, Status
<1>2. ASSUME NEW e \in Events PROVE EventOK(listener[e], log[e], mails[e], unanswered[e])
  BY MaxTriesAssumption DEF MailInit, EventOK, NoListener
<1> QED
  BY <1>1, <1>2 DEF MailInv

(* What a step makes of one event, when it leaves the others alone.        *)
LEMMA OneEvent ==
  ASSUME MailInv, NEW e \in Events, MailTables',
         EventOK(listener'[e], log'[e], mails'[e], unanswered'[e]),
         \A f \in Events \ {e} :
           /\ listener'[f] = listener[f] /\ log'[f] = log[f]
           /\ mails'[f] = mails[f] /\ unanswered'[f] = unanswered[f]
  PROVE  MailInv'
<1>1. ASSUME NEW f \in Events PROVE EventOK(listener'[f], log'[f], mails'[f], unanswered'[f])
  BY DEF MailInv
<1> QED
  BY <1>1 DEF MailInv

LEMMA TellKeeps ==
  ASSUME MailInv, NEW e \in Events, NEW recipients \in SUBSET Addresses, Tell(e, recipients),
         listener[e].pc \in {"none", "reading"}
  PROVE  MailInv'
<1> DEFINE l == [NoListener EXCEPT !.pc = "next", !.found = recipients, !.todo = recipients]
<1>1. l \in Listener /\ l.pc = "next" /\ l.found = recipients /\ l.todo = recipients
      /\ l.tries = 0
  <2>1. 0 \in 0..MaxTries
    BY MaxTriesAssumption
  <2> QED
    BY <2>1 DEF NoListener, Listener, ListenerLabels
<1>2. /\ listener' = [listener EXCEPT ![e] = l] /\ log' = log /\ mails' = mails /\ unanswered' = unanswered
      /\ admins' = admins /\ faults' = faults
  BY DEF Tell
<1> HIDE DEF l
<1>3. MailTables' /\ listener'[e] = l /\ \A f \in Events \ {e} : listener'[f] = listener[f]
  BY <1>1, <1>2 DEF MailInv, MailTables
<1>4. EventOK(listener[e], log[e], mails[e], unanswered[e])
  BY DEF MailInv
<1>5. EventOK(l, log[e], mails[e], unanswered[e])
  BY <1>1, <1>4 DEF EventOK
<1> QED
  BY <1>2, <1>3, <1>5, OneEvent

(* The listener is at another place, and nothing else has happened.        *)
LEMMA ListenerGotoKeeps ==
  ASSUME MailInv, NEW e \in Events, NEW label \in ListenerLabels, ListenerGoto(e, label),
         UNCHANGED <<admins, log, mails, unanswered>>, faults' \in 0..MaxFaults,
         \/ ListenerAt(e, "none") /\ label = "reading"
         \/ ListenerAt(e, "next") /\ listener[e].todo = {} /\ label = "done"
         \/ ListenerAt(e, "sent") /\ label = "refused"
         \/ label \in {"aborted", "killed"}
  PROVE  MailInv'
<1>0. listener[e] \in Listener
  BY DEF MailInv, MailTables
<1> DEFINE l == [listener[e] EXCEPT !.pc = label]
<1>1. /\ l \in Listener /\ l.pc = label /\ l.found = listener[e].found
      /\ l.todo = listener[e].todo /\ l.to = listener[e].to /\ l.tries = listener[e].tries
  BY <1>0 DEF Listener
<1>2. listener' = [listener EXCEPT ![e] = l]
  BY DEF ListenerGoto, MailInv, MailTables
<1> HIDE DEF l
<1>3. MailTables' /\ listener'[e] = l /\ \A f \in Events \ {e} : listener'[f] = listener[f]
  BY <1>1, <1>2 DEF MailInv, MailTables
<1>4. EventOK(listener[e], log[e], mails[e], unanswered[e])
  BY DEF MailInv
<1>5. EventOK(l, log[e], mails[e], unanswered[e])
  BY <1>1, <1>4 DEF EventOK, ListenerAt
<1> QED
  BY <1>3, <1>5, OneEvent

LEMMA CreateLogKeeps == ASSUME MailInv, NEW e \in Events, CreateLog(e) PROVE MailInv'
<1>0. /\ listener[e] \in Listener /\ log[e] \in [Addresses -> Status]
      /\ mails[e] \in [Addresses -> Nat] /\ unanswered[e] \in [Addresses -> Nat]
      /\ EventOK(listener[e], log[e], mails[e], unanswered[e])
  BY DEF MailInv, MailTables
<1>1. PICK a \in listener[e].todo :
        /\ ListenerAt(e, "next") /\ log' = [log EXCEPT ![e][a] = "PENDING"]
        /\ listener' = [listener EXCEPT ![e].pc = "logged", ![e].to = a, ![e].todo = @ \ {a}]
        /\ admins' = admins /\ mails' = mails /\ unanswered' = unanswered /\ faults' = faults
  BY DEF CreateLog
<1> DEFINE l == [listener[e] EXCEPT !.pc = "logged", !.to = a, !.todo = listener[e].todo \ {a}]
           lg == [log[e] EXCEPT ![a] = "PENDING"]
<1>2. a \in Addresses
  BY <1>0 DEF Listener
<1>3. /\ l \in Listener /\ l.pc = "logged" /\ l.found = listener[e].found
      /\ l.todo = listener[e].todo \ {a} /\ l.to = a /\ l.tries = listener[e].tries
  BY <1>0, <1>2 DEF Listener, ListenerLabels
<1>4. lg \in [Addresses -> Status] /\ lg[a] = "PENDING" /\ \A b \in Addresses \ {a} : lg[b] = log[e][b]
  BY <1>0, <1>2 DEF Status
<1>5. /\ listener' = [listener EXCEPT ![e] = l] /\ log' = [log EXCEPT ![e] = lg]
      /\ admins' = admins /\ mails' = mails /\ unanswered' = unanswered /\ faults' = faults
  BY <1>1 DEF MailInv, MailTables
<1> HIDE DEF l, lg
<1>6. /\ MailTables' /\ listener'[e] = l /\ log'[e] = lg
      /\ \A f \in Events \ {e} : listener'[f] = listener[f] /\ log'[f] = log[f]
  BY <1>3, <1>4, <1>5 DEF MailInv, MailTables
<1>7. listener[e].todo \subseteq Addresses /\ listener[e].found \subseteq Addresses
  BY <1>0 DEF Listener
<1>8. EventOK(l, lg, mails[e], unanswered[e])
  BY MaxTriesAssumption, <1>0, <1>1, <1>2, <1>3, <1>4, <1>7 DEF EventOK, ListenerAt
<1> QED
  BY <1>1, <1>6, <1>8, OneEvent

LEMMA SetStatusKeeps ==
  ASSUME MailInv, NEW e \in Events, NEW status \in {"SENT", "FAILED"}, SetStatus(e, status),
         ListenerAt(e, "sent") \/ (ListenerAt(e, "refused") /\ status = "FAILED")
  PROVE  MailInv'
<1>0. /\ listener[e] \in Listener /\ log[e] \in [Addresses -> Status]
      /\ mails[e] \in [Addresses -> Nat] /\ unanswered[e] \in [Addresses -> Nat]
      /\ EventOK(listener[e], log[e], mails[e], unanswered[e])
  BY DEF MailInv, MailTables
<1> DEFINE a == listener[e].to
           l == [listener[e] EXCEPT !.pc = "next", !.to = Nobody, !.tries = 0]
           lg == [log[e] EXCEPT ![a] = status]
<1>1. a \in Addresses /\ log[e][a] = "PENDING" /\ (status = "SENT" => mails[e][a] = unanswered[e][a] + 1)
  BY <1>0 DEF EventOK, ListenerAt
<1>2. /\ l \in Listener /\ l.pc = "next" /\ l.found = listener[e].found
      /\ l.todo = listener[e].todo /\ l.tries = 0
  <2>1. 0 \in 0..MaxTries
    BY MaxTriesAssumption
  <2> QED
    BY <1>0, <2>1 DEF Listener, ListenerLabels
<1>3. lg \in [Addresses -> Status] /\ lg[a] = status /\ \A b \in Addresses \ {a} : lg[b] = log[e][b]
  BY <1>0, <1>1 DEF Status
<1>4. /\ listener' = [listener EXCEPT ![e] = l] /\ log' = [log EXCEPT ![e] = lg]
      /\ admins' = admins /\ mails' = mails /\ unanswered' = unanswered /\ faults' = faults
  BY DEF SetStatus, MailInv, MailTables
<1> HIDE DEF l, lg
<1>5. /\ MailTables' /\ listener'[e] = l /\ log'[e] = lg
      /\ \A f \in Events \ {e} : listener'[f] = listener[f] /\ log'[f] = log[f]
  BY <1>2, <1>3, <1>4 DEF MailInv, MailTables
<1>6. listener[e].todo \subseteq Addresses /\ listener[e].found \subseteq Addresses
  BY <1>0 DEF Listener
<1>7. EventOK(l, lg, mails[e], unanswered[e])
  BY <1>0, <1>1, <1>2, <1>3, <1>6 DEF EventOK, ListenerAt
<1> QED
  BY <1>4, <1>5, <1>7, OneEvent

LEMMA SendEmailKeeps == ASSUME MailInv, NEW e \in Events, SendEmail(e) PROVE MailInv'
<1>0. /\ listener[e] \in Listener /\ mails[e] \in [Addresses -> Nat]
      /\ unanswered[e] \in [Addresses -> Nat]
      /\ EventOK(listener[e], log[e], mails[e], unanswered[e])
  BY DEF MailInv, MailTables
<1> DEFINE a == listener[e].to
           k == listener[e].tries
<1>1. /\ ListenerAt(e, "logged") /\ a \in Addresses /\ k \in 0..MaxTries /\ k < MaxTries
      /\ mails[e][a] = unanswered[e][a] /\ mails[e][a] <= k
      /\ admins' = admins /\ log' = log /\ faults' = faults
  BY <1>0 DEF SendEmail, EventOK, ListenerAt, Listener
(* The attempt brings x mails, y of them without an answer.                *)
<1>2. ASSUME NEW x \in 0..1, NEW y \in 0..x, NEW l \in Listener,
             NEW m \in [Addresses -> Nat], NEW u \in [Addresses -> Nat],
             l.pc \in {"logged", "sent", "refused"}, l.found = listener[e].found,
             l.todo = listener[e].todo, l.to = a,
             l.pc = "logged" => x = y /\ l.tries = k + 1 /\ l.tries < MaxTries,
             l.pc = "sent" => x = 1 /\ y = 0,
             listener' = [listener EXCEPT ![e] = l],
             mails' = [mails EXCEPT ![e] = m], m = [mails[e] EXCEPT ![a] = mails[e][a] + x],
             unanswered' = [unanswered EXCEPT ![e] = u],
             u = [unanswered[e] EXCEPT ![a] = unanswered[e][a] + y]
      PROVE  MailInv'
  <2>2. m[a] = mails[e][a] + x /\ \A b \in Addresses \ {a} : m[b] = mails[e][b]
    BY <1>0, <1>1, <1>2
  <2>3. u[a] = unanswered[e][a] + y /\ \A b \in Addresses \ {a} : u[b] = unanswered[e][b]
    BY <1>0, <1>1, <1>2
  <2>5. /\ MailTables' /\ listener'[e] = l /\ mails'[e] = m /\ unanswered'[e] = u
        /\ \A f \in Events \ {e} :
             listener'[f] = listener[f] /\ mails'[f] = mails[f] /\ unanswered'[f] = unanswered[f]
    BY <1>1, <1>2 DEF MailInv, MailTables
  <2>6. \A b \in Addresses :
          /\ m[b] <= MaxTries
          /\ m[b] <= u[b] + 1
          /\ log[e][b] = "SENT" => m[b] = u[b] + 1
          /\ log[e][b] = "none" => m[b] = 0 /\ u[b] = 0
    <3> SUFFICES ASSUME NEW b \in Addresses
                 PROVE  /\ m[b] <= MaxTries
                        /\ m[b] <= u[b] + 1
                        /\ log[e][b] = "SENT" => m[b] = u[b] + 1
                        /\ log[e][b] = "none" => m[b] = 0 /\ u[b] = 0
      OBVIOUS
    <3>1. CASE b = a
      <4>1. log[e][a] = "PENDING"
        BY <1>0, <1>1 DEF EventOK, ListenerAt
      <4> QED
        BY <1>0, <1>1, <1>2, <2>2, <2>3, <3>1, <4>1, MaxTriesAssumption
    <3>2. CASE b # a
      BY <1>0, <2>2, <2>3, <3>2 DEF EventOK
    <3> QED
      BY <3>1, <3>2
  <2>7. /\ l.pc = "logged" => m[l.to] = u[l.to] /\ m[l.to] <= l.tries /\ l.tries < MaxTries
        /\ l.pc = "sent" => m[l.to] = u[l.to] + 1
    BY <1>0, <1>1, <1>2, <2>2, <2>3, MaxTriesAssumption
  <2>8. EventOK(l, log[e], m, u)
    BY <1>0, <1>1, <1>2, <2>6, <2>7 DEF EventOK, ListenerAt
  <2> QED
    BY <1>1, <1>2, <2>5, <2>8, OneEvent
(* What becomes of the listener and of the tables of mails.                *)
<1>3. ASSUME NEW label \in {"logged", "sent", "refused"}, NEW n \in 0..MaxTries
      PROVE  LET l == [listener[e] EXCEPT !.pc = label, !.tries = n]
             IN  /\ l \in Listener /\ l.pc = label /\ l.found = listener[e].found
                 /\ l.todo = listener[e].todo /\ l.to = a /\ l.tries = n
  BY <1>0 DEF Listener, ListenerLabels
<1>4. ASSUME NEW table \in [Addresses -> Nat], NEW x \in 0..1
      PROVE  [table EXCEPT ![a] = table[a] + x] \in [Addresses -> Nat]
  BY <1>1, <1>4
<1>5. \A table \in [Addresses -> Nat] : table = [table EXCEPT ![a] = table[a] + 0]
  BY <1>1
<1>6. /\ mails' = [mails EXCEPT ![e][a] = @ + 1] =>
           mails' = [mails EXCEPT ![e] = [mails[e] EXCEPT ![a] = mails[e][a] + 1]]
      /\ mails' = mails => mails' = [mails EXCEPT ![e] = [mails[e] EXCEPT ![a] = mails[e][a] + 0]]
      /\ unanswered' = unanswered =>
           unanswered' = [unanswered EXCEPT ![e] = [unanswered[e] EXCEPT ![a] = unanswered[e][a] + 0]]
  <2>1. mails = [mails EXCEPT ![e] = mails[e]] /\ unanswered = [unanswered EXCEPT ![e] = unanswered[e]]
    BY DEF MailInv, MailTables
  <2>2. /\ mails[e] = [mails[e] EXCEPT ![a] = mails[e][a] + 0]
        /\ unanswered[e] = [unanswered[e] EXCEPT ![a] = unanswered[e][a] + 0]
    BY <1>0, <1>5
  <2> QED
    BY <2>1, <2>2
<1>7. ASSUME NEW label, ListenerGoto(e, label)
      PROVE  listener' = [listener EXCEPT ![e] = [listener[e] EXCEPT !.pc = label, !.tries = k]]
  BY <1>0, <1>7 DEF ListenerGoto, MailInv, MailTables, Listener
<1>8. CASE ListenerGoto(e, "sent") /\ mails' = [mails EXCEPT ![e][a] = @ + 1] /\ unanswered' = unanswered
  <2> DEFINE l == [listener[e] EXCEPT !.pc = "sent", !.tries = k]
             m == [mails[e] EXCEPT ![a] = mails[e][a] + 1]
             u == [unanswered[e] EXCEPT ![a] = unanswered[e][a] + 0]
  <2>1. /\ listener' = [listener EXCEPT ![e] = l] /\ mails' = [mails EXCEPT ![e] = m]
        /\ unanswered' = [unanswered EXCEPT ![e] = u]
    BY <1>6, <1>7, <1>8
  <2>2. m \in [Addresses -> Nat] /\ u \in [Addresses -> Nat]
    BY <1>0, <1>4
  <2>3. /\ l \in Listener /\ l.pc = "sent" /\ l.found = listener[e].found
        /\ l.todo = listener[e].todo /\ l.to = a
    BY <1>1, <1>3
  <2> HIDE DEF l
  <2>4. 1 \in 0..1 /\ 0 \in 0..1
    OBVIOUS
  <2> QED
    BY <1>2, <2>1, <2>2, <2>3, <2>4
<1>9. CASE ListenerGoto(e, "refused") /\ mails' = mails /\ unanswered' = unanswered
  <2> DEFINE l == [listener[e] EXCEPT !.pc = "refused", !.tries = k]
             m == [mails[e] EXCEPT ![a] = mails[e][a] + 0]
             u == [unanswered[e] EXCEPT ![a] = unanswered[e][a] + 0]
  <2>1. /\ listener' = [listener EXCEPT ![e] = l] /\ mails' = [mails EXCEPT ![e] = m]
        /\ unanswered' = [unanswered EXCEPT ![e] = u]
    BY <1>6, <1>7, <1>9
  <2>2. m \in [Addresses -> Nat] /\ u \in [Addresses -> Nat]
    BY <1>0, <1>4
  <2>3. /\ l \in Listener /\ l.pc = "refused" /\ l.found = listener[e].found
        /\ l.todo = listener[e].todo /\ l.to = a
    BY <1>1, <1>3
  <2> HIDE DEF l
  <2>4. 0 \in 0..1 /\ 0 \in 0..0
    OBVIOUS
  <2> QED
    BY <1>2, <2>1, <2>2, <2>3, <2>4
<1>10. ASSUME NEW x \in 0..1,
             mails' = [mails EXCEPT ![e][a] = @ + x],
             unanswered' = [unanswered EXCEPT ![e][a] = @ + x],
             listener' = [listener EXCEPT
               ![e].tries = @ + 1, ![e].pc = IF k + 1 = MaxTries THEN "refused" ELSE "logged"]
      PROVE  MailInv'
  <2> DEFINE label == IF k + 1 = MaxTries THEN "refused" ELSE "logged"
             n == k + 1
             l == [listener[e] EXCEPT !.pc = label, !.tries = n]
             m == [mails[e] EXCEPT ![a] = mails[e][a] + x]
             u == [unanswered[e] EXCEPT ![a] = unanswered[e][a] + x]
  <2>1. /\ label \in {"logged", "refused"} /\ (label = "logged" => k + 1 < MaxTries)
        /\ n \in 0..MaxTries /\ n = k + 1
    BY <1>1, MaxTriesAssumption
  <2>2. listener' = [listener EXCEPT ![e] = l]
    BY <1>10 DEF MailInv, MailTables, Listener
  <2>3. mails' = [mails EXCEPT ![e] = m] /\ unanswered' = [unanswered EXCEPT ![e] = u]
    BY <1>10
  <2>4. m \in [Addresses -> Nat] /\ u \in [Addresses -> Nat]
    BY <1>0, <1>4
  <2> HIDE DEF label, n
  <2>5. /\ l \in Listener /\ l.pc = label /\ l.found = listener[e].found
        /\ l.todo = listener[e].todo /\ l.to = a /\ l.tries = n
    BY <1>0, <2>1 DEF Listener, ListenerLabels
  <2> HIDE DEF l
  <2>6. x \in 0..x
    OBVIOUS
  <2> QED
    BY <1>1, <1>2, <2>1, <2>2, <2>3, <2>4, <2>5, <2>6
<1> QED
  BY <1>8, <1>9, <1>10 DEF SendEmail

LEMMA ProcessDiesKeeps == ASSUME MailInv, ProcessDies PROVE MailInv'
<1>1. /\ log' = log /\ mails' = mails /\ unanswered' = unanswered
      /\ admins' = admins /\ faults' = faults
      /\ listener' = [e \in Events |->
           IF Running(e) THEN [listener[e] EXCEPT !.pc = "killed"] ELSE listener[e]]
  BY DEF ProcessDies
<1>2. ASSUME NEW e \in Events
      PROVE  listener'[e] \in Listener /\ EventOK(listener'[e], log[e], mails[e], unanswered[e])
  <2>1. listener[e] \in Listener /\ EventOK(listener[e], log[e], mails[e], unanswered[e])
    BY DEF MailInv, MailTables
  <2> DEFINE l == [listener[e] EXCEPT !.pc = "killed"]
  <2>2. /\ l \in Listener /\ l.pc = "killed" /\ l.found = listener[e].found
        /\ l.todo = listener[e].todo /\ l.to = listener[e].to /\ l.tries = listener[e].tries
    BY <2>1 DEF Listener, ListenerLabels, Ended
  <2>3. listener'[e] = l \/ listener'[e] = listener[e]
    BY <1>1
  <2> HIDE DEF l
  <2>4. EventOK(l, log[e], mails[e], unanswered[e])
    BY <2>1, <2>2 DEF EventOK
  <2> QED
    BY <2>1, <2>2, <2>3, <2>4
<1>3. MailTables'
  BY <1>1, <1>2 DEF MailInv, MailTables
<1> QED
  BY <1>1, <1>2, <1>3 DEF MailInv

LEMMA MailStepInv == MailInv /\ [MailNext]_mailVars => MailInv'
<1> SUFFICES ASSUME MailInv, [MailNext]_mailVars PROVE MailInv'
  OBVIOUS
<1>0. faults \in 0..MaxFaults /\ admins \subseteq Addresses
  BY DEF MailInv, MailTables
<1>1. ASSUME NEW e \in Events, TellUser(e) \/ TellCustomer(e) PROVE MailInv'
  BY <1>1, TellKeeps DEF TellUser, TellCustomer, ListenerAt
<1>2. ASSUME NEW e \in Events, TellCompany(e) PROVE MailInv'
  BY <1>0, <1>2, ListenerGotoKeeps DEF TellCompany, ListenerLabels
<1>3. ASSUME NEW e \in Events, getCompanyWithAdmins(e) PROVE MailInv'
  BY <1>0, <1>3, TellKeeps DEF getCompanyWithAdmins, ListenerAt
<1>4. ASSUME NEW e \in Events, LoopEnds(e) PROVE MailInv'
  BY <1>0, <1>4, ListenerGotoKeeps DEF LoopEnds, ListenerLabels, Ended
<1>5. ASSUME NEW e \in Events, MarkSent(e) \/ MarkFailed(e) PROVE MailInv'
  BY <1>5, SetStatusKeeps DEF MarkSent, MarkFailed
<1>6. ASSUME NEW e \in Events, StatementFails(e) PROVE MailInv'
  <2>1. faults' \in 0..MaxFaults /\ UNCHANGED <<admins, log, mails, unanswered>>
    BY <1>0, <1>6, MaxFaultsAssumption DEF StatementFails
  <2>2. CASE ListenerAt(e, "sent")
    BY <1>6, <2>1, <2>2, ListenerGotoKeeps DEF StatementFails, ListenerLabels
  <2>3. CASE ~ListenerAt(e, "sent")
    BY <1>6, <2>1, <2>3, ListenerGotoKeeps DEF StatementFails, ListenerLabels, Ended
  <2> QED
    BY <2>2, <2>3
<1>7. CASE ChangeAdmins
  BY <1>7 DEF ChangeAdmins, MailInv, MailTables
<1>8. CASE UNCHANGED mailVars
  BY <1>8 DEF mailVars, MailInv, MailTables
<1> QED
  BY <1>1, <1>2, <1>3, <1>4, <1>5, <1>6, <1>7, <1>8, CreateLogKeeps, SendEmailKeeps, ProcessDiesKeeps
  DEF MailNext, Happen, Proceed

LEMMA MailInvHolds == MailSpec => []MailInv
BY MailInitInv, MailStepInv, PTL DEF MailSpec

(* The listeners, the log and the mailboxes hold what the code writes, and *)
(* a listener that is at a mail is at an address.                          *)
THEOREM MailTypesHold == MailSpec => []MailTypes
<1>1. MailInv => MailTypes
  BY DEF MailInv, MailTables, MailTypes, EventOK
<1> QED
  BY <1>1, MailInvHolds, PTL

(* A mail goes out again only for a delivery that was not answered, and at *)
(* most as often as the client of SES tries; SENT means delivered, and     *)
(* none goes out unlogged, wherever the process dies or a statement fails. *)
THEOREM LogAgreesWithMail == MailSpec => []LogMatchesMail
<1>1. MailInv => LogMatchesMail
  BY DEF MailInv, EventOK, LogMatchesMail
<1> QED
  BY <1>1, MailInvHolds, PTL

(* A listener that comes to its end has an outcome in the log for each of  *)
(* its recipients, and one that was stopped leaves one row PENDING at most.*)
THEOREM OutcomesForAll == MailSpec => []EverybodyHasAnOutcome
<1>1. MailInv => EverybodyHasAnOutcome
  BY DEF MailInv, EventOK, EverybodyHasAnOutcome, ListenerAt
<1> QED
  BY <1>1, MailInvHolds, PTL
==============================================================================
