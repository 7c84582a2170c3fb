-------------------------------- MODULE Files --------------------------------
(***************************************************************************)
(* FilesService over two stores that share no transaction: the files table *)
(* and the S3 bucket.  A file is identified by its key, which contains a   *)
(* fresh uuid and is unique in the table, deleted rows included.           *)
(*                                                                         *)
(* row[k]     the files row of key k: absent, live or (soft) deleted.      *)
(* objects    the keys of the objects in the bucket.                       *)
(* links      the keys whose presigned upload URL has not expired.         *)
(* req[h]     the request in handler h and the keys it works on.           *)
(* deletions  the background S3 deletions that are under way.              *)
(* excused    history: the keys whose object may stay in the bucket after  *)
(*            the removal: its deletion failed or died with the process,   *)
(*            or it was uploaded again through its link.                   *)
(***************************************************************************)
EXTENDS FiniteSets, Naturals

CONSTANTS
  Keys, Handlers,
  Resources, ResourceOf,  \* the resource a file is attached to
  ChunkSize               \* the keys S3 deletes in one call: 1000

ASSUME ResourceAssumption == ResourceOf \in [Keys -> Resources]
ASSUME ChunkAssumption == ChunkSize \in Nat \ {0}

VARIABLES row, objects, links, req, deletions, excused

vars == <<row, objects, links, req, deletions, excused>>

Labels == {"idle", "stored", "seen", "found", "marked", "foundMany", "markedMany"}
IdleRequest == [pc |-> "idle", keys |-> {}]

Init ==
  /\ row = [k \in Keys |-> "absent"]
  /\ objects = {} /\ links = {} /\ deletions = {} /\ excused = {}
  /\ req = [h \in Handlers |-> IdleRequest]

At(h, label) == req[h].pc = label
Goto(h, label, keys) == req' = [req EXCEPT ![h] = [pc |-> label, keys |-> keys]]
Finish(h) == req' = [req EXCEPT ![h] = IdleRequest]

(* randomUUID: a key nobody has used.                                      *)
Fresh(k) ==
  /\ row[k] = "absent" /\ k \notin objects \cup links
  /\ \A h \in Handlers : k \notin req[h].keys

(* upload: the object ...                                                  *)
PutObject(h) ==
  \E k \in Keys :
    /\ At(h, "idle") /\ Fresh(k)
    /\ objects' = objects \cup {k}
    /\ Goto(h, "stored", {k})
    /\ UNCHANGED <<row, links, deletions, excused>>

(* A link that accepts a PUT of this key until it expires.                 *)
getPresignedUploadUrl(k) == links' = links \cup {k}

(* requestPresignedUpload                                                  *)
OpenLink(h) ==
  \E k \in Keys :
    /\ At(h, "idle") /\ Fresh(k)
    /\ getPresignedUploadUrl(k)
    /\ UNCHANGED <<row, objects, req, deletions, excused>>

(* The client's PUT through the link, and the end of the link.             *)
ClientPut ==
  \E k \in links :
    /\ objects' = objects \cup {k}
    /\ excused' = IF row[k] = "deleted" THEN excused \cup {k} ELSE excused
    /\ UNCHANGED <<row, links, req, deletions>>

LinkExpires ==
  \E k \in links :
    /\ links' = links \ {k}
    /\ UNCHANGED <<row, objects, req, deletions, excused>>

(* Mutant of SeeObject: the object is not looked for.                      *)
SeeNothing(h) ==
  \E k \in Keys :
    /\ At(h, "idle")
    /\ Goto(h, "seen", {k})
    /\ UNCHANGED <<row, objects, links, deletions, excused>>

(* confirmPresignedUpload of any key: its object exists ...                *)
SeeObject(h) ==
  \E k \in objects :
    /\ At(h, "idle")
    /\ Goto(h, "seen", {k})
    /\ UNCHANGED <<row, objects, links, deletions, excused>>

(* Mutant of CreateRecord: the key of a deleted row may be used again.     *)
CreateRecordAgain(h) ==
  \E k \in req[h].keys :
    /\ At(h, "stored") \/ At(h, "seen")
    /\ row[k] # "live"
    /\ row' = [row EXCEPT ![k] = "live"]
    /\ Finish(h)
    /\ UNCHANGED <<objects, links, deletions, excused>>

(* ... and the record, unless the key has one: then the unique index       *)
(* rejects it and the request fails (see Fail).                            *)
CreateRecord(h) ==
  \E k \in req[h].keys :
    /\ At(h, "stored") \/ At(h, "seen")
    /\ row[k] = "absent"
    /\ row' = [row EXCEPT ![k] = "live"]
    /\ Finish(h)
    /\ UNCHANGED <<objects, links, deletions, excused>>

(* findOrThrow of remove.                                                  *)
FindFile(h) ==
  \E k \in Keys :
    /\ At(h, "idle") /\ row[k] = "live"
    /\ Goto(h, "found", {k})
    /\ UNCHANGED <<row, objects, links, deletions, excused>>

(* removeByResource: the files of a resource, if it has any.               *)
FindFiles(h) ==
  \E r \in Resources :
    LET files == {k \in Keys : row[k] = "live" /\ ResourceOf[k] = r}
    IN  /\ At(h, "idle") /\ files # {}
        /\ Goto(h, "foundMany", files)
        /\ UNCHANGED <<row, objects, links, deletions, excused>>

(* The rows that were found are soft-deleted by id.                        *)
MarkDeleted(h) ==
  /\ At(h, "found") \/ At(h, "foundMany")
  /\ row' = [k \in Keys |-> IF k \in req[h].keys THEN "deleted" ELSE row[k]]
  /\ Goto(h, IF At(h, "found") THEN "marked" ELSE "markedMany", req[h].keys)
  /\ UNCHANGED <<objects, links, deletions, excused>>

(* remove starts the deletion of the object and does not wait for it.      *)
StartDeletion(h) ==
  /\ At(h, "marked")
  /\ deletions' = deletions \cup req[h].keys
  /\ Finish(h)
  /\ UNCHANGED <<row, objects, links, excused>>

(* A deletion is done, or fails and is only logged.                        *)
DeleteObject ==
  \E k \in deletions :
    /\ deletions' = deletions \ {k}
    /\ \/ objects' = objects \ {k} /\ UNCHANGED excused
       \/ excused' = excused \cup {k} /\ UNCHANGED objects
    /\ UNCHANGED <<row, links, req>>

Chunks(keys) ==
  {c \in SUBSET keys :
     IF Cardinality(keys) <= ChunkSize THEN c = keys ELSE Cardinality(c) = ChunkSize}

(* Mutant of DeleteChunk: only the first chunk is deleted.                 *)
DeleteFirstChunk(h) ==
  /\ At(h, "markedMany")
  /\ \E chunk \in Chunks(req[h].keys) : objects' = objects \ chunk
  /\ Finish(h)
  /\ UNCHANGED <<row, links, deletions, excused>>

(* removeByResource deletes the objects chunk by chunk; a call that fails  *)
(* is only logged, and the keys S3 reports it could not delete are not     *)
(* looked at.                                                              *)
DeleteChunk(h) ==
  \E chunk \in Chunks(req[h].keys) :
    /\ At(h, "markedMany")
    /\ \E deleted \in SUBSET chunk :
         /\ objects' = objects \ deleted
         /\ excused' = excused \cup (chunk \ deleted)
    /\ IF chunk = req[h].keys THEN Finish(h)
       ELSE Goto(h, "markedMany", req[h].keys \ chunk)
    /\ UNCHANGED <<row, links, deletions>>

(* The request fails: S3, the database, the unique key.                    *)
Fail(h) ==
  /\ ~At(h, "idle")
  /\ excused' = IF At(h, "marked") \/ At(h, "markedMany")
                THEN excused \cup req[h].keys ELSE excused
  /\ Finish(h)
  /\ UNCHANGED <<row, objects, links, deletions>>

(* The process dies, with every request and every background deletion.     *)
Crash ==
  /\ excused' = excused \cup deletions
                \cup UNION {req[h].keys : h \in {g \in Handlers : At(g, "marked")
                                                                \/ At(g, "markedMany")}}
  /\ deletions' = {}
  /\ req' = [h \in Handlers |-> IdleRequest]
  /\ UNCHANGED <<row, objects, links>>

UploadStep(h) == PutObject(h) \/ OpenLink(h) \/ SeeObject(h) \/ CreateRecord(h)
RemovalStep(h) == MarkDeleted(h) \/ StartDeletion(h) \/ DeleteChunk(h)

Next ==
  \/ \E h \in Handlers :
       UploadStep(h) \/ FindFile(h) \/ FindFiles(h) \/ RemovalStep(h) \/ Fail(h)
  \/ ClientPut \/ LinkExpires \/ DeleteObject \/ Crash

(* A removal that has begun goes on, and so does a background deletion.    *)
Fairness == WF_vars(DeleteObject) /\ \A h \in Handlers : WF_vars(RemovalStep(h))

Spec == Init /\ [][Next]_vars /\ Fairness

------------------------------------------------------------------------------

TypeOK ==
  /\ row \in [Keys -> {"absent", "live", "deleted"}]
  /\ objects \subseteq Keys /\ links \subseteq Keys
  /\ deletions \subseteq Keys /\ excused \subseteq Keys
  /\ req \in [Handlers -> [pc : Labels, keys : SUBSET Keys]]

(* A file that is listed can be downloaded: its object is in the bucket,   *)
(* although the object and the row are written and deleted one after the   *)
(* other, a confirmation only looks for the object before it creates the   *)
(* record, and any of these steps can fail or race a removal.              *)
LiveRecordHasObject == \A k \in Keys : row[k] = "live" => k \in objects

(* A file that was removed does not come back, although its object may     *)
(* still be there to be confirmed again.                                   *)
RemovedStaysRemoved ==
  [][\A k \in Keys : row[k] = "deleted" => row'[k] = "deleted"]_vars

(* The object of a removed file goes away in the end, unless its deletion  *)
(* failed, the process died or the object was uploaded again.              *)
RemovedObjectsGo ==
  \A k \in Keys : (row[k] = "deleted") ~> (k \notin objects \/ k \in excused)

==============================================================================
