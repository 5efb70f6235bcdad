------------------------------ MODULE FilesCore ------------------------------
(***************************************************************************)
(* The file core (core/files.rs): files_create_core, files_delete_core and *)
(* files_retrieve_core, run by concurrent requests over two stores, the    *)
(* file_metadata table and the upload provider's objects.  Every await of  *)
(* a handler is a step of its own and each may fail.  The helpers the      *)
(* handlers call (validate_file_upload, the provider upload, delete and    *)
(* retrieve) are not in this repository's sources; they are steps that may *)
(* fail, with the one effect on the provider their names give them.       *)
(***************************************************************************)
EXTENDS FiniteSets

CONSTANTS
    Merchants,      \* merchant accounts
    FileIds,        \* ids generate_id may return
    Requests,       \* concurrent file requests
    None            \* absent row / no value

ASSUME NoneAssumption == None \notin Merchants \cup FileIds

Ops == {"create", "delete", "retrieve"}

Phases == {"idle", "inserted", "uploaded", "providerDeleted", "found",
           "done", "failed"}

Errors == {"none", "ValidationFailed", "InsertFailed", "UploadFailed",
           "UpdateFailed", "FileNotFound", "ProviderDeleteFailed",
           "MetadataDeleteFailed", "RetrieveFailed"}

RequestRec == [op : Ops, merchant : Merchants, file : FileIds]

NoRequest == [op |-> "create", merchant |-> None, file |-> None]

VARIABLES
    meta,       \* file_metadata rows by file_id
    blob,       \* file ids with an object at the upload provider
    fileOwner,  \* history: the merchant a file id was inserted for
    pc,         \* where each request is
    req,        \* what each request asked for
    err         \* the error a failed request returned

vars == <<meta, blob, fileOwner, pc, req, err>>

MetaRow == [merchant : Merchants, available : BOOLEAN, uploaded : BOOLEAN]

TypeOK ==
    /\ meta \in [FileIds -> MetaRow \cup {None}]
    /\ blob \subseteq FileIds
    /\ fileOwner \in [FileIds -> Merchants \cup {None}]
    /\ pc \in [Requests -> Phases]
    /\ req \in [Requests -> RequestRec \cup {NoRequest}]
    /\ err \in [Requests -> Errors]

Init ==
    /\ meta = [f \in FileIds |-> None]
    /\ blob = {}
    /\ fileOwner = [f \in FileIds |-> None]
    /\ pc = [r \in Requests |-> "idle"]
    /\ req = [r \in Requests |-> NoRequest]
    /\ err = [r \in Requests |-> "none"]

Fail(r, e) ==
    /\ pc' = [pc EXCEPT ![r] = "failed"]
    /\ err' = [err EXCEPT ![r] = e]

(* FileMetadataNew: no provider file id yet and not available.            *)
FileMetadataNew(m) == [merchant |-> m, available |-> FALSE, uploaded |-> FALSE]

(* find_file_metadata_by_merchant_id_file_id: scoped by the merchant.     *)
FindFileMetadata(m, f) == meta[f] # None /\ meta[f].merchant = m

(* A fresh id from generate_id: never inserted nor held by a request.     *)
Fresh(f) ==
    /\ fileOwner[f] = None
    /\ \A o \in Requests : req[o].file # f

(* files_create_core up to insert_file_metadata: validation fails with no  *)
(* write, the insert fails, or the row is inserted not available.         *)
CreateInsert(r) ==
    /\ pc[r] = "idle"
    /\ \E m \in Merchants, f \in FileIds :
        /\ Fresh(f)
        /\ req' = [req EXCEPT ![r] = [op |-> "create", merchant |-> m, file |-> f]]
        /\ \/ /\ Fail(r, "ValidationFailed")
              /\ UNCHANGED <<meta, fileOwner>>
           \/ /\ Fail(r, "InsertFailed")
              /\ UNCHANGED <<meta, fileOwner>>
           \/ /\ meta' = [meta EXCEPT ![f] = FileMetadataNew(m)]
              /\ fileOwner' = [fileOwner EXCEPT ![f] = m]
              /\ pc' = [pc EXCEPT ![r] = "inserted"]
              /\ UNCHANGED err
    /\ UNCHANGED blob

(* upload_and_get_provider_provider_file_id_profile_id puts the object at  *)
(* the provider under the key merchant/file_id, or fails.                  *)
CreateUpload(r) ==
    /\ pc[r] = "inserted"
    /\ \/ /\ blob' = blob \cup {req[r].file}
          /\ pc' = [pc EXCEPT ![r] = "uploaded"]
          /\ UNCHANGED err
       \/ /\ Fail(r, "UploadFailed")
          /\ UNCHANGED blob
    /\ UNCHANGED <<meta, fileOwner, req>>

(* Mutant: the row is marked available whether or not the upload ran.     *)
CreateMarkBeforeUpload(r) ==
    /\ pc[r] \in {"inserted", "uploaded"}
    /\ LET f == req[r].file IN
       \/ /\ meta' = [meta EXCEPT ![f].available = TRUE, ![f].uploaded = TRUE]
          /\ pc' = [pc EXCEPT ![r] = "done"]
          /\ UNCHANGED err
       \/ /\ Fail(r, "UpdateFailed")
          /\ UNCHANGED meta
    /\ UNCHANGED <<blob, fileOwner, req>>

(* update_file_metadata with the provider file id and available = true,  *)
(* after which the file id is returned to the caller.                     *)
CreateMark(r) ==
    /\ pc[r] = "uploaded"
    /\ LET f == req[r].file IN
       \/ /\ meta' = [meta EXCEPT ![f].available = TRUE, ![f].uploaded = TRUE]
          /\ pc' = [pc EXCEPT ![r] = "done"]
          /\ UNCHANGED err
       \/ /\ Fail(r, "UpdateFailed")
          /\ UNCHANGED meta
    /\ UNCHANGED <<blob, fileOwner, req>>

(* Mutant: the metadata row is deleted first (and the provider object     *)
(* left to the second step, which deletes metadata again).                *)
DeleteMetaFirst(r) ==
    /\ pc[r] = "idle"
    /\ \E m \in Merchants, f \in FileIds :
        /\ req' = [req EXCEPT ![r] = [op |-> "delete", merchant |-> m, file |-> f]]
        /\ \/ /\ FindFileMetadata(m, f)
              /\ meta' = [meta EXCEPT ![f] = None]
              /\ pc' = [pc EXCEPT ![r] = "providerDeleted"]
              /\ UNCHANGED err
           \/ /\ Fail(r, "FileNotFound")
              /\ UNCHANGED meta
    /\ UNCHANGED <<blob, fileOwner>>

(* files_delete_core, delete_file_using_file_id: the caller's row must be  *)
(* found with a provider file id, then the provider object is deleted;    *)
(* a missing row, a missing object or a provider error fail the request.  *)
DeleteProvider(r) ==
    /\ pc[r] = "idle"
    /\ \E m \in Merchants, f \in FileIds :
        /\ req' = [req EXCEPT ![r] = [op |-> "delete", merchant |-> m, file |-> f]]
        /\ \/ /\ FindFileMetadata(m, f)
              /\ meta[f].uploaded
              /\ f \in blob
              /\ blob' = blob \ {f}
              /\ pc' = [pc EXCEPT ![r] = "providerDeleted"]
              /\ UNCHANGED err
           \/ /\ Fail(r, IF FindFileMetadata(m, f) THEN "ProviderDeleteFailed"
                                                    ELSE "FileNotFound")
              /\ UNCHANGED blob
    /\ UNCHANGED <<meta, fileOwner>>

(* delete_file_metadata_by_merchant_id_file_id, after the object is gone. *)
DeleteMeta(r) ==
    /\ pc[r] = "providerDeleted"
    /\ LET m == req[r].merchant
           f == req[r].file IN
       \/ /\ FindFileMetadata(m, f)
          /\ meta' = [meta EXCEPT ![f] = None]
          /\ pc' = [pc EXCEPT ![r] = "done"]
          /\ UNCHANGED err
       \/ /\ Fail(r, "MetadataDeleteFailed")
          /\ UNCHANGED meta
    /\ UNCHANGED <<blob, fileOwner, req>>

(* files_retrieve_core: the caller's metadata row, or FileNotFound.       *)
RetrieveMeta(r) ==
    /\ pc[r] = "idle"
    /\ \E m \in Merchants, f \in FileIds :
        /\ req' = [req EXCEPT ![r] = [op |-> "retrieve", merchant |-> m, file |-> f]]
        /\ \/ /\ FindFileMetadata(m, f)
              /\ pc' = [pc EXCEPT ![r] = "found"]
              /\ UNCHANGED err
           \/ /\ ~FindFileMetadata(m, f)
              /\ Fail(r, "FileNotFound")
    /\ UNCHANGED <<meta, blob, fileOwner>>

(* retrieve_file_and_provider_file_id_from_file_id with data Required,    *)
(* the content type parse and file_data.ok_or(FileNotAvailable): the row  *)
(* is read again and the object fetched; the row or the object may be gone *)
(* by now.                                                                 *)
RetrieveData(r) ==
    /\ pc[r] = "found"
    /\ LET m == req[r].merchant
           f == req[r].file IN
       \/ /\ FindFileMetadata(m, f)
          /\ meta[f].uploaded
          /\ f \in blob
          /\ pc' = [pc EXCEPT ![r] = "done"]
          /\ UNCHANGED err
       \/ /\ Fail(r, "RetrieveFailed")
    /\ UNCHANGED <<meta, blob, fileOwner, req>>

Finished ==
    /\ \A r \in Requests : pc[r] \in {"done", "failed"}
    /\ UNCHANGED vars

Next ==
    \/ \E r \in Requests :
        \/ CreateInsert(r) \/ CreateUpload(r) \/ CreateMark(r)
        \/ DeleteProvider(r) \/ DeleteMeta(r)
        \/ RetrieveMeta(r) \/ RetrieveData(r)
    \/ Finished

Spec == Init /\ [][Next]_vars

-----------------------------------------------------------------------------
(***************************************************************************)
(* Properties.                                                             *)
(***************************************************************************)

(* Every object at the provider has its metadata row: create inserts the  *)
(* row before it uploads and delete removes the object before the row, so *)
(* no failure at any await leaves an object nobody can find or delete.    *)
ProviderObjectHasMetadata ==
    \A f \in blob : meta[f] # None

(* A delete stopped after it removed the provider object.                 *)
DeleteStopped(f) ==
    \E r \in Requests :
        /\ req[r].op = "delete" /\ req[r].file = f
        /\ \/ pc[r] = "providerDeleted"
           \/ pc[r] = "failed" /\ err[r] = "MetadataDeleteFailed"

(* A row marked available has its object at the provider, unless a delete *)
(* of that file stopped between its two deletes.                          *)
AvailableFileHasObject ==
    \A f \in FileIds :
        meta[f] # None /\ meta[f].available => f \in blob \/ DeleteStopped(f)

=============================================================================
