------------------------- MODULE BlobIndexRefinement -------------------------
(***************************************************************************)
(* The index, its mutex, the Blob objects and the files together implement *)
(* the store of BlobStore, as long as no content holds a NUL byte and      *)
(* neither crashes nor I/O errors happen.                                  *)
(***************************************************************************)
EXTENDS BlobIndex

(***************************************************************************)
(* A content is stored when both of its keys lead to a Blob of it and its  *)
(* file is complete.                                                       *)
(***************************************************************************)
Stored ==
  {c \in Contents : \A k \in KeysOfContent[c] :
     blobs_[k] \in Pointers /\ heap[blobs_[k]] = NewBlob(c) /\ disk[heap[blobs_[k]].filePath_] = c}

(***************************************************************************)
(* Where a thread is in its call.  What it was given is what it would read *)
(* from the file at this moment; a call of paginate is not a call of the   *)
(* store.                                                                  *)
(***************************************************************************)
CallOf(t) ==
  CASE pc[t] = "add_lock" -> [op |-> "add", content |-> bytes[t], key |-> key[t]]
    [] pc[t] \in {"add_insert", "add_link", "add_assign", "add_exists", "add_write", "add_unlock"} ->
         [op |-> "accepted", content |-> bytes[t]]
    [] pc[t] = "get_lock" -> [op |-> "get", key |-> key[t]]
    [] pc[t] = "get_use" -> [op |-> "found", content |-> disk[FileOf(t)]]
    [] OTHER -> [op |-> "idle"]

Calls == [t \in Threads |-> CallOf(t)]

Store == INSTANCE BlobStore WITH stored <- Stored, call <- Calls, OwnKeys <- KeysOfContent

(***************************************************************************)
(* Every step of the threads is a step of the store, or none that shows:   *)
(* add_blob's two insertions, its file and its early return, interleaved   *)
(* with get and with other calls of add_blob, are the store's few atomic   *)
(* steps.                                                                  *)
(***************************************************************************)
ImplementsStore == Store!Spec
==============================================================================
