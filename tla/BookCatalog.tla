----------------------------- MODULE BookCatalog -----------------------------
(***************************************************************************)
(* What callers of kiwix::Library rely on, without its index and its two   *)
(* caches: a book is in the catalog or not, is found by its metadata, and  *)
(* has at most one shared handle, which lives from the first opening to    *)
(* the removal of the book.                                                *)
(***************************************************************************)
CONSTANTS Id, Path, Meta, NoMeta, NoHandle

VARIABLES
    found,   \* found[id]: the metadata a search finds the book by
    handle,  \* handle[id]: the file its readers share
    disk

vars == <<found, handle, disk>>

Init ==
    /\ found = [id \in Id |-> NoMeta]
    /\ handle = [id \in Id |-> NoHandle]
    /\ disk \in SUBSET Path

(* A new or updated book is found by its new metadata; its handle, if it   *)
(* has one, stays.                                                         *)
Put(id, meta) ==
    /\ found' = [found EXCEPT ![id] = meta]
    /\ UNCHANGED <<handle, disk>>

(* The metadata and the handle go together. *)
Drop(id) ==
    /\ found' = [found EXCEPT ![id] = NoMeta]
    /\ handle' = [handle EXCEPT ![id] = NoHandle]
    /\ UNCHANGED disk

(* Only a book of the catalog is opened, from a file that is there, and    *)
(* only when nobody opened it before.                                      *)
Open(id) ==
    /\ found[id] # NoMeta
    /\ handle[id] = NoHandle
    /\ \E path \in disk : handle' = [handle EXCEPT ![id] = path]
    /\ UNCHANGED <<found, disk>>

DiskChanges ==
    /\ disk' \in SUBSET Path
    /\ UNCHANGED <<found, handle>>

Next ==
    \/ \E id \in Id : (\E meta \in Meta : Put(id, meta)) \/ Drop(id) \/ Open(id)
    \/ DiskChanges

Spec == Init /\ [][Next]_vars
=============================================================================
