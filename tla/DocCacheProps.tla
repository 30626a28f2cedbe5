---------------------------- MODULE DocCacheProps ----------------------------
(***************************************************************************)
(* What the cache of documents keeps, whatever happens to the files.       *)
(***************************************************************************)
EXTENDS DocCache

(* The cache holds documents in its first slots and has room for them, as  *)
(* FindExistingDoc asserts (mem.c:395).                                    *)
TypeOK ==
    /\ size \in Nat /\ used \in 0..size /\ DOMAIN data = 0..(size - 1)
    /\ \A i \in 0..(size - 1) : data[i] \in (IF i < used THEN Document ELSE {NoDocument})
    /\ pc \in {"IDLE", "OPEN_DIR", "OPEN_FILE", "ALLOC", "LOAD", "EXIT"}
    /\ call.key \in Key \cup {NoInode} /\ raced \subseteq Key
    /\ answer \in Document \cup {NoDocument}

(* Whatever step of whatever call failed, the open descriptors are the     *)
(* directories of the documents, and the two of the call while it runs.    *)
NoLeak ==
    pc # "EXIT" =>
        fds = used + (IF pc = "ALLOC" THEN 2 ELSE IF pc \in {"OPEN_FILE", "LOAD"} THEN 1 ELSE 0)

(* Only a file that was replaced between fstatat and openat is kept under  *)
(* the inode of another (main.c:1302 and 1313); every other document holds *)
(* the file its key names, so a file has one document.                     *)
FiledRight ==
    \A d \in Docs : d.key \notin raced => Inode(d.file) = d.key

(* A document stays in its slot while the cache grows: the pointers that   *)
(* open evaluations hold (AllocAndLogDoc, mem.c:410).                      *)
SlotsKept == [][\A i \in 0..(used - 1) : pc' # "EXIT" => i < used' /\ data'[i] = data[i]]_vars

(* Every call returns, at the limit of descriptors too, however often the  *)
(* files are replaced.                                                     *)
CallsReturn == (pc \notin {"IDLE", "EXIT"}) ~> (pc = "IDLE")

(* Seen from the callers the cache is a store of one document per key: a   *)
(* file that is known gives its document, whatever else is the matter.     *)
Store == INSTANCE DocStore WITH
    NoKey <- NoInode,
    docs <- IF pc = "LOAD" THEN {data[i] : i \in 0..(used - 2)} ELSE Docs

ImplementsStore == Store!StoreSpec
=============================================================================
