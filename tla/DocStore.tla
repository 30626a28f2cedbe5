------------------------------ MODULE DocStore ------------------------------
(***************************************************************************)
(* What the rest of the program relies on when it asks for a document: one *)
(* document per file for the whole run.  A file that is known gives the    *)
(* document it gave before; a file that is not gives a new one or, where   *)
(* it cannot be read, none.                                                *)
(***************************************************************************)
CONSTANTS
    Key,        \* the identities of files
    NoKey,      \* no file has the name
    NoDocument

VARIABLES
    docs,       \* docs: the documents, each under its key
    asked,      \* the key of the file that was asked for last
    answer      \* what that gave

Keys == {d.key : d \in docs}

StoreInit == docs = {} /\ asked = NoKey /\ answer = NoDocument

Known(k) == k \in Keys /\ answer' \in docs /\ answer'.key = k /\ UNCHANGED docs
New(k)   == k \in Key \ Keys /\ answer'.key = k /\ docs' = docs \cup {answer'}
Refuse(k) == k \notin Keys /\ answer' = NoDocument /\ UNCHANGED docs
Ask(k) == asked' = k /\ (Known(k) \/ Refuse(k) \/ New(k))

(* The end of the program. *)
Release == docs' = {} /\ UNCHANGED <<asked, answer>>

StoreSpec ==
    StoreInit /\ [][Release \/ \E k \in Key \cup {NoKey} : Ask(k)]_<<docs, asked, answer>>
=============================================================================
