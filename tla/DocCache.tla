------------------------------ MODULE DocCache ------------------------------
(***************************************************************************)
(* How MakeDocument (src/main.c) finds or loads a document, one system     *)
(* call at a time, and the cache it keeps them in (src/mem.c).  The rest   *)
(* of the system works meanwhile: it may replace or remove the files, and  *)
(* a new file may get the inode of one that is gone.                       *)
(*                                                                         *)
(* Every call is made from one directory, so that a path names one file at *)
(* a time.  What the lines of the file become is Loader's.                 *)
(***************************************************************************)
EXTENDS Integers

CONSTANTS
    Path,           \* the names that are asked for
    File,           \* the files there ever are
    Inode(_),       \* Inode(f): the device and inode of f; two files may share it in turn
    NoFile,
    Dirname(_),     \* Dirname(p): what EditToBaseName makes of p
    InitSize,       \* INIT_DOC_CACHE_SIZE
    MaxFd,          \* how many descriptors the program may have open
    NextPow2(_),    \* NextPow2 of src/util.c
    NoDocument      \* the null pointer

ASSUME CacheAssumption ==
    /\ NoFile \notin File /\ InitSize \in Nat \ {0} /\ MaxFd \in Nat
    /\ \A n \in 1..MaxFd : NextPow2(n) \in Nat /\ NextPow2(n) >= n

NoInode == "none"
Key == {Inode(f) : f \in File}
Document == [key : Key, file : File]

ASSUME NothingAssumption == NoInode \notin Key /\ NoDocument \notin Document

-----------------------------------------------------------------------------
VARIABLES
    fs,         \* fs[p]: the file that p names now
    data, size, \* DocCache: its slots from 0 on, how many there are,
    used,       \* and how many hold a document
    pc,         \* the next step of MakeDocument; IDLE between its calls
    call,       \* its locals: the path, the inode in Stat, the open file
    fds,        \* how many descriptors are open
    asked,      \* the inode the last call that is over found
    answer,     \* what it returned
    raced       \* history: the keys of the calls whose path was replaced
                \* between fstatat and openat

cacheVars == <<data, size, used>>
vars == <<fs, data, size, used, pc, call, fds, asked, answer, raced>>

Init ==
    /\ fs \in {m \in [Path -> File \cup {NoFile}] :
                \A p, q \in Path : (m[p] # NoFile /\ m[q] # NoFile /\ Inode(m[p]) = Inode(m[q]))
                                        => m[p] = m[q]}
    /\ data = << >> /\ size = 0 /\ used = 0
    /\ pc = "IDLE" /\ fds = 0 /\ raced = {}
    /\ call = [path |-> "", key |-> NoInode, file |-> NoFile]
    /\ asked = NoInode /\ answer = NoDocument

Docs == {data[i] : i \in 0..(used - 1)}

(* FindExistingDoc slip: the last document is left out. *)
FindExistingDocShort(key) == {data[i] : i \in {j \in 0..(used - 2) : data[j].key = key}}
(* FindExistingDoc: the documents under the key; at most one. *)
FindExistingDoc(key) == {data[i] : i \in {j \in 0..(used - 1) : data[j].key = key}}

Return(doc) == pc' = "IDLE" /\ asked' = call'.key /\ answer' = doc
Continue(step) == pc' = step /\ UNCHANGED <<asked, answer>>

-----------------------------------------------------------------------------
(* fstatat: no file, or a document that is known already, or neither.      *)
Stat(p) ==
    /\ pc = "IDLE"
    /\ LET key == IF fs[p] = NoFile THEN NoInode ELSE Inode(fs[p]) IN
       /\ raced' = IF FindExistingDoc(key) = {} THEN raced \ {key} ELSE raced
       /\ call' = [path |-> p, key |-> key, file |-> NoFile]
       /\ \/ key = NoInode /\ Return(NoDocument)
          \/ \E d \in FindExistingDoc(key) : Return(d)
          \/ key # NoInode /\ FindExistingDoc(key) = {} /\ Continue("OPEN_DIR")
    /\ UNCHANGED <<fs, cacheVars, fds>>

(* openat of the directory.  It fails at the limit, and where a path of    *)
(* one name in the root directory gave the empty name; it may fail anyhow, *)
(* as may the next.                                                        *)
OpenDir ==
    /\ pc = "OPEN_DIR"
    /\ \/ /\ fds < MaxFd /\ Dirname(call.path) # ""
          /\ fds' = fds + 1 /\ UNCHANGED call /\ Continue("OPEN_FILE")
       \/ UNCHANGED <<call, fds>> /\ Return(NoDocument)
    /\ UNCHANGED <<fs, cacheVars, raced>>

(* CloseDir slip: the directory stays open. *)
CloseDirNever == fds' = fds
CloseDir      == fds' = fds - 1

(* OpenFile slip: it waits for a descriptor. *)
OpenFileWaits ==
    /\ pc = "OPEN_FILE" /\ fds < MaxFd
    /\ IF fs[call.path] # NoFile
       THEN /\ call' = [call EXCEPT !.file = fs[call.path]]
            /\ fds' = fds + 1 /\ Continue("ALLOC")
       ELSE CloseDir /\ UNCHANGED call /\ Return(NoDocument)
    /\ UNCHANGED <<fs, cacheVars, raced>>

(* fopenat: whatever file has the name by now. *)
OpenFile ==
    /\ pc = "OPEN_FILE"
    /\ \/ /\ fds < MaxFd /\ fs[call.path] # NoFile
          /\ call' = [call EXCEPT !.file = fs[call.path]]
          /\ fds' = fds + 1 /\ Continue("ALLOC")
       \/ CloseDir /\ UNCHANGED call /\ Return(NoDocument)
    /\ UNCHANGED <<fs, cacheVars, raced>>

(* NewSize slip: the documents are counted before the new one. *)
NewSizeBefore(n) == IF n <= size THEN size ELSE IF size = 0 THEN InitSize ELSE NextPow2(n - 1)
(* The slots there are for n documents. *)
NewSize(n) == IF n <= size THEN size ELSE IF size = 0 THEN InitSize ELSE NextPow2(n)

(* DataOf slip: a larger array is not a copy of the old one. *)
DataOfAnew(new, doc) == [i \in 0..(new - 1) |-> IF i = used \/ new # size THEN doc ELSE data[i]]
(* The slots after AllocAndLogDoc: Realloc keeps the old ones. *)
DataOf(new, doc) == [i \in 0..(new - 1) |->
    IF i = used THEN doc ELSE IF i < size THEN data[i] ELSE NoDocument]

(* NewDocument slip: the key is that of the answer before. *)
NewDocumentLate == [key |-> asked, file |-> call.file]
NewDocument     == [key |-> call.key, file |-> call.file]

(* AllocAndLogDoc, and the document that is stored through its result. *)
AllocAndLogDoc ==
    /\ pc = "ALLOC"
    /\ used' = used + 1 /\ size' = NewSize(used + 1)
    /\ data' = DataOf(size', NewDocument)
    /\ Continue("LOAD")
    /\ UNCHANGED <<fs, call, fds, raced>>

(* The lines are read and the file is closed; its directory stays open. *)
Load ==
    /\ pc = "LOAD"
    /\ fds' = fds - 1
    /\ UNCHANGED call /\ Return(data[used - 1])
    /\ UNCHANGED <<fs, cacheVars, raced>>

(* ReleaseAllMem, at the end of main. *)
ReleaseAllMem ==
    /\ pc = "IDLE" /\ pc' = "EXIT"
    /\ data' = << >> /\ size' = 0 /\ used' = 0
    /\ UNCHANGED <<fs, call, fds, asked, answer, raced>>

Exit == pc = "EXIT" /\ UNCHANGED vars

-----------------------------------------------------------------------------
(* The environment: a name gets another file, or none.  An inode that is   *)
(* in use, by a name or an open file, is not given to another file.        *)
InUse == {fs[p] : p \in Path} \cup (IF pc \in {"ALLOC", "LOAD"} THEN {call.file} ELSE {})

Replace(p, f) ==
    /\ pc # "EXIT" /\ f # fs[p]
    /\ f # NoFile => \A g \in InUse \ {NoFile, f} : Inode(g) # Inode(f)
    /\ fs' = [fs EXCEPT ![p] = f]
    /\ raced' = IF pc \in {"OPEN_DIR", "OPEN_FILE"} /\ call.path = p
                THEN raced \cup {call.key} ELSE raced
    /\ UNCHANGED <<cacheVars, pc, call, fds, asked, answer>>

MakeDocument == OpenDir \/ OpenFile \/ AllocAndLogDoc \/ Load

Next ==
    \/ \E p \in Path : Stat(p)
    \/ MakeDocument \/ ReleaseAllMem \/ Exit
    \/ \E p \in Path, f \in File \cup {NoFile} : Replace(p, f)

Spec == Init /\ [][Next]_vars /\ WF_vars(MakeDocument)
=============================================================================
