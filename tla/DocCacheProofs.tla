--------------------------- MODULE DocCacheProofs ---------------------------
(***************************************************************************)
(* That the cache of documents keeps what DocCacheProps says of it, for    *)
(* any files, names and inodes, any limit of descriptors, and whatever     *)
(* system call fails or file is replaced; and that it implements DocStore. *)
(***************************************************************************)
EXTENDS DocCacheProps, TLAPS

(* What is right of a call: its path still names a file of the inode that  *)
(* fstatat found, or did so when it was opened, or the key is in raced.    *)
NamesRight(f) == call.key \in raced \/ (f \in File /\ Inode(f) = call.key)

(* No document is there under the key that a call is about to add, not     *)
(* after the directory and the file were opened either.                    *)
CallInv ==
    /\ call \in [path : Path \cup {""}, key : Key \cup {NoInode}, file : File \cup {NoFile}]
    /\ pc \in {"OPEN_DIR", "OPEN_FILE", "ALLOC"} =>
            call.key \in Key /\ \A i \in 0..(used - 1) : data[i].key # call.key
    /\ pc \in {"OPEN_DIR", "OPEN_FILE"} => call.path \in Path /\ NamesRight(fs[call.path])
    /\ pc = "ALLOC" => call.file \in File /\ NamesRight(call.file)
    /\ pc = "LOAD"  => used > 0 /\ data[used - 1].key = call.key

OneEach == \A i, j \in 0..(used - 1) : data[i].key = data[j].key => i = j

(* The inductive invariant.  The descriptors bound the documents: that is  *)
(* why the arguments of NextPow2 stay in its range.                        *)
IInv ==
    /\ TypeOK /\ NoLeak /\ FiledRight /\ CallInv /\ OneEach
    /\ fs \in [Path -> File \cup {NoFile}]
    /\ fds \in 0..MaxFd

LEMMA InitIInv == Init => IInv
  <1> SUFFICES ASSUME Init PROVE IInv
    OBVIOUS
  <1>0. data = << >>
    BY DEF Init
  <1>1. size = 0 /\ used = 0
    BY DEF Init
  <1>2. pc = "IDLE" /\ fds = 0 /\ raced = {} /\ answer = NoDocument
    BY DEF Init
  <1>3. call = [path |-> "", key |-> NoInode, file |-> NoFile]
    BY DEF Init
  <1>4. fs \in [Path -> File \cup {NoFile}]
    BY DEF Init
  <1>5. DOMAIN data = 0..(size - 1) /\ \A i \in 0..(size - 1) : FALSE
    <2>1. DOMAIN data = {} /\ 0..(size - 1) = {}
      BY <1>0, <1>1
    <2> QED BY <1>1, <2>1
  <1>6. Docs = {} /\ 0..(used - 1) = {}
    BY <1>1 DEF Docs
  <1>7. TypeOK
    <2>1. size \in Nat /\ used \in 0..size
      BY <1>1
    <2>2. call.key = NoInode
      BY <1>3
    <2>3. raced \subseteq Key
      BY <1>2
    <2>4. answer \in Document \cup {NoDocument}
      BY <1>2
    <2> QED BY <1>2, <1>5, <2>1, <2>2, <2>3, <2>4 DEF TypeOK
  <1>8. NoLeak /\ FiledRight /\ OneEach
    BY <1>1, <1>2, <1>6 DEF NoLeak, FiledRight, OneEach
  <1>9. CallInv
    BY <1>2, <1>3 DEF CallInv
  <1> QED BY <1>2, <1>4, <1>7, <1>8, <1>9, CacheAssumption DEF IInv

-----------------------------------------------------------------------------
(* What each step keeps.                                                   *)

(* A step that leaves the cache alone keeps what is said of the cache      *)
(* alone, and FiledRight if no key of a document leaves raced.             *)
LEMMA CacheKept ==
    ASSUME IInv, UNCHANGED cacheVars,
           \A i \in 0..(used - 1) : data[i].key \in raced => data[i].key \in raced'
    PROVE  FiledRight' /\ OneEach'
  <1>1. used' = used /\ data' = data /\ Docs' = Docs
    BY DEF cacheVars, Docs
  <1>2. OneEach'
    BY <1>1 DEF IInv, OneEach
  <1>3. FiledRight'
    BY <1>1 DEF IInv, FiledRight, Docs
  <1> QED BY <1>2, <1>3

LEMMA StatKeeps ==
    ASSUME IInv, NEW p \in Path, Stat(p)
    PROVE  IInv'
  <1> DEFINE key == IF fs[p] = NoFile THEN NoInode ELSE Inode(fs[p])
  <1>1. key \in Key \cup {NoInode} /\ (key # NoInode => fs[p] \in File /\ Inode(fs[p]) = key)
    BY NothingAssumption DEF IInv, Key
  <1>2. /\ call' = [path |-> p, key |-> key, file |-> NoFile]
        /\ UNCHANGED fs /\ UNCHANGED cacheVars /\ UNCHANGED fds
    BY DEF Stat
  <1>3. FindExistingDoc(key) = {} <=> \A i \in 0..(used - 1) : data[i].key # key
    BY DEF FindExistingDoc
  <1>4. raced' \subseteq Key /\
        \A i \in 0..(used - 1) : data[i].key \in raced => data[i].key \in raced'
    <2>1. raced' = IF FindExistingDoc(key) = {} THEN raced \ {key} ELSE raced
      BY DEF Stat
    <2> HIDE DEF key
    <2> QED BY <1>3, <2>1 DEF IInv, TypeOK
  <1>5. \/ pc' = "IDLE" /\ answer' \in Document \cup {NoDocument}
        \/ pc' = "OPEN_DIR" /\ UNCHANGED answer /\ key # NoInode /\ FindExistingDoc(key) = {}
    <2> HIDE DEF key
    <2>1. \A i \in 0..(used - 1) : data[i] \in Document
      BY DEF IInv, TypeOK
    <2>2. \A d \in FindExistingDoc(key) : d \in Document
      BY <2>1 DEF FindExistingDoc
    <2>. USE DEF key
    <2> QED BY <2>2 DEF Stat, Return, Continue
  <1> HIDE DEF key
  <1>6. TypeOK'
    BY <1>1, <1>2, <1>4, <1>5 DEF IInv, TypeOK, cacheVars
  <1>7. NoLeak'
    BY <1>2, <1>5 DEF IInv, NoLeak, Stat, cacheVars
  <1>8. CallInv'
    <2>1. key # NoInode /\ FindExistingDoc(key) = {} => key \in Key /\
            \A i \in 0..(used' - 1) : data'[i].key # call'.key
      BY <1>1, <1>2, <1>3 DEF cacheVars
    <2> QED BY <1>1, <1>2, <1>5, <2>1 DEF CallInv, NamesRight
  <1> QED BY <1>2, <1>4, <1>6, <1>7, <1>8, CacheKept DEF IInv

(* A call that returns nothing, whatever it has opened and closed. *)
LEMMA FailureKeeps ==
    ASSUME IInv, UNCHANGED <<fs, cacheVars, raced, call>>, Return(NoDocument),
           \/ pc = "OPEN_DIR" /\ UNCHANGED fds
           \/ pc = "OPEN_FILE" /\ fds' = fds - 1
    PROVE  IInv'
  <1>1. TypeOK'
    BY DEF IInv, TypeOK, cacheVars, Return
  <1>2. NoLeak' /\ fds' \in 0..MaxFd
    <2>1. used' = used /\ pc' = "IDLE" /\ used \in Nat /\ fds \in 0..MaxFd
      BY DEF IInv, TypeOK, cacheVars, Return
    <2>2. fds = used + (IF pc = "OPEN_FILE" THEN 1 ELSE 0)
      BY DEF IInv, NoLeak
    <2> QED BY <2>1, <2>2, CacheAssumption DEF NoLeak
  <1>3. CallInv'
    BY DEF IInv, CallInv, cacheVars, Return
  <1>4. FiledRight' /\ OneEach'
    BY CacheKept
  <1> QED BY <1>1, <1>2, <1>3, <1>4 DEF IInv

LEMMA OpenDirKeeps ==
    ASSUME IInv, OpenDir
    PROVE  IInv'
  <1>1. CASE UNCHANGED <<call, fds>> /\ Return(NoDocument)
    BY <1>1, FailureKeeps DEF OpenDir
  <1>2. CASE fds < MaxFd /\ fds' = fds + 1 /\ UNCHANGED call /\ Continue("OPEN_FILE")
    <2>1. pc = "OPEN_DIR" /\ pc' = "OPEN_FILE" /\ UNCHANGED <<fs, cacheVars, raced, call, answer>>
      BY <1>2 DEF OpenDir, Continue
    <2>2. TypeOK'
      BY <2>1 DEF IInv, TypeOK, cacheVars
    <2>3. NoLeak' /\ fds' \in 0..MaxFd
      BY <1>2, <2>1, CacheAssumption DEF IInv, NoLeak, TypeOK, cacheVars
    <2>4. CallInv'
      BY <2>1 DEF IInv, CallInv, NamesRight, cacheVars
    <2>5. FiledRight' /\ OneEach'
      BY <2>1, CacheKept
    <2> QED BY <2>1, <2>2, <2>3, <2>4, <2>5 DEF IInv
  <1> QED BY <1>1, <1>2 DEF OpenDir

LEMMA OpenFileKeeps ==
    ASSUME IInv, OpenFile
    PROVE  IInv'
  <1>1. CASE CloseDir /\ UNCHANGED call /\ Return(NoDocument)
    BY <1>1, FailureKeeps DEF OpenFile, CloseDir
  <1>2. CASE /\ fds < MaxFd /\ fs[call.path] # NoFile
             /\ call' = [call EXCEPT !.file = fs[call.path]]
             /\ fds' = fds + 1 /\ Continue("ALLOC")
    <2>1. pc = "OPEN_FILE" /\ pc' = "ALLOC" /\ UNCHANGED <<fs, cacheVars, raced, answer>>
      BY <1>2 DEF OpenFile, Continue
    <2>2. fs[call.path] \in File
      BY <1>2, <2>1 DEF IInv, CallInv
    <2>3. call' = [path |-> call.path, key |-> call.key, file |-> fs[call.path]]
      BY <1>2 DEF IInv, CallInv
    <2>4. TypeOK'
      BY <2>1, <2>3 DEF IInv, TypeOK, cacheVars
    <2>5. NoLeak' /\ fds' \in 0..MaxFd
      BY <1>2, <2>1, CacheAssumption DEF IInv, NoLeak, TypeOK, cacheVars
    <2>6. CallInv'
      BY <2>1, <2>2, <2>3 DEF IInv, CallInv, NamesRight, cacheVars
    <2>7. FiledRight' /\ OneEach'
      BY <2>1, CacheKept
    <2> QED BY <2>1, <2>4, <2>5, <2>6, <2>7 DEF IInv
  <1> QED BY <1>1, <1>2 DEF OpenFile

-----------------------------------------------------------------------------
(* AllocAndLogDoc.                                                         *)

(* There is room for one more: NewSize is asked for no more documents than *)
(* there are descriptors.                                                  *)
LEMMA RoomForOne ==
    ASSUME IInv, pc = "ALLOC"
    PROVE  NewSize(used + 1) \in Nat /\ used + 1 <= NewSize(used + 1) /\ size <= NewSize(used + 1)
  <1>1. size \in Nat /\ used \in 0..size /\ fds = used + 2 /\ fds \in 0..MaxFd
    BY DEF IInv, TypeOK, NoLeak
  <1>2. used + 1 \in 1..MaxFd
    BY <1>1, CacheAssumption
  <1>3. NextPow2(used + 1) \in Nat /\ NextPow2(used + 1) >= used + 1
    BY <1>2, CacheAssumption
  <1> QED BY <1>1, <1>3, CacheAssumption DEF NewSize

(* What AllocAndLogDoc makes of the array. *)
LEMMA AllocFacts ==
    ASSUME IInv, AllocAndLogDoc
    PROVE  /\ size' \in Nat /\ size <= size' /\ used' = used + 1 /\ used' \in 0..size'
           /\ used \in 0..size
           /\ DOMAIN data' = 0..(size' - 1)
           /\ data'[used] = NewDocument
           /\ \A i \in 0..(used - 1) : data'[i] = data[i]
           /\ \A i \in 0..(size' - 1) : i > used => data'[i] = NoDocument
  <1>1. /\ pc = "ALLOC" /\ used' = used + 1 /\ size' = NewSize(used + 1)
        /\ data' = DataOf(size', NewDocument)
    BY DEF AllocAndLogDoc
  <1>2. size' \in Nat /\ used' <= size' /\ size <= size'
    BY <1>1, RoomForOne
  <1>3. size \in Nat /\ used \in 0..size
    BY DEF IInv, TypeOK
  <1>4. \A i \in used..(size - 1) : data[i] = NoDocument
    BY <1>3 DEF IInv, TypeOK
  <1>5. data' = [i \in 0..(size' - 1) |->
                    IF i = used THEN NewDocument ELSE IF i < size THEN data[i] ELSE NoDocument]
    BY <1>1 DEF DataOf
  <1> QED BY <1>1, <1>2, <1>3, <1>4, <1>5

LEMMA AllocKeeps ==
    ASSUME IInv, AllocAndLogDoc
    PROVE  IInv'
  <1>1. pc = "ALLOC" /\ pc' = "LOAD" /\ UNCHANGED <<fs, call, fds, raced, answer>>
    BY DEF AllocAndLogDoc, Continue
  <1>2. NewDocument = [key |-> call.key, file |-> call.file] /\ NewDocument \in Document
    BY <1>1 DEF NewDocument, Document, IInv, CallInv
  <1>3. call.key \in raced \/ Inode(call.file) = call.key
    BY <1>1 DEF IInv, CallInv, NamesRight
  <1>4. /\ size' \in Nat /\ size <= size' /\ used' = used + 1 /\ used' \in 0..size'
        /\ used \in 0..size /\ used \in Nat
        /\ DOMAIN data' = 0..(size' - 1)
        /\ data'[used] = NewDocument
        /\ \A i \in 0..(used - 1) : data'[i] = data[i]
        /\ \A i \in 0..(size' - 1) : i > used => data'[i] = NoDocument
    BY AllocFacts
  <1> DEFINE Same(i) == i \in 0..(used - 1) /\ data'[i] = data[i]
             Added(i) == i = used /\ data'[i] = NewDocument
  <1>a. \A i \in 0..(used' - 1) : Same(i) \/ Added(i)
    <2> TAKE i \in 0..(used' - 1)
    <2>1. i \in 0..(used - 1) \/ i = used
      BY <1>4
    <2> QED BY <1>4, <2>1
  <1>b. \A i \in 0..(size' - 1) : Same(i) \/ Added(i) \/ (i > used /\ data'[i] = NoDocument)
    <2> TAKE i \in 0..(size' - 1)
    <2>1. i \in 0..(used - 1) \/ i = used \/ i > used
      BY <1>4
    <2> QED BY <1>4, <2>1
  <1>5. \A i \in 0..(used - 1) : data[i].key # call.key
    BY <1>1 DEF IInv, CallInv
  <1>6. TypeOK'
    <2>1. \A i \in 0..(used - 1) : data[i] \in Document
      BY <1>4 DEF IInv, TypeOK
    <2>2. \A i \in 0..(size' - 1) : data'[i] \in (IF i < used' THEN Document ELSE {NoDocument})
      <3> TAKE i \in 0..(size' - 1)
      <3>1. used' = used + 1 /\ used \in Nat /\ i \in Int
        BY <1>4
      <3>2. i < used' <=> i <= used
        BY <3>1
      <3>3. CASE Same(i)
        BY <2>1, <3>1, <3>2, <3>3
      <3>4. CASE Added(i)
        BY <1>2, <3>1, <3>2, <3>4
      <3>5. CASE i > used /\ data'[i] = NoDocument
        BY <3>1, <3>2, <3>5
      <3> QED BY <1>b, <3>3, <3>4, <3>5
    <2> QED BY <1>1, <1>4, <2>2 DEF IInv, TypeOK
  <1>7. NoLeak'
    BY <1>1, <1>4 DEF IInv, NoLeak
  <1>8. CallInv'
    <2>1. used' > 0 /\ used' - 1 = used
      BY <1>4
    <2>2. data'[used].key = call.key
      BY <1>2, <1>4
    <2>3. data'[used' - 1].key = call.key
      BY <2>1, <2>2
    <2> QED BY <1>1, <2>1, <2>3 DEF IInv, CallInv
  <1>9. OneEach'
    <2>1. \A i, j \in 0..(used - 1) : data[i].key = data[j].key => i = j
      BY DEF IInv, OneEach
    <2>2. NewDocument.key = call.key
      BY <1>2
    <2> SUFFICES ASSUME NEW i \in 0..(used' - 1), NEW j \in 0..(used' - 1),
                        data'[i].key = data'[j].key
                 PROVE  i = j
      BY DEF OneEach
    <2>3. (Same(i) \/ Added(i)) /\ (Same(j) \/ Added(j))
      BY <1>a
    <2> QED BY <1>5, <2>1, <2>2, <2>3
  <1>10. FiledRight'
    <2>1. \A i \in 0..(used - 1) : data[i].key \notin raced => Inode(data[i].file) = data[i].key
      BY DEF IInv, FiledRight, Docs
    <2>2. \A i \in 0..(used' - 1) : data'[i].key \notin raced' => Inode(data'[i].file) = data'[i].key
      BY <1>1, <1>2, <1>3, <1>a, <2>1
    <2> QED BY <2>2 DEF FiledRight, Docs
  <1> QED BY <1>1, <1>6, <1>7, <1>8, <1>9, <1>10 DEF IInv

-----------------------------------------------------------------------------
(* The last steps.                                                         *)

LEMMA LoadKeeps ==
    ASSUME IInv, Load
    PROVE  IInv'
  <1>1. /\ pc = "LOAD" /\ pc' = "IDLE" /\ answer' = data[used - 1] /\ fds' = fds - 1
        /\ UNCHANGED <<fs, call, raced>> /\ UNCHANGED cacheVars
    BY DEF Load, Return
  <1>2. used \in 1..size /\ size \in Nat
    <2>1. used > 0
      BY <1>1 DEF IInv, CallInv
    <2>2. size \in Nat /\ used \in 0..size
      BY DEF IInv, TypeOK
    <2> QED BY <2>1, <2>2
  <1>3. data[used - 1] \in Document
    BY <1>2 DEF IInv, TypeOK
  <1>4. TypeOK'
    BY <1>1, <1>3 DEF IInv, TypeOK, cacheVars
  <1>5. NoLeak' /\ fds' \in 0..MaxFd
    <2>1. fds = used + 1 /\ fds \in 0..MaxFd /\ used' = used
      BY <1>1 DEF IInv, NoLeak, cacheVars
    <2> QED BY <1>1, <1>2, <2>1, CacheAssumption DEF NoLeak
  <1>6. CallInv'
    BY <1>1 DEF IInv, CallInv, cacheVars
  <1>7. FiledRight' /\ OneEach'
    BY <1>1, CacheKept
  <1> QED BY <1>1, <1>4, <1>5, <1>6, <1>7 DEF IInv

LEMMA ReleaseKeeps ==
    ASSUME IInv, ReleaseAllMem
    PROVE  IInv'
  <1>0. data' = << >>
    BY DEF ReleaseAllMem
  <1>1. size' = 0 /\ used' = 0 /\ pc' = "EXIT" /\ UNCHANGED <<fs, call, fds, raced, answer>>
    BY DEF ReleaseAllMem
  <1>2. DOMAIN data' = 0..(size' - 1) /\ \A i \in 0..(size' - 1) : FALSE
    <2>1. DOMAIN data' = {} /\ 0..(size' - 1) = {}
      BY <1>0, <1>1
    <2> QED BY <1>1, <2>1
  <1>3. TypeOK'
    <2>1. size' \in Nat /\ used' \in 0..size'
      BY <1>1
    <2>2. call.key \in Key \cup {NoInode} /\ raced \subseteq Key /\ answer \in Document \cup {NoDocument}
      BY DEF IInv, TypeOK
    <2> QED BY <1>1, <1>2, <2>1, <2>2 DEF TypeOK
  <1>4. NoLeak' /\ FiledRight' /\ OneEach'
    <2>1. Docs' = {} /\ \A i \in 0..(used' - 1) : FALSE
      BY <1>1 DEF Docs
    <2> QED BY <1>1, <2>1 DEF NoLeak, FiledRight, OneEach
  <1>5. CallInv'
    BY <1>1 DEF IInv, CallInv
  <1> QED BY <1>1, <1>3, <1>4, <1>5 DEF IInv

(* Another file under the path of a call puts its key into raced. *)
LEMMA ReplaceKeeps ==
    ASSUME IInv, NEW p \in Path, NEW f \in File \cup {NoFile}, Replace(p, f)
    PROVE  IInv'
  <1>1. /\ fs' = [fs EXCEPT ![p] = f] /\ UNCHANGED <<pc, call, fds, answer>> /\ UNCHANGED cacheVars
        /\ raced \subseteq raced'
        /\ \A k \in raced' : k \in raced \/ (pc \in {"OPEN_DIR", "OPEN_FILE"} /\ k = call.key)
        /\ pc \in {"OPEN_DIR", "OPEN_FILE"} /\ call.path = p => call.key \in raced'
    BY DEF Replace
  <1>2. fs' \in [Path -> File \cup {NoFile}]
    BY <1>1 DEF IInv
  <1>3. raced' \subseteq Key
    BY <1>1 DEF IInv, TypeOK, CallInv
  <1>4. TypeOK' /\ NoLeak'
    BY <1>1, <1>3 DEF IInv, TypeOK, NoLeak, cacheVars
  <1>5. CallInv'
    <2>1. pc \in {"OPEN_DIR", "OPEN_FILE"} /\ call.path # p => fs'[call.path] = fs[call.path]
      BY <1>1 DEF IInv, CallInv
    <2> QED BY <1>1, <2>1 DEF IInv, CallInv, NamesRight, cacheVars
  <1>6. FiledRight' /\ OneEach'
    BY <1>1, CacheKept
  <1> QED BY <1>1, <1>2, <1>4, <1>5, <1>6 DEF IInv

LEMMA NextKeeps == IInv /\ [Next]_vars => IInv'
  <1> SUFFICES ASSUME IInv, [Next]_vars PROVE IInv'
    OBVIOUS
  <1>1. CASE \E p \in Path : Stat(p)
    BY <1>1, StatKeeps
  <1>2. CASE MakeDocument
    BY <1>2, OpenDirKeeps, OpenFileKeeps, AllocKeeps, LoadKeeps DEF MakeDocument
  <1>3. CASE ReleaseAllMem
    BY <1>3, ReleaseKeeps
  <1>4. CASE \E p \in Path, f \in File \cup {NoFile} : Replace(p, f)
    BY <1>4, ReplaceKeeps
  <1>5. CASE UNCHANGED vars
    <2>1. UNCHANGED <<fs, data, size, used, pc, call, fds, answer, raced>>
      BY <1>5 DEF vars
    <2>2. TypeOK' /\ NoLeak' /\ OneEach'
      BY <2>1 DEF IInv, TypeOK, NoLeak, OneEach
    <2>3. FiledRight'
      BY <2>1 DEF IInv, FiledRight, Docs
    <2>4. CallInv'
      BY <2>1 DEF IInv, CallInv, NamesRight
    <2> QED BY <2>1, <2>2, <2>3, <2>4 DEF IInv
  <1> QED BY <1>1, <1>2, <1>3, <1>4, <1>5 DEF Next, Exit

LEMMA CacheInvariant == Spec => []IInv
  BY InitIInv, NextKeeps, PTL DEF Spec

(* The cache is well formed: its documents are in its first slots, and it  *)
(* has room for them (FindExistingDoc, AllocAndLogDoc).                    *)
THEOREM CacheTypeCorrect == Spec => []TypeOK
  <1>1. IInv => TypeOK
    BY DEF IInv
  <1> QED BY <1>1, CacheInvariant, PTL

(* No call leaves a descriptor open but the directory of its document,     *)
(* whichever of its system calls failed (MakeDocument).                    *)
THEOREM DescriptorsAccounted == Spec => []NoLeak
  <1>1. IInv => NoLeak
    BY DEF IInv
  <1> QED BY <1>1, CacheInvariant, PTL

(* A document has the file that its key names, unless the file was         *)
(* replaced between fstatat and openat (MakeDocument).                     *)
THEOREM DocumentsFiledRight == Spec => []FiledRight
  <1>1. IInv => FiledRight
    BY DEF IInv
  <1> QED BY <1>1, CacheInvariant, PTL

(* Growth of the cache moves no document to another slot (AllocAndLogDoc). *)
THEOREM DocumentsStay == Spec => SlotsKept
  <1> DEFINE Kept == \A i \in 0..(used - 1) : pc' # "EXIT" => i < used' /\ data'[i] = data[i]
  <1>1. IInv /\ [Next]_vars => [Kept]_vars
    <2> SUFFICES ASSUME IInv, Next PROVE Kept
      OBVIOUS
    <2>1. used \in Nat
      BY DEF IInv, TypeOK
    <2>2. CASE AllocAndLogDoc
      BY <2>1, <2>2, AllocFacts
    <2>3. CASE UNCHANGED cacheVars
      BY <2>1, <2>3 DEF cacheVars
    <2>4. CASE ReleaseAllMem
      BY <2>4 DEF ReleaseAllMem
    <2>5. AllocAndLogDoc \/ ReleaseAllMem \/ UNCHANGED cacheVars
      BY DEF Next, MakeDocument, Stat, OpenDir, OpenFile, Load, Exit, Replace, vars, cacheVars
    <2> QED BY <2>2, <2>3, <2>4, <2>5
  <1>2. Spec => [][Next]_vars
    BY PTL DEF Spec
  <1> QED BY <1>1, <1>2, CacheInvariant, PTL DEF SlotsKept

-----------------------------------------------------------------------------
(* The refinement of DocStore.                                             *)

(* The documents the store has: the one that is being loaded comes later.  *)
StoreDocs == IF pc = "LOAD" THEN {data[i] : i \in 0..(used - 2)} ELSE Docs

(* Known to the store under a key are those the cache finds under it, once *)
(* the call that adds one is over.                                         *)
LEMMA StoreKeys ==
    ASSUME IInv, pc # "EXIT"
    PROVE  /\ pc # "LOAD" => \A k : k \in Store!Keys <=> \E i \in 0..(used - 1) : data[i].key = k
           /\ pc = "LOAD" => call.key \in Key /\ call.key \notin Store!Keys
  <1>1. CASE pc # "LOAD"
    BY <1>1 DEF Store!Keys, Docs
  <1>2. CASE pc = "LOAD"
    <2>0. used \in Nat /\ size \in Nat /\ 0 < used /\ used <= size
      <3>1. used > 0
        BY <1>2 DEF IInv, CallInv
      <3>2. size \in Nat /\ used \in 0..size
        BY DEF IInv, TypeOK
      <3> QED BY <3>1, <3>2
    <2>1. used - 1 \in 0..(used - 1) /\ \A i \in 0..(used - 2) : i \in 0..(used - 1) /\ i # used - 1
      BY <2>0
    <2>2. data[used - 1].key = call.key
      BY <1>2 DEF IInv, CallInv
    <2>3. data[used - 1] \in Document
      BY <2>0 DEF IInv, TypeOK
    <2>4. \A i \in 0..(used - 2) : data[i].key # call.key
      BY <2>1, <2>2 DEF IInv, OneEach
    <2>5. call.key \in Key
      BY <2>2, <2>3 DEF Document
    <2> QED BY <1>2, <2>4, <2>5 DEF Store!Keys
  <1> QED BY <1>1, <1>2

(* A call that is over: it was refused, or the store has the answer. *)
LEMMA StatAsks ==
    ASSUME IInv, NEW p \in Path, Stat(p)
    PROVE  \/ \E k \in Key \cup {NoInode} : Store!Ask(k)
           \/ UNCHANGED <<StoreDocs, asked, answer>>
  <1> DEFINE key == IF fs[p] = NoFile THEN NoInode ELSE Inode(fs[p])
  <1>1. pc = "IDLE" /\ pc' # "LOAD" /\ used' = used /\ data' = data
    BY DEF Stat, Return, Continue, cacheVars
  <1>2. StoreDocs' = StoreDocs /\ StoreDocs = Docs
    BY <1>1 DEF StoreDocs, Docs
  <1>3. key \in Key \cup {NoInode} /\ call'.key = key
    BY NothingAssumption DEF IInv, Key, Stat
  <1> HIDE DEF key
  <1>4. CASE key = NoInode /\ Return(NoDocument)
    <2>1. NoInode \notin Store!Keys
      <3>1. \A i \in 0..(used - 1) : data[i].key \in Key
        BY DEF IInv, TypeOK, Document
      <3> QED BY <1>1, <3>1, StoreKeys, NothingAssumption
    <2> QED BY <1>2, <1>3, <1>4, <2>1 DEF Return, Store!Ask, Store!Refuse, StoreDocs
  <1>5. CASE \E d \in FindExistingDoc(key) : Return(d)
    <2>1. PICK d \in FindExistingDoc(key) : Return(d)
      BY <1>5
    <2>2. PICK i \in 0..(used - 1) : d = data[i] /\ data[i].key = key
      BY DEF FindExistingDoc
    <2>3. answer' = d /\ asked' = key /\ d \in Docs /\ d.key = key /\ key \in Store!Keys
      BY <1>1, <1>3, <2>1, <2>2, StoreKeys DEF Return, Docs
    <2> QED BY <1>2, <1>3, <2>3 DEF Store!Ask, Store!Known, StoreDocs
  <1>6. CASE Continue("OPEN_DIR")
    BY <1>2, <1>6 DEF Continue
  <1> QED BY <1>4, <1>5, <1>6 DEF Stat, key

(* A call that gives up finds its key in no document still. *)
LEMMA FailureAsks ==
    ASSUME IInv, pc \in {"OPEN_DIR", "OPEN_FILE"}, UNCHANGED <<cacheVars, call>>,
           Return(NoDocument)
    PROVE  \E k \in Key \cup {NoInode} : Store!Ask(k)
  <1>1. call.key \in Key /\ \A i \in 0..(used - 1) : data[i].key # call.key
    BY DEF IInv, CallInv
  <1>2. call.key \notin Store!Keys
    BY <1>1, StoreKeys
  <1>3. pc' = "IDLE" /\ asked' = call.key /\ answer' = NoDocument /\ used' = used /\ data' = data
    BY DEF Return, cacheVars
  <1>4. StoreDocs' = StoreDocs
    BY <1>3 DEF StoreDocs, Docs
  <1> QED BY <1>1, <1>2, <1>3, <1>4 DEF Store!Ask, Store!Refuse, StoreDocs

(* The document that was added is in the store when its lines are read. *)
LEMMA LoadAsks ==
    ASSUME IInv, Load
    PROVE  \E k \in Key \cup {NoInode} : Store!Ask(k)
  <1>1. /\ pc = "LOAD" /\ pc' = "IDLE" /\ asked' = call.key /\ answer' = data[used - 1]
        /\ used' = used /\ data' = data
    BY DEF Load, Return, cacheVars
  <1>2. call.key \in Key /\ call.key \notin Store!Keys
    BY <1>1, StoreKeys
  <1>3. answer'.key = call.key
    BY <1>1 DEF IInv, CallInv
  <1>4. used \in Nat /\ used > 0
    <2>1. used > 0
      BY <1>1 DEF IInv, CallInv
    <2>2. size \in Nat /\ used \in 0..size
      BY DEF IInv, TypeOK
    <2> QED BY <2>1, <2>2
  <1>5. 0..(used - 1) = 0..(used - 2) \cup {used - 1}
    BY <1>4
  <1>6. Docs' = {data[i] : i \in 0..(used - 2)} \cup {data[used - 1]}
    BY <1>1, <1>5 DEF Docs
  <1>7. StoreDocs' = StoreDocs \cup {answer'}
    BY <1>1, <1>6 DEF StoreDocs
  <1> QED BY <1>1, <1>2, <1>3, <1>7 DEF Store!Ask, Store!New, StoreDocs

LEMMA StoreStep ==
    ASSUME IInv, [Next]_vars
    PROVE  [Store!Release \/ \E k \in Key \cup {NoInode} : Store!Ask(k)]_<<StoreDocs, asked, answer>>
  <1>1. CASE \E p \in Path : Stat(p)
    BY <1>1, StatAsks
  <1>2. CASE OpenDir
    <2>1. CASE UNCHANGED <<call, fds>> /\ Return(NoDocument)
      BY <1>2, <2>1, FailureAsks DEF OpenDir
    <2>2. CASE Continue("OPEN_FILE")
      BY <1>2, <2>2 DEF OpenDir, Continue, StoreDocs, Docs, cacheVars
    <2> QED BY <1>2, <2>1, <2>2 DEF OpenDir
  <1>3. CASE OpenFile
    <2>1. CASE CloseDir /\ UNCHANGED call /\ Return(NoDocument)
      BY <1>3, <2>1, FailureAsks DEF OpenFile
    <2>2. CASE Continue("ALLOC")
      BY <1>3, <2>2 DEF OpenFile, Continue, StoreDocs, Docs, cacheVars
    <2> QED BY <1>3, <2>1, <2>2 DEF OpenFile
  <1>4. CASE AllocAndLogDoc
    <2>1. pc = "ALLOC" /\ pc' = "LOAD" /\ UNCHANGED <<asked, answer>>
      BY <1>4 DEF AllocAndLogDoc, Continue
    <2>2. used' - 2 = used - 1 /\ \A i \in 0..(used - 1) : data'[i] = data[i]
      <3>1. used' = used + 1 /\ used \in Nat /\ \A i \in 0..(used - 1) : data'[i] = data[i]
        BY <1>4, AllocFacts DEF IInv, TypeOK
      <3> QED BY <3>1
    <2>3. StoreDocs' = {data'[i] : i \in 0..(used - 1)}
      BY <2>1, <2>2 DEF StoreDocs
    <2>4. StoreDocs = {data[i] : i \in 0..(used - 1)}
      BY <2>1 DEF StoreDocs, Docs
    <2> QED BY <2>1, <2>2, <2>3, <2>4
  <1>5. CASE Load
    BY <1>5, LoadAsks
  <1>6. CASE ReleaseAllMem
    <2>1. pc' = "EXIT" /\ used' = 0 /\ UNCHANGED <<asked, answer>>
      BY <1>6 DEF ReleaseAllMem
    <2>2. Docs' = {}
      BY <2>1 DEF Docs
    <2> QED BY <2>1, <2>2 DEF Store!Release, StoreDocs
  <1>7. CASE UNCHANGED <<pc, used, data, asked, answer>>
    BY <1>7 DEF StoreDocs, Docs
  <1>8. Exit \/ UNCHANGED vars \/ (\E p \in Path, f \in File \cup {NoFile} : Replace(p, f))
            => UNCHANGED <<pc, used, data, asked, answer>>
    BY DEF Exit, vars, Replace, cacheVars
  <1> QED BY <1>1, <1>2, <1>3, <1>4, <1>5, <1>6, <1>7, <1>8 DEF Next, MakeDocument

(* To its callers the cache is a store of one document per key: a file     *)
(* that is known gives its document, though the calls that find, open and  *)
(* load it may fail one by one and files are replaced in between.          *)
THEOREM CacheRefinesStore == Spec => ImplementsStore
  <1>1. Init => Store!StoreInit
    <2> SUFFICES ASSUME Init PROVE Store!StoreInit
      OBVIOUS
    <2>1. used = 0 /\ pc = "IDLE" /\ asked = NoInode /\ answer = NoDocument
      BY DEF Init
    <2>2. Docs = {}
      BY <2>1 DEF Docs
    <2> QED BY <2>1, <2>2 DEF Store!StoreInit
  <1>2. IInv /\ [Next]_vars
            => [Store!Release \/ \E k \in Key \cup {NoInode} : Store!Ask(k)]_<<StoreDocs, asked, answer>>
    BY StoreStep
  <1>3. Spec => Init /\ [][Next]_vars
    BY PTL DEF Spec
  <1> QED BY <1>1, <1>2, <1>3, CacheInvariant, PTL DEF ImplementsStore, Store!StoreSpec, StoreDocs
=============================================================================
