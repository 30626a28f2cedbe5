-------------------------------- MODULE Arena --------------------------------
(***************************************************************************)
(* The pages of src/mem.c: every string and every node of an expression is *)
(* reserved in a page of its category, and stays until the program ends.   *)
(* A category has a list of pages, the emptiest in front; only the page in *)
(* front is tried.                                                         *)
(***************************************************************************)
EXTENDS Integers, Sequences, FiniteSets

CONSTANTS
    PAGE_SIZE,
    Header,         \* sizeof (struct page)
    Alignment,      \* of data
    Request(_),     \* the sizes that are asked of a category
    MaxBlocks       \* no more blocks than this are reserved

(* enum page_categories *)
Categories == {"STRING_PAGE", "DATA_PAGE"}

ASSUME ArenaAssumption ==
    /\ Alignment \in Nat \ {0} /\ Header \in Nat /\ PAGE_SIZE \in Nat /\ MaxBlocks \in Nat
    /\ Header % Alignment = 0 /\ PAGE_SIZE % Alignment = 0 /\ Header < PAGE_SIZE
    /\ \A c \in Categories : Request(c) \subseteq Nat \ {0}

VARIABLES
    pages,      \* pages[c]: the list Category[c], of pages and how much of each is used
    held,       \* the blocks that were reserved
    count,      \* how many pages there are; they are numbered
    pc

vars == <<pages, held, count, pc>>

Init ==
    /\ pages = [c \in Categories |-> << >>]
    /\ held = {} /\ count = 0 /\ pc = "RUN"

-----------------------------------------------------------------------------
(* Fit slip: down to a multiple. *)
FitDown(n, c) == IF c = "STRING_PAGE" THEN n ELSE (n \div Alignment) * Alignment
(* Fit slip: data is not aligned either. *)
FitNever(n, c) == n
Fit(n, c) ==
    IF c = "STRING_PAGE" THEN n ELSE ((n + Alignment - 1) \div Alignment) * Alignment

(* No caller asks for more than an empty page has: strings come from       *)
(* buffers of 512 bytes, nodes have 32.                                    *)
ASSUME RequestsFit ==
    \A c \in Categories : \A size \in Request(c) : Header + Fit(size, c) <= PAGE_SIZE

NewPage(c) == [page |-> count + 1, used |-> Fit(Header, c)]

(* HasRoom slip: what is used of the page is forgotten. *)
HasRoomEver(page, size) == size <= PAGE_SIZE
HasRoom(page, size) == size <= PAGE_SIZE - page.used

(* The list is sorted: where a page goes that is fuller than before. *)
IsPlace(k, page, list) ==
    /\ \A j \in 1..(k - 1) : list[j].used < page.used
    /\ k <= Len(list) => page.used <= list[k].used

(* Inserted slip: the page stays in front. *)
InsertedInFront(page, list) == <<page>> \o list
(* Inserted slip: the page takes the place of the next one. *)
InsertedOver(page, list) ==
    LET k == CHOOSE k \in 1..(Len(list) + 1) : IsPlace(k, page, list)
    IN  SubSeq(list, 1, k - 1) \o <<page>> \o SubSeq(list, k + 1, Len(list))
Inserted(page, list) ==
    LET k == CHOOSE k \in 1..(Len(list) + 1) : IsPlace(k, page, list)
    IN  SubSeq(list, 1, k - 1) \o <<page>> \o SubSeq(list, k, Len(list))

(* Reserve: in the page in front, or in a new one.                         *)
Reserve(c, size) ==
    LET fit   == Fit(size, c)
        list  == pages[c]
        old   == list # << >> /\ HasRoom(Head(list), fit)
        page  == IF old THEN Head(list) ELSE NewPage(c)
        rest  == IF old THEN Tail(list) ELSE list
        used  == page.used + fit
    IN  /\ pc = "RUN" /\ Cardinality(held) < MaxBlocks
        /\ IF used > PAGE_SIZE
           THEN pc' = "ABORTED" /\ UNCHANGED <<pages, held, count>>
           ELSE /\ count' = IF old THEN count ELSE count + 1
                /\ pages' = [pages EXCEPT ![c] = Inserted([page EXCEPT !.used = used], rest)]
                /\ held' = held \cup {[category |-> c, page |-> page.page,
                                       first |-> page.used, last |-> page.used + size - 1]}
                /\ UNCHANGED pc

ReserveData(size) == Reserve("DATA_PAGE", size)
SaveStr(size)     == Reserve("STRING_PAGE", size)

(* The pages are freed, at the end of main; no one uses a block after it. *)
ReleaseAllMem ==
    /\ pc = "RUN" /\ pc' = "EXIT"
    /\ pages' = [c \in Categories |-> << >>] /\ held' = {} /\ count' = 0

Stopped == pc \in {"ABORTED", "EXIT"} /\ UNCHANGED vars

Next ==
    \/ \E size \in Request("DATA_PAGE") : ReserveData(size)
    \/ \E size \in Request("STRING_PAGE") : SaveStr(size)
    \/ ReleaseAllMem \/ Stopped

Spec == Init /\ [][Next]_vars

-----------------------------------------------------------------------------
(* Properties.                                                             *)

Size(b) == b.last - b.first + 1
Listed(c) == {pages[c][i] : i \in 1..Len(pages[c])}

(* No page is lost from the lists or in two of them, however it was moved; *)
(* what is used of it is more than the header and no more than the page.   *)
TypeOK ==
    /\ \A c \in Categories : \A q \in Listed(c) :
        q.page \in 1..count /\ q.used \in (Header + 1)..PAGE_SIZE
    /\ \A n \in 1..count :
        Cardinality({w \in Categories \X (1..count) :
                        w[2] <= Len(pages[w[1]]) /\ pages[w[1]][w[2]].page = n}) = 1
    /\ pc \in {"RUN", "ABORTED", "EXIT"}

(* Every block is in a page of its own category, behind the header, within *)
(* what is used of the page; data is aligned (mem.c:141, 184).             *)
BlocksFit ==
    \A b \in held :
        /\ \E q \in Listed(b.category) : b.page = q.page /\ b.last < q.used
        /\ b.first >= Header
        /\ b.category = "DATA_PAGE" => b.first % Alignment = 0

(* The assertions at mem.c:181 and 186 never fail: what does not fit in    *)
(* the page in front gets a page that has room.                            *)
NeverStops == pc # "ABORTED"

(* Though only the page in front is tried, a page is made only when no     *)
(* page of the category has room (SORT_PAGES).                             *)
NewPageIfFull ==
    [][\A b \in held' \ held : count' > count =>
            \A q \in Listed(b.category) : ~HasRoom(q, Fit(Size(b), b.category))]_vars

(* No one is given memory that another one holds.                          *)
Memory == INSTANCE Heap WITH Sizes <- UNION {Request(c) : c \in Categories}
ImplementsHeap == Memory!HeapSpec
=============================================================================
