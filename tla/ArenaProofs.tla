----------------------------- MODULE ArenaProofs -----------------------------
(***************************************************************************)
(* That the pages of the arena are never lost, overfilled or shared, for   *)
(* any size of a page, any alignment and any requests that fit a page; and *)
(* that the arena implements Heap.                                         *)
(***************************************************************************)
EXTENDS Arena, NumberLemmas, SequenceTheorems, FiniteSetTheorems

Page  == [page : Nat, used : Nat]
Block == [category : Categories, page : Nat, first : Nat, last : Nat]

Index(c) == 1..Len(pages[c])

(* The pages of a category are in the order of their use. *)
InOrder(list) == \A i, j \in 1..Len(list) : i < j => list[i].used <= list[j].used

(* A page: numbered, begun, not overfull; its next block of data aligned.  *)
PageOK(n, c, q) ==
    /\ q.page \in 1..n /\ q.used \in (Header + 1)..PAGE_SIZE
    /\ c = "DATA_PAGE" => q.used % Alignment = 0

(* Every page is at one place of one list. *)
Apart ==
    \A c, d \in Categories : \A i \in Index(c), j \in Index(d) :
        pages[c][i].page = pages[d][j].page => c = d /\ i = j
NoneLost == \A n \in 1..count : \E c \in Categories : \E i \in Index(c) : pages[c][i].page = n

PagesInv ==
    /\ pages \in [Categories -> Seq(Page)] /\ count \in Nat
    /\ \A c \in Categories : InOrder(pages[c]) /\ \A i \in Index(c) : PageOK(count, c, pages[c][i])
    /\ Apart /\ NoneLost
    /\ Len(pages["STRING_PAGE"]) + Len(pages["DATA_PAGE"]) = count

HeldInv ==
    /\ held \subseteq Block /\ \A b \in held : b.first <= b.last
    /\ BlocksFit

IInv == PagesInv /\ HeldInv /\ pc \in {"RUN", "EXIT"}

-----------------------------------------------------------------------------
(* Numbers and the list.                                                   *)

(* Fit rounds up: to the alignment, when it is data.                       *)
LEMMA FitFacts ==
    ASSUME NEW n \in Nat, NEW c \in Categories
    PROVE  /\ Fit(n, c) \in Nat /\ Fit(n, c) >= n
           /\ c = "DATA_PAGE" => Fit(n, c) % Alignment = 0
  <1> USE ArenaAssumption
  <1>1. CASE c = "STRING_PAGE"
    BY <1>1 DEF Fit
  <1>2. CASE c = "DATA_PAGE"
    <2> DEFINE A == Alignment
               q == (n + A - 1) \div A
    <2>1. Fit(n, c) = q * A
      BY <1>2 DEF Fit
    <2>2. A \in Nat /\ A > 0
      OBVIOUS
    <2>3. q \in Int /\ q * A <= n + A - 1 /\ n + A - 1 < q * A + A /\ q >= 0
      <3> HIDE ArenaAssumption DEF A
      <3> QED BY <2>2
    <2>4. q * A \in Nat /\ q * A >= n /\ (q * A) % A = 0
      <3> HIDE ArenaAssumption DEF A, q
      <3>1. q * A >= n
        BY <2>2, <2>3
      <3>2. q * A + 0 = q * A /\ 0 < A /\ 0 \in Nat /\ q \in Nat
        BY <2>2, <2>3
      <3>3. (q * A + 0) % A = 0
        BY <2>2, <3>2, QuotientOfIndex
      <3> QED BY <2>2, <2>3, <3>1, <3>2, <3>3
    <2> QED BY <2>1, <2>4
  <1> QED BY <1>1, <1>2 DEF Categories

(* The header is aligned: nothing is lost in front of a page.              *)
LEMMA HeaderFits == ASSUME NEW c \in Categories PROVE Fit(Header, c) = Header
  <1> DEFINE A == Alignment
             H == Header
             q == (H + A - 1) \div A
  <1>1. A \in Nat /\ A > 0 /\ H \in Nat /\ H % A = 0
    BY ArenaAssumption
  <1>2. q * A = H
    <2> HIDE DEF A, H
    <2>1. PICK p \in Nat : H = p * A
      <3>1. H = (H \div A) * A + (H % A) /\ H \div A \in Nat
        BY <1>1
      <3> QED BY <1>1, <3>1
    <2>2. H + A - 1 = p * A + (A - 1) /\ A - 1 \in Nat /\ A - 1 < A
      BY <1>1, <2>1
    <2>3. q = p
      BY <1>1, <2>1, <2>2, QuotientOfIndex
    <2> QED BY <2>1, <2>3
  <1> QED BY <1>2 DEF Fit

(* There is a place in the list for every page.                            *)
LEMMA PlaceExists ==
    ASSUME NEW list \in Seq(Page), NEW page \in Page
    PROVE  \E k \in 1..(Len(list) + 1) : IsPlace(k, page, list)
  <1> DEFINE S == {k \in 1..(Len(list) + 1) : k <= Len(list) => page.used <= list[k].used}
  <1>1. Len(list) \in Nat /\ \A i \in 1..Len(list) : list[i] \in Page
    BY ElementOfSeq, LenProperties
  <1>2. S \in SUBSET Nat /\ Len(list) + 1 \in S
    BY <1>1
  <1>3. PICK k \in S : \A n \in S : k <= n
    <2> HIDE DEF S
    <2> QED BY <1>2, LeastNumber
  <1>4. ASSUME NEW j \in 1..(k - 1) PROVE list[j].used < page.used
    <2>1. j \notin S /\ j \in 1..Len(list)
      BY <1>1, <1>3
    <2>2. ~(page.used <= list[j].used)
      BY <1>1, <2>1
    <2>3. list[j].used \in Nat /\ page.used \in Nat
      BY <1>1, <2>1 DEF Page
    <2> QED BY <2>2, <2>3
  <1> QED BY <1>3, <1>4 DEF IsPlace

(* The list with a page more: the page is in its place, the others as they *)
(* were, those behind it one place further.                                *)
IsInserted(new, k, page, list) ==
    /\ IsPlace(k, page, list)
    /\ new \in Seq(Page) /\ Len(new) = Len(list) + 1 /\ new[k] = page
    /\ \A i \in 1..(k - 1) : new[i] = list[i]
    /\ \A i \in (k + 1)..Len(new) : new[i] = list[i - 1]

LEMMA InsertedFacts ==
    ASSUME NEW list \in Seq(Page), NEW page \in Page
    PROVE  \E k \in 1..(Len(list) + 1) : IsInserted(Inserted(page, list), k, page, list)
  <1> DEFINE k == CHOOSE k \in 1..(Len(list) + 1) : IsPlace(k, page, list)
             a == SubSeq(list, 1, k - 1)
             b == SubSeq(list, k, Len(list))
             m == <<page>>
  <1>1. k \in 1..(Len(list) + 1) /\ IsPlace(k, page, list)
    BY PlaceExists
  <1>2. Len(list) \in Nat /\ \A i \in 1..Len(list) : list[i] \in Page
    BY ElementOfSeq, LenProperties
  <1>3. Inserted(page, list) = (a \o m) \o b
    BY DEF Inserted
  <1> HIDE DEF k
  <1>4. /\ a \in Seq(Page) /\ Len(a) = k - 1
        /\ \A i \in 1..(k - 1) : a[i] = list[i]
    <2>1. 1 \in Int /\ k - 1 \in Int /\ \A i \in 1..(k - 1) : list[i] \in Page
      BY <1>1, <1>2
    <2>2. /\ a \in Seq(Page) /\ Len(a) = IF 1 <= k - 1 THEN k - 1 - 1 + 1 ELSE 0
          /\ \A i \in 1..(k - 1 - 1 + 1) : a[i] = list[1 + i - 1]
      BY <2>1, SubSeqProperties
    <2> QED BY <1>1, <2>2
  <1>5. /\ b \in Seq(Page) /\ Len(b) = Len(list) - k + 1
        /\ \A i \in 1..(Len(list) - k + 1) : b[i] = list[k + i - 1]
    <2>1. k \in Int /\ Len(list) \in Int /\ \A i \in k..Len(list) : list[i] \in Page
      BY <1>1, <1>2
    <2>2. /\ b \in Seq(Page) /\ Len(b) = IF k <= Len(list) THEN Len(list) - k + 1 ELSE 0
          /\ \A i \in 1..(Len(list) - k + 1) : b[i] = list[k + i - 1]
      BY <2>1, SubSeqProperties
    <2> QED BY <1>1, <1>2, <2>2
  <1>6. m \in Seq(Page) /\ Len(m) = 1 /\ m[1] = page
    OBVIOUS
  <1> DEFINE am == a \o m
  <1> HIDE DEF a, b, m
  <1>7. /\ am \in Seq(Page) /\ Len(am) = k /\ am[k] = page
        /\ \A i \in 1..(k - 1) : am[i] = list[i]
    <2>1. /\ am \in Seq(Page) /\ Len(am) = Len(a) + Len(m)
          /\ \A i \in 1..(Len(a) + Len(m)) : am[i] = IF i <= Len(a) THEN a[i] ELSE m[i - Len(a)]
      BY <1>4, <1>6, ConcatProperties
    <2>2. Len(am) = k
      BY <1>1, <1>4, <1>6, <2>1
    <2>3. am[k] = page
      BY <1>1, <1>4, <1>6, <2>1
    <2>4. \A i \in 1..(k - 1) : am[i] = list[i]
      BY <1>1, <1>4, <1>6, <2>1
    <2> QED BY <2>1, <2>2, <2>3, <2>4
  <1> DEFINE new == am \o b
  <1> HIDE DEF am
  <1>8. /\ new \in Seq(Page) /\ Len(new) = Len(am) + Len(b)
        /\ \A i \in 1..(Len(am) + Len(b)) : new[i] = IF i <= Len(am) THEN am[i] ELSE b[i - Len(am)]
    BY <1>5, <1>7, ConcatProperties
  <1> HIDE DEF new
  <1>9. Len(new) = Len(list) + 1 /\ new[k] = page
    BY <1>1, <1>2, <1>5, <1>7, <1>8
  <1>10. ASSUME NEW i \in 1..(k - 1) PROVE new[i] = list[i]
    BY <1>1, <1>2, <1>5, <1>7, <1>8
  <1>11. ASSUME NEW i \in (k + 1)..(Len(list) + 1) PROVE new[i] = list[i - 1]
    <2>1. new[i] = b[i - k] /\ i - k \in 1..(Len(list) - k + 1)
      BY <1>1, <1>2, <1>5, <1>7, <1>8
    <2>2. b[i - k] = list[k + (i - k) - 1]
      BY <1>5, <2>1
    <2> QED BY <1>1, <1>2, <2>1, <2>2
  <1>12. IsInserted(new, k, page, list)
    BY <1>1, <1>8, <1>9, <1>10, <1>11 DEF IsInserted
  <1> QED BY <1>1, <1>3, <1>12 DEF new, am

(* The list stays in order.                                                *)
LEMMA InsertedInOrder ==
    ASSUME NEW list \in Seq(Page), NEW page \in Page, NEW new, NEW k \in 1..(Len(list) + 1),
           IsInserted(new, k, page, list), InOrder(list)
    PROVE  InOrder(new)
  <1>1. Len(list) \in Nat /\ \A i \in 1..Len(list) : list[i].used \in Nat
    <2>1. Len(list) \in Nat /\ \A i \in 1..Len(list) : list[i] \in Page
      BY ElementOfSeq, LenProperties
    <2> QED BY <2>1 DEF Page
  <1>2. Len(new) = Len(list) + 1 /\ new[k] = page /\ page.used \in Nat
    BY DEF IsInserted, Page
  <1>3. \A i \in 1..(k - 1) : new[i] = list[i]
    BY DEF IsInserted
  <1>4. \A i \in (k + 1)..Len(new) : new[i] = list[i - 1]
    BY DEF IsInserted
  <1>5. ASSUME NEW i \in k..Len(list) PROVE page.used <= list[i].used
    <2>1. page.used <= list[k].used /\ k \in 1..Len(list)
      BY <1>1 DEF IsInserted, IsPlace
    <2>2. list[k].used <= list[i].used
      BY <1>1, <2>1 DEF InOrder
    <2> QED BY <1>1, <1>2, <2>1, <2>2
  <1>6. \A i \in 1..(k - 1) : list[i].used < page.used
    BY DEF IsInserted, IsPlace
  <1> SUFFICES ASSUME NEW i \in 1..Len(new), NEW j \in 1..Len(new), i < j
               PROVE  new[i].used <= new[j].used
    BY DEF InOrder
  <1>7. CASE j < k
    <2>1. new[i] = list[i] /\ new[j] = list[j] /\ i \in 1..Len(list) /\ j \in 1..Len(list)
      BY <1>1, <1>2, <1>3, <1>7
    <2> QED BY <2>1 DEF InOrder
  <1>8. CASE j = k
    <2>1. new[i] = list[i] /\ i \in 1..(k - 1) /\ i \in 1..Len(list)
      BY <1>1, <1>2, <1>3, <1>8
    <2> QED BY <1>1, <1>2, <1>6, <1>8, <2>1
  <1>9. CASE j > k
    <2>1. new[j] = list[j - 1] /\ j - 1 \in 1..Len(list) /\ j - 1 \in k..Len(list)
      BY <1>1, <1>2, <1>4, <1>9
    <2>2. CASE i < k
      <3>1. new[i] = list[i] /\ i \in 1..Len(list) /\ i < j - 1
        BY <1>1, <1>2, <1>3, <1>9, <2>2
      <3> QED BY <2>1, <3>1 DEF InOrder
    <2>3. CASE i = k
      BY <1>2, <1>5, <2>1, <2>3
    <2>4. CASE i > k
      <3>1. new[i] = list[i - 1] /\ i - 1 \in 1..Len(list) /\ i - 1 < j - 1
        BY <1>1, <1>2, <1>4, <2>4
      <3> QED BY <2>1, <3>1 DEF InOrder
    <2> QED BY <1>1, <1>2, <2>2, <2>3, <2>4
  <1> QED BY <1>1, <1>2, <1>7, <1>8, <1>9

-----------------------------------------------------------------------------
(* What Reserve does.                                                      *)

(* The page was in front of the list, or it is new.                        *)
Chosen(c, page, o) ==
    \/ o = 1 /\ pages[c] # << >> /\ page = pages[c][1]
    \/ o = 0 /\ page.page = count + 1 /\ page.used = Header

(* The list without the page in front, when that one was chosen.           *)
IsRest(rest, c, o) ==
    /\ rest \in Seq(Page) /\ Len(rest) = Len(pages[c]) - o
    /\ \A i \in 1..Len(rest) : rest[i] = pages[c][i + o]

Used(page, fit) == [page |-> page.page, used |-> page.used + fit]
NewBlock(c, page, size) ==
    [category |-> c, page |-> page.page, first |-> page.used, last |-> page.used + size - 1]

(* A block of the size was reserved at the end of the page, and the page   *)
(* put at the place k of the others; o is 1 if it was in front of them.    *)
Reserved(c, size, page, o, rest, k) ==
    /\ Chosen(c, page, o) /\ IsRest(rest, c, o)
    /\ page.used + Fit(size, c) <= PAGE_SIZE
    /\ k \in 1..(Len(rest) + 1)
    /\ pages' \in [Categories -> Seq(Page)]
    /\ IsInserted(pages'[c], k, Used(page, Fit(size, c)), rest)
    /\ \A d \in Categories \ {c} : pages'[d] = pages[d]
    /\ count' = count + 1 - o
    /\ held' = held \cup {NewBlock(c, page, size)}
    /\ pc' = pc
    /\ o = 0 => pages[c] = << >> \/ ~HasRoom(pages[c][1], Fit(size, c))

(* Every list is one of pages.                                             *)
LEMMA ListFacts ==
    ASSUME PagesInv, NEW c \in Categories
    PROVE  /\ pages[c] \in Seq(Page) /\ Len(pages[c]) \in Nat
           /\ \A i \in Index(c) : pages[c][i] \in Page
  <1>1. pages[c] \in Seq(Page)
    BY DEF PagesInv
  <1> QED BY <1>1, ElementOfSeq, LenProperties DEF Index

LEMMA ReserveFacts ==
    ASSUME IInv, NEW c \in Categories, NEW size \in Request(c), Reserve(c, size)
    PROVE  \E page \in Page, o \in {0, 1}, rest \in Seq(Page), k \in Nat :
                Reserved(c, size, page, o, rest, k)
  <1> DEFINE fit  == Fit(size, c)
             list == pages[c]
             old  == list # << >> /\ HasRoom(Head(list), fit)
             page == IF old THEN Head(list) ELSE NewPage(c)
             rest == IF old THEN Tail(list) ELSE list
             used == page.used + fit
             o    == IF old THEN 1 ELSE 0
  <1>1. size \in Nat \ {0} /\ fit \in Nat /\ fit >= size /\ Header + fit <= PAGE_SIZE
    BY ArenaAssumption, RequestsFit, FitFacts
  <1>2. /\ list \in Seq(Page) /\ Len(list) \in Nat
        /\ \A i \in 1..Len(list) : list[i] \in Page
    BY ListFacts DEF IInv, Index
  <1>3. count \in Nat /\ PAGE_SIZE \in Nat /\ Header \in Nat
    BY ArenaAssumption DEF IInv, PagesInv
  <1>4. list # << >> => /\ Head(list) \in Page /\ Head(list) = list[1] /\ Len(list) > 0
                        /\ Tail(list) \in Seq(Page) /\ Len(Tail(list)) = Len(list) - 1
                        /\ \A i \in 1..Len(Tail(list)) : Tail(list)[i] = list[i + 1]
    <2> HIDE DEF list
    <2> SUFFICES ASSUME list # << >> PROVE /\ Head(list) \in Page /\ Head(list) = list[1] /\ Len(list) > 0
                        /\ Tail(list) \in Seq(Page) /\ Len(Tail(list)) = Len(list) - 1
                        /\ \A i \in 1..Len(Tail(list)) : Tail(list)[i] = list[i + 1]
      OBVIOUS
    <2>1. Head(list) \in Page /\ Tail(list) \in Seq(Page) /\ Len(Tail(list)) = Len(list) - 1
      BY <1>2, HeadTailProperties
    <2>2. \A i \in 1..Len(Tail(list)) : Tail(list)[i] = list[i + 1]
      BY <1>2, HeadTailProperties
    <2>3. Len(list) > 0
      BY <1>2, EmptySeq
    <2>4. Head(list) = list[1]
      BY <1>2
    <2> QED BY <2>1, <2>2, <2>3, <2>4
  <1>5. NewPage(c) = [page |-> count + 1, used |-> Header] /\ NewPage(c) \in Page
    BY <1>3, HeaderFits DEF NewPage, Page
  <1>6. page \in Page
    BY <1>4, <1>5
  <1>7. IsRest(rest, c, o)
    <2> HIDE DEF list
    <2>1. CASE old
      BY <1>4, <2>1 DEF IsRest, list
    <2>2. CASE ~old
      BY <1>2, <2>2 DEF IsRest, list
    <2> QED BY <2>1, <2>2
  <1>8. Chosen(c, page, o)
    BY <1>4, <1>5 DEF Chosen
  <1>9. used <= PAGE_SIZE /\ used \in Nat
    <2>1. page.used \in Nat
      BY <1>6 DEF Page
    <2>2. CASE old
      <3>1. fit <= PAGE_SIZE - page.used
        BY <2>2 DEF HasRoom
      <3> HIDE DEF fit, page
      <3> QED BY <1>1, <1>3, <2>1, <3>1
    <2>3. CASE ~old
      <3>1. page.used = Header
        BY <1>5, <2>3
      <3> HIDE DEF fit, page
      <3> QED BY <1>1, <1>3, <3>1
    <2> QED BY <2>2, <2>3
  <1>10. /\ count' = (IF old THEN count ELSE count + 1)
         /\ pages' = [pages EXCEPT ![c] = Inserted([page EXCEPT !.used = used], rest)]
         /\ held' = held \cup {[category |-> c, page |-> page.page,
                                first |-> page.used, last |-> page.used + size - 1]}
         /\ pc' = pc
    <2>1. ~(used > PAGE_SIZE)
      <3> HIDE DEF used
      <3> QED BY <1>3, <1>9
    <2> QED BY <2>1 DEF Reserve
  <1> DEFINE up == Used(page, fit)
  <1>11. [page EXCEPT !.used = used] = up /\ up \in Page
    BY <1>6, <1>9 DEF Used, Page
  <1>12. rest \in Seq(Page)
    BY <1>7 DEF IsRest
  <1>13. PICK k \in 1..(Len(rest) + 1) : IsInserted(Inserted(up, rest), k, up, rest)
    <2> HIDE DEF up, rest
    <2> QED BY <1>11, <1>12, InsertedFacts
  <1>14. /\ pages' \in [Categories -> Seq(Page)] /\ pages'[c] = Inserted(up, rest)
         /\ \A d \in Categories \ {c} : pages'[d] = pages[d]
    <2>1. Inserted(up, rest) \in Seq(Page)
      BY <1>13 DEF IsInserted
    <2>2. pages' = [pages EXCEPT ![c] = Inserted(up, rest)]
      BY <1>10, <1>11
    <2>3. pages \in [Categories -> Seq(Page)]
      BY DEF IInv, PagesInv
    <2> HIDE DEF up, rest
    <2> QED BY <2>1, <2>2, <2>3
  <1>15. count' = count + 1 - o /\ o \in {0, 1}
    BY <1>3, <1>10
  <1>16. k \in Nat
    BY <1>12, LenProperties
  <1>17. held' = held \cup {NewBlock(c, page, size)}
    BY <1>10 DEF NewBlock
  <1>18. o = 0 => pages[c] = << >> \/ ~HasRoom(pages[c][1], fit)
    BY <1>4
  <1>19. Reserved(c, size, page, o, rest, k)
    <2> HIDE DEF page, rest, o
    <2> QED BY <1>7, <1>8, <1>9, <1>10, <1>13, <1>14, <1>15, <1>17, <1>18 DEF Reserved
  <1> HIDE DEF page, rest, o
  <1> QED BY <1>6, <1>12, <1>15, <1>16, <1>19

-----------------------------------------------------------------------------
(* The pages after Reserve.                                                *)

(* Where the page at i was, that is not the one at k. *)
Before(i, k, o) == IF i < k THEN i + o ELSE i - 1 + o

(* Every page but the chosen one is what it was, and none is gone.         *)
LEMMA ReservedList ==
    ASSUME IInv, NEW c \in Categories, NEW size \in Request(c),
           NEW page \in Page, NEW o \in {0, 1}, NEW rest \in Seq(Page), NEW k \in Nat,
           Reserved(c, size, page, o, rest, k)
    PROVE  /\ k \in Index(c)' /\ pages'[c][k] = Used(page, Fit(size, c))
           /\ Len(pages'[c]) \in Nat /\ Len(pages'[c]) = Len(pages[c]) + 1 - o
           /\ InOrder(pages'[c])
           /\ \A i \in Index(c)' \ {k} :
                /\ Before(i, k, o) \in Index(c) /\ Before(i, k, o) > o
                /\ pages'[c][i] = pages[c][Before(i, k, o)]
           /\ \A j \in Index(c) : j > o => \E i \in Index(c)' \ {k} : pages'[c][i] = pages[c][j]
  <1> DEFINE L == pages[c]
             N == pages'[c]
             up == Used(page, Fit(size, c))
  <1>1. L \in Seq(Page) /\ Len(L) \in Nat /\ \A i \in 1..Len(L) : L[i] \in Page
    BY ListFacts DEF IInv, Index
  <1>2. Len(rest) = Len(L) - o /\ \A i \in 1..Len(rest) : rest[i] = L[i + o]
    BY DEF Reserved, IsRest
  <1>3. IsInserted(N, k, up, rest) /\ k \in 1..(Len(rest) + 1)
    BY DEF Reserved
  <1>4. Len(N) = Len(rest) + 1 /\ N[k] = up
    BY <1>3 DEF IsInserted
  <1>5. \A i \in 1..(k - 1) : N[i] = rest[i]
    BY <1>3 DEF IsInserted
  <1>6. \A i \in (k + 1)..Len(N) : N[i] = rest[i - 1]
    BY <1>3 DEF IsInserted
  <1>7. Len(rest) \in Nat
    BY LenProperties
  <1>8. InOrder(N)
    <2>1. InOrder(L)
      BY DEF IInv, PagesInv
    <2>2. InOrder(rest)
      <3> SUFFICES ASSUME NEW i \in 1..Len(rest), NEW j \in 1..Len(rest), i < j
                   PROVE  rest[i].used <= rest[j].used
        BY DEF InOrder
      <3>1. i + o \in 1..Len(L) /\ j + o \in 1..Len(L) /\ i + o < j + o
        BY <1>1, <1>2, <1>7
      <3>2. rest[i] = L[i + o] /\ rest[j] = L[j + o]
        BY <1>2
      <3> HIDE DEF L
      <3> QED BY <2>1, <3>1, <3>2 DEF InOrder
    <2>3. up \in Page
      <3>1. Fit(size, c) \in Nat
        BY FitFacts, ArenaAssumption
      <3> QED BY <3>1 DEF Used, Page
    <2> HIDE DEF up, N
    <2> QED BY <1>3, <2>2, <2>3, InsertedInOrder
  <1> HIDE DEF L, N, up
  <1>9. ASSUME NEW i \in (1..Len(N)) \ {k}
        PROVE  Before(i, k, o) \in 1..Len(L) /\ Before(i, k, o) > o /\ N[i] = L[Before(i, k, o)]
    <2>1. CASE i < k
      <3>1. i \in 1..(k - 1) /\ i \in 1..Len(rest)
        BY <1>3, <1>7, <2>1
      <3> QED BY <1>1, <1>2, <1>5, <2>1, <3>1 DEF Before
    <2>2. CASE i > k
      <3>1. i \in (k + 1)..Len(N) /\ i - 1 \in 1..Len(rest)
        BY <1>3, <1>4, <1>7, <2>2
      <3>2. N[i] = L[i - 1 + o]
        BY <1>2, <1>6, <3>1
      <3> QED BY <1>1, <1>2, <2>2, <3>1, <3>2 DEF Before
    <2> QED BY <1>4, <1>7, <2>1, <2>2
  <1>10. ASSUME NEW j \in 1..Len(L), j > o PROVE \E i \in (1..Len(N)) \ {k} : N[i] = L[j]
    <2> DEFINE r == j - o
    <2>1. r \in 1..Len(rest) /\ rest[r] = L[j]
      <3>1. r \in 1..Len(rest) /\ r + o = j
        BY <1>1, <1>2, <1>10
      <3> HIDE DEF r
      <3>2. rest[r] = L[r + o]
        BY <1>2, <3>1
      <3> QED BY <3>1, <3>2
    <2>2. CASE r < k
      <3>1. r \in (1..Len(N)) \ {k} /\ r \in 1..(k - 1)
        BY <1>4, <1>7, <2>1, <2>2
      <3> QED BY <1>5, <2>1, <3>1
    <2>3. CASE r >= k
      <3>1. r + 1 \in (1..Len(N)) \ {k} /\ r + 1 \in (k + 1)..Len(N) /\ (r + 1) - 1 = r
        BY <1>4, <1>7, <2>1, <2>3
      <3>2. N[r + 1] = rest[r]
        BY <1>6, <3>1
      <3> QED BY <2>1, <3>1, <3>2
    <2> QED BY <1>1, <2>2, <2>3
  <1>11. k \in 1..Len(N) /\ Len(N) \in Nat /\ Len(N) = Len(L) + 1 - o
    BY <1>1, <1>2, <1>3, <1>4, <1>7
  <1> QED BY <1>4, <1>8, <1>9, <1>10, <1>11 DEF L, N, up, Index

(* Sums of multiples.                                                      *)
LEMMA SumAligned ==
    ASSUME NEW A \in Nat, A > 0, NEW m \in Nat, NEW n \in Nat, m % A = 0, n % A = 0
    PROVE  (m + n) % A = 0
  <1> DEFINE p == m \div A
             q == n \div A
  <1>1. m = p * A /\ n = q * A /\ p \in Nat /\ q \in Nat
    OBVIOUS
  <1> HIDE DEF p, q
  <1>2. m + n = (p + q) * A + 0 /\ p + q \in Nat /\ 0 \in Nat /\ 0 < A
    BY <1>1
  <1>3. ((p + q) * A + 0) % A = 0
    BY <1>2, QuotientOfIndex
  <1> QED BY <1>2, <1>3

(* The chosen page: what it is used for, and that no other has its number. *)
LEMMA ChosenFacts ==
    ASSUME IInv, NEW c \in Categories, NEW size \in Request(c),
           NEW page \in Page, NEW o \in {0, 1}, NEW rest \in Seq(Page), NEW k \in Nat,
           Reserved(c, size, page, o, rest, k)
    PROVE  /\ page.page \in Nat /\ page.used \in Nat /\ page.used >= Header
           /\ c = "DATA_PAGE" => page.used % Alignment = 0
           /\ page.page \in 1..count'
           /\ o = 1 => 1 \in Index(c) /\ page = pages[c][1]
           /\ o = 0 => page.page = count + 1
           /\ \A d \in Categories : \A i \in Index(d) :
                pages[d][i].page = page.page => d = c /\ i = 1 /\ o = 1
  <1>1. count \in Nat /\ count' = count + 1 - o /\ Header \in Nat /\ PAGE_SIZE \in Nat
    BY ArenaAssumption DEF IInv, PagesInv, Reserved
  <1>2. page.page \in Nat /\ page.used \in Nat
    BY DEF Page
  <1>3. CASE o = 1
    <2>1. pages[c] # << >> /\ page = pages[c][1]
      BY <1>3 DEF Reserved, Chosen
    <2>2. 1 \in Index(c)
      <3>1. pages[c] \in Seq(Page) /\ Len(pages[c]) \in Nat
        BY ListFacts DEF IInv
      <3>2. Len(pages[c]) > 0
        BY <2>1, <3>1, EmptySeq
      <3> QED BY <3>1, <3>2 DEF Index
    <2>3. PageOK(count, c, page)
      BY <2>1, <2>2 DEF IInv, PagesInv
    <2>4. Apart
      BY DEF IInv, PagesInv
    <2>5. \A d \in Categories : \A i \in Index(d) :
                pages[d][i].page = page.page => d = c /\ i = 1
      BY <2>1, <2>2, <2>4 DEF Apart
    <2> QED BY <1>1, <1>2, <1>3, <2>1, <2>2, <2>3, <2>5 DEF PageOK
  <1>4. CASE o = 0
    <2>1. page.page = count + 1 /\ page.used = Header
      BY <1>4 DEF Reserved, Chosen
    <2>2. \A d \in Categories : \A i \in Index(d) : pages[d][i].page \in 1..count
      BY DEF IInv, PagesInv, PageOK
    <2>3. Header % Alignment = 0
      BY ArenaAssumption
    <2>4. \A d \in Categories : \A i \in Index(d) : pages[d][i].page # page.page
      BY <1>1, <2>1, <2>2
    <2>5. page.page \in 1..count'
      BY <1>1, <1>4, <2>1
    <2> QED BY <1>1, <1>2, <1>4, <2>1, <2>3, <2>4, <2>5
  <1> QED BY <1>3, <1>4

(* No page is lost, overfull or in two places.                             *)
LEMMA ReservedPages ==
    ASSUME IInv, NEW c \in Categories, NEW size \in Request(c),
           NEW page \in Page, NEW o \in {0, 1}, NEW rest \in Seq(Page), NEW k \in Nat,
           Reserved(c, size, page, o, rest, k)
    PROVE  PagesInv'
  <1> DEFINE fit == Fit(size, c)
  <1>1. count \in Nat /\ count' = count + 1 - o /\ count' \in Nat
    BY DEF IInv, PagesInv, Reserved
  <1>2. pages' \in [Categories -> Seq(Page)] /\ \A d \in Categories \ {c} : pages'[d] = pages[d]
    BY DEF Reserved
  <1>3. \A d \in Categories \ {c} : Index(d)' = Index(d)
    BY <1>2 DEF Index
  <1>4. /\ k \in Index(c)' /\ pages'[c][k] = Used(page, fit)
        /\ Len(pages'[c]) \in Nat /\ Len(pages'[c]) = Len(pages[c]) + 1 - o
        /\ InOrder(pages'[c])
    BY ReservedList
  <1>5. \A i \in Index(c)' \ {k} :
            /\ Before(i, k, o) \in Index(c) /\ Before(i, k, o) > o
            /\ pages'[c][i] = pages[c][Before(i, k, o)]
    BY ReservedList
  <1>6. \A j \in Index(c) : j > o => \E i \in Index(c)' \ {k} : pages'[c][i] = pages[c][j]
    BY ReservedList
  <1>7. /\ page.page \in Nat /\ page.used \in Nat /\ page.used >= Header
        /\ c = "DATA_PAGE" => page.used % Alignment = 0
        /\ page.page \in 1..count'
        /\ o = 1 => 1 \in Index(c) /\ page = pages[c][1]
        /\ o = 0 => page.page = count + 1
    BY ChosenFacts
  <1>8. \A d \in Categories : \A i \in Index(d) :
                pages[d][i].page = page.page => d = c /\ i = 1 /\ o = 1
    BY ChosenFacts
  <1>9. \A d \in Categories : \A i \in Index(d) : PageOK(count, d, pages[d][i])
    BY DEF IInv, PagesInv
  <1>10. Used(page, fit).page = page.page /\ Used(page, fit).used = page.used + fit
    BY DEF Used
  <1>11. size \in Nat \ {0} /\ fit \in Nat /\ fit >= size /\ page.used + fit <= PAGE_SIZE
    BY ArenaAssumption, FitFacts DEF Reserved
  <1>12. Header \in Nat /\ PAGE_SIZE \in Nat
    BY ArenaAssumption
  <1> HIDE DEF fit
  <1>13. PageOK(count', c, pages'[c][k])
    <2>1. page.used + fit \in (Header + 1)..PAGE_SIZE
      BY <1>7, <1>11, <1>12
    <2>2. ASSUME c = "DATA_PAGE" PROVE (page.used + fit) % Alignment = 0
      <3>1. fit % Alignment = 0
        BY <1>11, <2>2, FitFacts DEF fit
      <3>2. Alignment \in Nat /\ Alignment > 0
        BY ArenaAssumption
      <3>3. page.used % Alignment = 0 /\ page.used \in Nat
        BY <1>7, <2>2
      <3> QED BY <1>11, <3>1, <3>2, <3>3, SumAligned
    <2> QED BY <1>4, <1>7, <1>10, <2>1, <2>2 DEF PageOK
  <1>14. ASSUME NEW d \in Categories, NEW i \in Index(d)' PROVE PageOK(count', d, pages'[d][i])
    <2>1. ASSUME NEW q, PageOK(count, d, q) PROVE PageOK(count', d, q)
      BY <1>1, <2>1 DEF PageOK
    <2>2. CASE d # c
      BY <1>2, <1>3, <1>9, <2>1, <2>2
    <2>3. CASE d = c /\ i # k
      BY <1>5, <1>9, <2>1, <2>3
    <2> QED BY <1>13, <2>2, <2>3
  <1>15. ASSUME NEW d \in Categories PROVE InOrder(pages'[d])
    BY <1>2, <1>4 DEF IInv, PagesInv
  <1>16. ASSUME NEW d \in Categories, NEW e \in Categories, NEW i \in Index(d)', NEW j \in Index(e)',
                pages'[d][i].page = pages'[e][j].page
         PROVE  d = e /\ i = j
    <2>1. Apart
      BY DEF IInv, PagesInv
    <2>2. ASSUME NEW g \in Categories, NEW m \in Index(g)', pages'[g][m].page = page.page
          PROVE  g = c /\ m = k
      <3>1. CASE g # c
        BY <1>2, <1>3, <1>8, <2>2, <3>1
      <3>2. CASE g = c /\ m # k
        <4>1. Before(m, k, o) \in Index(c) /\ Before(m, k, o) > o
              /\ pages'[c][m] = pages[c][Before(m, k, o)]
          BY <1>5, <2>2, <3>2
        <4>2. Before(m, k, o) = 1 /\ o = 1
          BY <1>8, <2>2, <3>2, <4>1
        <4> QED BY <4>1, <4>2
      <3> QED BY <3>1, <3>2
    <2>3. CASE d = c /\ i = k
      BY <1>4, <1>10, <1>16, <2>2, <2>3
    <2>4. CASE e = c /\ j = k
      BY <1>4, <1>10, <1>16, <2>2, <2>4
    <2>5. CASE ~(d = c /\ i = k) /\ ~(e = c /\ j = k)
      <3>1. CASE d # c /\ e # c
        <4>1. /\ i \in Index(d) /\ pages'[d][i] = pages[d][i]
              /\ j \in Index(e) /\ pages'[e][j] = pages[e][j]
          BY <1>2, <1>3, <3>1
        <4> QED BY <1>16, <2>1, <4>1 DEF Apart
      <3>2. CASE d = c /\ e # c
        BY <1>2, <1>3, <1>5, <1>16, <2>1, <2>5, <3>2, SMTT(30) DEF Apart
      <3>3. CASE d # c /\ e = c
        BY <1>2, <1>3, <1>5, <1>16, <2>1, <2>5, <3>3, SMTT(30) DEF Apart
      <3>4. CASE d = c /\ e = c
        <4>1. Before(i, k, o) = Before(j, k, o)
          BY <1>5, <1>16, <2>1, <2>5, <3>4 DEF Apart
        <4>2. i \in Nat /\ j \in Nat /\ i # k /\ j # k
          BY <2>5, <3>4 DEF Index
        <4> QED BY <3>4, <4>1, <4>2 DEF Before
      <3> QED BY <3>1, <3>2, <3>3, <3>4
    <2> QED BY <2>3, <2>4, <2>5
  <1>17. ASSUME NEW n \in 1..count'
         PROVE  \E d \in Categories : \E i \in Index(d)' : pages'[d][i].page = n
    <2>1. CASE n = page.page
      BY <1>4, <1>10, <2>1
    <2>2. CASE n # page.page
      <3>1. n \in 1..count
        BY <1>1, <1>7, <2>2
      <3>2. PICK d \in Categories : \E i \in Index(d) : pages[d][i].page = n
        BY <3>1 DEF IInv, PagesInv, NoneLost
      <3> PICK i \in Index(d) : pages[d][i].page = n
        BY <3>2
      <3>3. CASE d # c
        BY <1>2, <1>3, <3>2, <3>3
      <3>4. CASE d = c
        <4>1. i > o
          BY <1>7, <2>2, <3>2, <3>4 DEF Index
        <4> QED BY <1>6, <3>2, <3>4, <4>1
      <3> QED BY <3>3, <3>4
    <2> QED BY <2>1, <2>2
  <1>18. (Len(pages["STRING_PAGE"]) + Len(pages["DATA_PAGE"]) = count)'
    <2>1. Len(pages["STRING_PAGE"]) + Len(pages["DATA_PAGE"]) = count
      BY DEF IInv, PagesInv
    <2>2. \A d \in Categories : Len(pages[d]) \in Nat
      BY ListFacts DEF IInv
    <2>3. CASE c = "STRING_PAGE"
      <3>1. pages'["DATA_PAGE"] = pages["DATA_PAGE"]
        BY <1>2, <2>3 DEF Categories
      <3>2. Len(pages["STRING_PAGE"]) \in Nat /\ Len(pages["DATA_PAGE"]) \in Nat
        BY <2>2 DEF Categories
      <3> DEFINE m == Len(pages["STRING_PAGE"])
                 other == Len(pages["DATA_PAGE"])
                 new == Len(pages'["STRING_PAGE"])
      <3>3. new = m + 1 - o
        BY <1>4, <2>3
      <3>4. m \in Nat /\ other \in Nat /\ m + other = count
        BY <2>1, <3>2
      <3> HIDE DEF m, other, new
      <3>5. new + other = count'
        BY <1>1, <3>3, <3>4
      <3> QED BY <3>1, <3>5 DEF other, new
    <2>4. CASE c = "DATA_PAGE"
      <3>1. pages'["STRING_PAGE"] = pages["STRING_PAGE"]
        BY <1>2, <2>4 DEF Categories
      <3>2. Len(pages["STRING_PAGE"]) \in Nat /\ Len(pages["DATA_PAGE"]) \in Nat
        BY <2>2 DEF Categories
      <3> DEFINE m == Len(pages["DATA_PAGE"])
                 other == Len(pages["STRING_PAGE"])
                 new == Len(pages'["DATA_PAGE"])
      <3>3. new = m + 1 - o
        BY <1>4, <2>4
      <3>4. m \in Nat /\ other \in Nat /\ other + m = count
        BY <2>1, <3>2
      <3> HIDE DEF m, other, new
      <3>5. other + new = count'
        BY <1>1, <3>3, <3>4
      <3> QED BY <3>1, <3>5 DEF other, new
    <2> QED BY <2>3, <2>4 DEF Categories
  <1>19. Apart' /\ NoneLost'
    BY <1>16, <1>17 DEF Apart, NoneLost
  <1> QED BY <1>1, <1>2, <1>14, <1>15, <1>18, <1>19 DEF PagesInv

(* Every block stays where it is, and the new one is behind the others of  *)
(* its page.                                                               *)
LEMMA ReservedHeld ==
    ASSUME IInv, NEW c \in Categories, NEW size \in Request(c),
           NEW page \in Page, NEW o \in {0, 1}, NEW rest \in Seq(Page), NEW k \in Nat,
           Reserved(c, size, page, o, rest, k)
    PROVE  HeldInv'
  <1> DEFINE fit == Fit(size, c)
             new == NewBlock(c, page, size)
  <1>1. held' = held \cup {new} /\ \A d \in Categories \ {c} : pages'[d] = pages[d]
    BY DEF Reserved
  <1>2. /\ k \in Index(c)' /\ pages'[c][k] = Used(page, fit)
    BY ReservedList
  <1>3. \A j \in Index(c) : j > o => \E i \in Index(c)' \ {k} : pages'[c][i] = pages[c][j]
    BY ReservedList
  <1>4. /\ page.page \in Nat /\ page.used \in Nat /\ page.used >= Header
        /\ c = "DATA_PAGE" => page.used % Alignment = 0
        /\ o = 1 => 1 \in Index(c) /\ page = pages[c][1]
    BY ChosenFacts
  <1>5. Used(page, fit).page = page.page /\ Used(page, fit).used = page.used + fit
    BY DEF Used
  <1>6. size \in Nat \ {0} /\ fit \in Nat /\ fit >= size /\ Header \in Nat
    BY ArenaAssumption, FitFacts
  <1>7. held \subseteq Block /\ (\A b \in held : b.first <= b.last) /\ BlocksFit
    BY DEF IInv, HeldInv
  <1>8. new.category = c /\ new.page = page.page /\ new.first = page.used /\ new.last = page.used + size - 1
    BY DEF NewBlock
  <1>9. new \in Block
    BY <1>4, <1>6 DEF NewBlock, Block
  <1> HIDE DEF fit, new
  <1>10. held' \subseteq Block /\ \A b \in held' : b.first <= b.last
    BY <1>1, <1>4, <1>6, <1>7, <1>8, <1>9
  <1>11. Used(page, fit) \in Listed(c)'
    BY <1>2 DEF Listed, Index
  <1>12. ASSUME NEW b \in held
         PROVE  \E q \in Listed(b.category)' : b.page = q.page /\ b.last < q.used
    <2>1. PICK i \in Index(b.category) :
                b.page = pages[b.category][i].page /\ b.last < pages[b.category][i].used
      BY <1>7 DEF BlocksFit, Listed, Index
    <2>2. b \in Block
      BY <1>7
    <2>3. b.category \in Categories /\ b.last \in Nat
      BY <2>2 DEF Block
    <2>4. CASE b.category # c
      BY <1>1, <2>1, <2>3, <2>4 DEF Listed, Index
    <2>5. CASE b.category = c /\ i > o
      <3>1. PICK j \in Index(c)' : pages'[c][j] = pages[c][i]
        BY <1>3, <2>1, <2>5
      <3>2. pages'[c][j] \in Listed(c)'
        BY <3>1 DEF Listed, Index
      <3> QED BY <2>1, <2>5, <3>1, <3>2
    <2>6. CASE b.category = c /\ ~(i > o)
      <3>1. o = 1 /\ i = 1 /\ page = pages[c][i]
        BY <1>4, <2>1, <2>6 DEF Index
      <3>2. b.page = page.page /\ b.last < page.used
        BY <2>1, <2>6, <3>1
      <3>3. b.last < page.used + fit
        BY <1>4, <1>6, <2>3, <3>2
      <3> QED BY <1>5, <1>11, <2>6, <3>2, <3>3
    <2> QED BY <2>3, <2>4, <2>5, <2>6
  <1>13. new.last < page.used + fit
    BY <1>4, <1>6, <1>8
  <1>14. ASSUME NEW b \in held'
         PROVE  /\ \E q \in Listed(b.category)' : b.page = q.page /\ b.last < q.used
                /\ b.first >= Header
                /\ b.category = "DATA_PAGE" => b.first % Alignment = 0
    <2>1. CASE b \in held
      BY <1>7, <1>12, <2>1 DEF BlocksFit
    <2>2. CASE b = new
      BY <1>4, <1>5, <1>8, <1>11, <1>13, <2>2
    <2> QED BY <1>1, <2>1, <2>2
  <1>15. BlocksFit'
    BY <1>14 DEF BlocksFit
  <1> QED BY <1>10, <1>15 DEF HeldInv

-----------------------------------------------------------------------------
(* The inductive invariant.                                                *)

Nothing == pages = [c \in Categories |-> << >>] /\ held = {} /\ count = 0

LEMMA EmptyPages == Nothing => PagesInv /\ HeldInv
  <1> SUFFICES ASSUME Nothing PROVE PagesInv /\ HeldInv
    OBVIOUS
  <1> USE DEF Nothing
  <1>1. \A c \in Categories : pages[c] = << >> /\ Len(pages[c]) = 0 /\ pages[c] \in Seq(Page)
    OBVIOUS
  <1>2. \A c \in Categories : Index(c) = {}
    BY <1>1 DEF Index
  <1>3. \A c \in Categories : InOrder(pages[c])
    BY <1>1 DEF InOrder
  <1>4. Len(pages["STRING_PAGE"]) + Len(pages["DATA_PAGE"]) = count
    BY <1>1 DEF Categories
  <1>5. pages \in [Categories -> Seq(Page)] /\ count \in Nat
    BY <1>1
  <1>6. Apart /\ \A c \in Categories : \A i \in Index(c) : PageOK(count, c, pages[c][i])
    BY <1>2 DEF Apart
  <1>7. NoneLost
    BY DEF NoneLost
  <1>8. HeldInv
    BY DEF HeldInv, BlocksFit
  <1> QED BY <1>3, <1>4, <1>5, <1>6, <1>7, <1>8 DEF PagesInv

LEMMA InitIInv == Init => IInv
  BY EmptyPages DEF Init, IInv, Nothing

LEMMA ReserveKeepsIInv ==
    ASSUME IInv, NEW c \in Categories, NEW size \in Request(c), Reserve(c, size)
    PROVE  IInv'
  <1>1. PICK page \in Page, o \in {0, 1}, rest \in Seq(Page), k \in Nat :
            Reserved(c, size, page, o, rest, k)
    BY ReserveFacts
  <1>2. PagesInv' /\ HeldInv'
    BY <1>1, ReservedPages, ReservedHeld
  <1>3. pc' \in {"RUN", "EXIT"}
    BY <1>1 DEF Reserved, IInv
  <1> QED BY <1>2, <1>3 DEF IInv

LEMMA ReleaseKeepsIInv == ASSUME IInv, ReleaseAllMem PROVE IInv'
  <1>1. Nothing'
    BY DEF ReleaseAllMem, Nothing
  <1>2. PagesInv' /\ HeldInv'
    BY <1>1, EmptyPages, PTL
  <1> QED BY <1>2 DEF IInv, ReleaseAllMem

LEMMA NextIInv == IInv /\ [Next]_vars => IInv'
  <1> SUFFICES ASSUME IInv, [Next]_vars PROVE IInv'
    OBVIOUS
  <1>1. ASSUME NEW size \in Request("DATA_PAGE"), ReserveData(size) PROVE IInv'
    BY <1>1, ReserveKeepsIInv DEF ReserveData, Categories
  <1>2. ASSUME NEW size \in Request("STRING_PAGE"), SaveStr(size) PROVE IInv'
    BY <1>2, ReserveKeepsIInv DEF SaveStr, Categories
  <1>3. CASE ReleaseAllMem
    BY <1>3, ReleaseKeepsIInv
  <1>4. CASE UNCHANGED vars
    <2>1. pages' = pages /\ held' = held /\ count' = count /\ pc' = pc
      BY <1>4 DEF vars
    <2>2. Apart' /\ NoneLost'
      BY <2>1 DEF IInv, PagesInv, Apart, NoneLost, Index
    <2>3. PagesInv'
      BY <2>1, <2>2 DEF IInv, PagesInv, Index
    <2>4. HeldInv'
      BY <2>1 DEF IInv, HeldInv, BlocksFit, Listed
    <2> QED BY <2>1, <2>3, <2>4 DEF IInv
  <1> QED BY <1>1, <1>2, <1>3, <1>4 DEF Next, Stopped

LEMMA AlwaysIInv == Spec => []IInv
  <1> QED BY InitIInv, NextIInv, PTL DEF Spec

-----------------------------------------------------------------------------
(* The theorems.                                                           *)

(* Each page has one place: the pages are counted, and one in no list or   *)
(* in two cannot be.                                                       *)
LEMMA OnePlace ==
    ASSUME PagesInv, NEW n \in 1..count
    PROVE  Cardinality({w \in Categories \X (1..count) :
                            w[2] <= Len(pages[w[1]]) /\ pages[w[1]][w[2]].page = n}) = 1
  <1> DEFINE S == {w \in Categories \X (1..count) :
                            w[2] <= Len(pages[w[1]]) /\ pages[w[1]][w[2]].page = n}
  <1>1. PICK c \in Categories : \E i \in Index(c) : pages[c][i].page = n
    BY DEF PagesInv, NoneLost
  <1>2. PICK i \in Index(c) : pages[c][i].page = n
    BY <1>1
  <1>3. \A d \in Categories : Len(pages[d]) \in Nat
    BY ListFacts
  <1>4. Len(pages["STRING_PAGE"]) + Len(pages["DATA_PAGE"]) = count /\ count \in Nat
    BY DEF PagesInv
  <1>5. \A d \in Categories : Len(pages[d]) <= count
    <2>1. Len(pages["STRING_PAGE"]) \in Nat /\ Len(pages["DATA_PAGE"]) \in Nat
      BY <1>3 DEF Categories
    <2> DEFINE m == Len(pages["STRING_PAGE"])
               other == Len(pages["DATA_PAGE"])
    <2>2. m <= count /\ other <= count
      <3>1. m \in Nat /\ other \in Nat /\ count \in Nat /\ m + other = count
        BY <1>4, <2>1
      <3> HIDE DEF m, other
      <3> QED BY <3>1
    <2> QED BY <2>2 DEF Categories
  <1>6. i \in 1..count /\ i <= Len(pages[c])
    BY <1>3, <1>4, <1>5 DEF Index
  <1>7. <<c, i>> \in S
    BY <1>2, <1>6
  <1>8. ASSUME NEW w \in S PROVE w = <<c, i>>
    <2>1. w[1] \in Categories /\ w[2] \in Index(w[1]) /\ pages[w[1]][w[2]].page = n
      BY <1>3 DEF Index
    <2>2. w[1] = c /\ w[2] = i
      BY <1>2, <2>1 DEF PagesInv, Apart
    <2> QED BY <2>2
  <1> HIDE DEF S
  <1>9. S = {<<c, i>>}
    BY <1>7, <1>8
  <1>10. Cardinality(S) = 1
    BY <1>9, FS_Singleton
  <1> QED BY <1>10 DEF S

LEMMA IInvTypeOK == IInv => TypeOK
  <1> SUFFICES ASSUME IInv PROVE TypeOK
    OBVIOUS
  <1>1. \A c \in Categories : \A q \in Listed(c) :
            q.page \in 1..count /\ q.used \in (Header + 1)..PAGE_SIZE
    BY DEF IInv, PagesInv, PageOK, Listed, Index
  <1>2. \A n \in 1..count :
            Cardinality({w \in Categories \X (1..count) :
                            w[2] <= Len(pages[w[1]]) /\ pages[w[1]][w[2]].page = n}) = 1
    BY OnePlace DEF IInv
  <1> QED BY <1>1, <1>2 DEF TypeOK, IInv

(* No page is lost, put in two lists or overfilled, for any size of page,  *)
(* any alignment and any requests that fit an empty page.                  *)
THEOREM PagesAccounted == Spec => []TypeOK
  <1> QED BY AlwaysIInv, IInvTypeOK, PTL

(* Every block stays inside what is used of a page of its category.        *)
THEOREM BlocksStay == Spec => []BlocksFit
  <1>1. IInv => BlocksFit
    BY DEF IInv, HeldInv
  <1> QED BY AlwaysIInv, <1>1, PTL

(* The assertions of Reserve never fail.                                   *)
THEOREM ReserveNeverStops == Spec => []NeverStops
  <1>1. IInv => NeverStops
    BY DEF IInv, NeverStops
  <1> QED BY AlwaysIInv, <1>1, PTL

(* A step of the arena: a block, the end or nothing.                       *)
LEMMA Steps ==
    ASSUME [Next]_vars
    PROVE  \/ \E c \in Categories : \E size \in Request(c) : Reserve(c, size)
           \/ ReleaseAllMem
           \/ UNCHANGED vars
  BY DEF Next, ReserveData, SaveStr, Stopped, Categories

(* Because the list is in the order of use, a page that has room is in     *)
(* front: no page is made while one of the category has room.              *)
FullIfNew ==
    \A b \in held' \ held : count' > count =>
        \A q \in Listed(b.category) : ~HasRoom(q, Fit(Size(b), b.category))

LEMMA ReserveIfFull ==
    ASSUME IInv, NEW c \in Categories, NEW size \in Request(c), Reserve(c, size)
    PROVE  FullIfNew
  <1>1. PICK page \in Page, o \in {0, 1}, rest \in Seq(Page), k \in Nat :
            Reserved(c, size, page, o, rest, k)
    BY ReserveFacts
  <1>2. /\ held' = held \cup {NewBlock(c, page, size)} /\ count' = count + 1 - o
        /\ o = 0 => pages[c] = << >> \/ ~HasRoom(pages[c][1], Fit(size, c))
    BY <1>1 DEF Reserved
  <1> SUFFICES ASSUME NEW b \in held' \ held, count' > count, NEW q \in Listed(b.category)
               PROVE  ~HasRoom(q, Fit(Size(b), b.category))
    BY DEF FullIfNew
  <1>3. b = NewBlock(c, page, size)
    BY <1>2
  <1>4. size \in Nat /\ Fit(size, c) \in Nat /\ PAGE_SIZE \in Nat /\ count \in Nat
    BY ArenaAssumption, FitFacts DEF IInv, PagesInv
  <1>5. b.category = c /\ Size(b) = size
    <2>1. page.used \in Nat
      BY DEF Page
    <2>2. b.category = c /\ b.first = page.used /\ b.last = page.used + size - 1
      BY <1>3 DEF NewBlock
    <2> QED BY <1>4, <2>1, <2>2 DEF Size
  <1>6. PICK i \in Index(c) : q = pages[c][i]
    BY <1>5 DEF Listed, Index
  <1>7. pages[c] \in Seq(Page) /\ Len(pages[c]) \in Nat /\ \A j \in Index(c) : pages[c][j] \in Page
    BY ListFacts DEF IInv
  <1>8. 1 \in Index(c) /\ i >= 1 /\ i \in Nat
    BY <1>7 DEF Index
  <1>9. pages[c] # << >>
    BY <1>7, <1>8, EmptySeq DEF Index
  <1>10. o = 0
    BY <1>2, <1>4
  <1>11. ~HasRoom(pages[c][1], Fit(size, c))
    BY <1>2, <1>9, <1>10
  <1>12. pages[c][1].used \in Nat /\ q.used \in Nat
    BY <1>6, <1>7, <1>8 DEF Page
  <1>13. pages[c][1].used <= q.used
    <2>1. CASE i = 1
      BY <1>6, <1>12, <2>1
    <2>2. CASE i > 1
      <3>1. InOrder(pages[c])
        BY DEF IInv, PagesInv
      <3> QED BY <1>6, <1>8, <2>2, <3>1 DEF InOrder, Index
    <2> QED BY <1>8, <2>1, <2>2
  <1>14. ~HasRoom(q, Fit(size, c))
    BY <1>4, <1>11, <1>12, <1>13 DEF HasRoom
  <1> QED BY <1>5, <1>14

(* NewPage is called only where every page of the category is too full. *)
THEOREM NoPageTooSoon == Spec => NewPageIfFull
  <1>1. IInv /\ [Next]_vars => [FullIfNew]_vars
    <2> SUFFICES ASSUME IInv, [Next]_vars PROVE [FullIfNew]_vars
      OBVIOUS
    <2>1. CASE ReleaseAllMem
      BY <2>1 DEF ReleaseAllMem, FullIfNew
    <2> QED BY <2>1, Steps, ReserveIfFull
  <1>2. Spec => [][FullIfNew]_vars
    BY <1>1, AlwaysIInv, PTL DEF Spec
  <1> QED BY <1>2 DEF NewPageIfFull, FullIfNew

-----------------------------------------------------------------------------
(* The arena implements Heap.                                              *)

LEMMA ReserveGives ==
    ASSUME IInv, NEW c \in Categories, NEW size \in Request(c), Reserve(c, size)
    PROVE  Memory!Give(size)
  <1>1. PICK page \in Page, o \in {0, 1}, rest \in Seq(Page), k \in Nat :
            Reserved(c, size, page, o, rest, k)
    BY ReserveFacts
  <1> DEFINE new == NewBlock(c, page, size)
  <1>2. held' = held \cup {new}
    BY <1>1 DEF Reserved
  <1>3. /\ page.used \in Nat
        /\ o = 1 => page = pages[c][1]
        /\ \A d \in Categories : \A i \in Index(d) :
                pages[d][i].page = page.page => d = c /\ i = 1 /\ o = 1
    BY <1>1, ChosenFacts
  <1>4. size \in Nat
    BY ArenaAssumption
  <1>5. new.page = page.page /\ new.first = page.used /\ new.last = page.used + size - 1
    BY DEF NewBlock
  <1>6. new.last - new.first + 1 = size
    <2>1. page.used \in Nat
      BY <1>3
    <2> HIDE DEF new
    <2> QED BY <1>4, <1>5, <2>1
  <1>7. ASSUME NEW b \in held PROVE Memory!Disjoint(b, new)
    <2>1. PICK i \in Index(b.category) :
                b.page = pages[b.category][i].page /\ b.last < pages[b.category][i].used
      BY DEF IInv, HeldInv, BlocksFit, Listed, Index
    <2>2. b.category \in Categories
      BY DEF IInv, HeldInv, Block
    <2>3. CASE b.page = page.page
      <3>1. pages[b.category][i] = page
        BY <1>3, <2>1, <2>2, <2>3
      <3>2. b.last < new.first
        BY <1>5, <2>1, <3>1
      <3> QED BY <3>2 DEF Memory!Disjoint
    <2>4. CASE b.page # page.page
      BY <1>5, <2>4 DEF Memory!Disjoint
    <2> QED BY <2>3, <2>4
  <1>8. new \in held'
    BY <1>2
  <1> HIDE DEF new
  <1> QED BY <1>2, <1>6, <1>7, <1>8 DEF Memory!Give

LEMMA HeapStep ==
    ASSUME IInv, [Next]_vars
    PROVE  [\/ Memory!ReleaseAll
            \/ \E size \in UNION {Request(c) : c \in Categories} : Memory!Give(size)]_held
  <1>1. CASE ReleaseAllMem
    BY <1>1 DEF ReleaseAllMem, Memory!ReleaseAll
  <1>2. ASSUME NEW c \in Categories, NEW size \in Request(c), Reserve(c, size)
        PROVE  \E s \in UNION {Request(d) : d \in Categories} : Memory!Give(s)
    <2>1. Memory!Give(size)
      BY <1>2, ReserveGives
    <2>2. size \in UNION {Request(d) : d \in Categories}
      OBVIOUS
    <2> QED BY <2>1, <2>2
  <1>3. CASE UNCHANGED vars
    BY <1>3 DEF vars
  <1> QED BY <1>1, <1>2, <1>3, Steps

(* The arena implements Heap: no one is given memory that another holds.   *)
THEOREM ArenaRefinesHeap == Spec => ImplementsHeap
  <1>1. Init => Memory!HeapInit
    BY DEF Init, Memory!HeapInit
  <1>2. IInv /\ [Next]_vars
            => [\/ Memory!ReleaseAll
                \/ \E size \in UNION {Request(c) : c \in Categories} : Memory!Give(size)]_held
    BY HeapStep
  <1>3. Spec => Init /\ [][Next]_vars
    BY PTL DEF Spec
  <1> QED BY <1>1, <1>2, <1>3, AlwaysIInv, PTL DEF ImplementsHeap, Memory!HeapSpec
=============================================================================
