------------------------------ MODULE ReaderProofs ------------------------------
(***************************************************************************)
(* Proofs about the readers of a listing that changes while it is read: two*)
(* scans that agree, and the newest CI run with the jobs of its attempt.   *)
(* For every size and number of pages, every number of items, runs and     *)
(* jobs, and whatever is added, edited, run again or removed meanwhile.    *)
(***************************************************************************)
EXTENDS StableScan, CiInspection, SequenceTheorems, FiniteSetTheorems,
        WellFoundedInduction, TLAPS

-----------------------------------------------------------------------------
(* Pages.                                                                   *)

(* How many items are on the pages before this one.                         *)
Before(page) == (page - 1) * PerPage

(* One page more, PerPage items more.                                       *)
LEMMA PagesAdd ==
  /\ Before(1) = 0
  /\ \A page \in Nat \ {0} :
       /\ Before(page) \in Nat
       /\ Before(page + 1) = Before(page) + PerPage
       /\ page * PerPage = Before(page) + PerPage
<1>1. PerPage \in Nat
  BY PagingAssumption
<1>2. Before(1) = 0
  BY <1>1 DEF Before
<1>3. ASSUME NEW page \in Nat \ {0}
      PROVE  /\ Before(page) \in Nat
             /\ Before(page + 1) = Before(page) + PerPage
             /\ page * PerPage = Before(page) + PerPage
  <2>1. PICK n \in Nat : page = n + 1
    BY <1>3
  <2>2. n * PerPage \in Nat /\ (n + 1) * PerPage = n * PerPage + PerPage
    BY <1>1
  <2>3. page - 1 = n /\ (page + 1) - 1 = n + 1
    BY <2>1
  <2> QED BY <2>1, <2>2, <2>3 DEF Before
<1> QED BY <1>2, <1>3

(* What is on a page: as many of the items that come after the pages before *)
(* it as there are, at most PerPage.                                        *)
LEMMA PageIs ==
  ASSUME NEW S, NEW list \in Seq(S), NEW page \in Nat \ {0}
  PROVE  /\ PageOf(list, page) \in Seq(S)
         /\ Len(PageOf(list, page)) =
              IF Len(list) <= Before(page) THEN 0
              ELSE IF Before(page) + PerPage < Len(list) THEN PerPage
              ELSE Len(list) - Before(page)
         /\ \A k \in 1..Len(PageOf(list, page)) :
              /\ Before(page) + k \in 1..Len(list)
              /\ PageOf(list, page)[k] = list[Before(page) + k]
<1>1. /\ Before(page) \in Nat /\ PerPage \in Nat \ {0} /\ Len(list) \in Nat
      /\ page * PerPage = Before(page) + PerPage
  BY PagesAdd, PagingAssumption, LenProperties
<1> DEFINE first == Before(page) + 1
           last == IF Before(page) + PerPage < Len(list)
                   THEN Before(page) + PerPage ELSE Len(list)
<1>2. PageOf(list, page) = SubSeq(list, first, last)
  BY <1>1 DEF PageOf, Before
<1>3. first \in Int /\ last \in Int /\ last <= Len(list) /\ first >= 1
  BY <1>1
<1>4. \A i \in first..last : i \in 1..Len(list) /\ list[i] \in S
  BY <1>1, <1>3, ElementOfSeq
<1>5. /\ SubSeq(list, first, last) \in Seq(S)
      /\ Len(SubSeq(list, first, last)) = IF first <= last THEN last - first + 1 ELSE 0
      /\ \A i \in 1..(last - first + 1) : SubSeq(list, first, last)[i] = list[first + i - 1]
  BY <1>3, <1>4, SubSeqProperties
<1>6. Len(PageOf(list, page)) =
        IF Len(list) <= Before(page) THEN 0
        ELSE IF Before(page) + PerPage < Len(list) THEN PerPage
        ELSE Len(list) - Before(page)
  BY <1>1, <1>2, <1>5
<1>7. ASSUME NEW k \in 1..Len(PageOf(list, page))
      PROVE  /\ Before(page) + k \in 1..Len(list)
             /\ PageOf(list, page)[k] = list[Before(page) + k]
  <2>1. k \in 1..(last - first + 1) /\ first + k - 1 = Before(page) + k
    BY <1>1, <1>2, <1>5, <1>7
  <2> QED BY <1>1, <1>2, <1>5, <2>1
<1> QED BY <1>2, <1>5, <1>6, <1>7

(* All but one of the items of a list, in their order.                      *)
LEMMA RemovedIs ==
  ASSUME NEW S, NEW list \in Seq(S), NEW n \in DOMAIN list
  PROVE  /\ RemoveAt(list, n) \in Seq(S)
         /\ Len(RemoveAt(list, n)) = Len(list) - 1
         /\ \A k \in 1..(Len(list) - 1) :
              RemoveAt(list, n)[k] = IF k < n THEN list[k] ELSE list[k + 1]
<1> DEFINE front == SubSeq(list, 1, n - 1)
           back == SubSeq(list, n + 1, Len(list))
<1>1. Len(list) \in Nat /\ DOMAIN list = 1..Len(list) /\ n \in 1..Len(list)
  BY LenProperties
<1>2. \A i \in 1..Len(list) : list[i] \in S
  BY ElementOfSeq
<1>3. /\ front \in Seq(S) /\ Len(front) = n - 1
      /\ \A i \in 1..(n - 1) : front[i] = list[i]
  <2>1. 1 \in Int /\ n - 1 \in Int /\ \A i \in 1..(n - 1) : list[i] \in S
    BY <1>1, <1>2
  <2>2. /\ front \in Seq(S)
        /\ Len(front) = IF 1 <= n - 1 THEN (n - 1) - 1 + 1 ELSE 0
        /\ \A i \in 1..((n - 1) - 1 + 1) : front[i] = list[1 + i - 1]
    BY <2>1, SubSeqProperties
  <2> QED BY <1>1, <2>2
<1>4. /\ back \in Seq(S) /\ Len(back) = Len(list) - n
      /\ \A i \in 1..(Len(list) - n) : back[i] = list[n + i]
  <2>1. n + 1 \in Int /\ Len(list) \in Int /\ \A i \in (n + 1)..Len(list) : list[i] \in S
    BY <1>1, <1>2
  <2>2. /\ back \in Seq(S)
        /\ Len(back) = IF n + 1 <= Len(list) THEN Len(list) - (n + 1) + 1 ELSE 0
        /\ \A i \in 1..(Len(list) - (n + 1) + 1) : back[i] = list[(n + 1) + i - 1]
    BY <2>1, SubSeqProperties
  <2> QED BY <1>1, <2>2
<1> HIDE DEF front, back
<1>5. /\ front \o back \in Seq(S)
      /\ Len(front \o back) = Len(front) + Len(back)
      /\ \A i \in 1..(Len(front) + Len(back)) :
           (front \o back)[i] = IF i <= Len(front) THEN front[i] ELSE back[i - Len(front)]
  <2>1. front \in Seq(S) /\ back \in Seq(S)
    BY <1>3, <1>4
  <2> QED BY <2>1, ConcatProperties
<1>6. RemoveAt(list, n) = front \o back
  BY DEF RemoveAt, front, back
<1>7. ASSUME NEW k \in 1..(Len(list) - 1)
      PROVE  (front \o back)[k] = IF k < n THEN list[k] ELSE list[k + 1]
  <2>1. CASE k < n
    BY <1>1, <1>3, <1>4, <1>5, <2>1
  <2>2. CASE ~(k < n)
    <3>1. /\ k - (n - 1) \in 1..(Len(list) - n) /\ n + (k - (n - 1)) = k + 1
          /\ ~(k <= n - 1) /\ k \in 1..(Len(front) + Len(back))
      BY <1>1, <1>3, <1>4, <2>2
    <3> QED BY <1>3, <1>4, <1>5, <2>2, <3>1
  <2> QED BY <2>1, <2>2
<1>8. Len(front \o back) = Len(list) - 1
  BY <1>1, <1>3, <1>4, <1>5
<1> QED BY <1>5, <1>6, <1>7, <1>8

(* The elements of a list are of its kind.                                  *)
LEMMA SetOfList ==
  ASSUME NEW S, NEW list \in Seq(S)
  PROVE  ToSet(list) \subseteq S
BY LenProperties, ElementOfSeq DEF ToSet

(* The elements of two lists.                                               *)
LEMMA ConcatSet ==
  ASSUME NEW S, NEW s \in Seq(S), NEW t \in Seq(S)
  PROVE  ToSet(s \o t) = ToSet(s) \cup ToSet(t)
<1>1. /\ Len(s) \in Nat /\ Len(t) \in Nat
      /\ DOMAIN s = 1..Len(s) /\ DOMAIN t = 1..Len(t)
  BY LenProperties
<1>2. /\ s \o t \in Seq(S) /\ Len(s \o t) = Len(s) + Len(t)
      /\ \A i \in 1..(Len(s) + Len(t)) :
           (s \o t)[i] = IF i <= Len(s) THEN s[i] ELSE t[i - Len(s)]
  BY ConcatProperties
<1>3. DOMAIN (s \o t) = 1..(Len(s) + Len(t))
  BY <1>2, LenProperties
<1>4. ASSUME NEW i \in DOMAIN (s \o t)
      PROVE  (s \o t)[i] \in ToSet(s) \cup ToSet(t)
  <2>1. CASE i <= Len(s)
    BY <1>1, <1>2, <1>3, <2>1 DEF ToSet
  <2>2. CASE ~(i <= Len(s))
    <3>1. i - Len(s) \in DOMAIN t
      BY <1>1, <1>3, <2>2
    <3> QED BY <1>2, <1>3, <2>2, <3>1 DEF ToSet
  <2> QED BY <2>1, <2>2
<1>5. ASSUME NEW i \in DOMAIN s
      PROVE  s[i] \in ToSet(s \o t)
  <2>1. i \in DOMAIN (s \o t) /\ (s \o t)[i] = s[i]
    BY <1>1, <1>2, <1>3
  <2> QED BY <2>1 DEF ToSet
<1>6. ASSUME NEW i \in DOMAIN t
      PROVE  t[i] \in ToSet(s \o t)
  <2>1. Len(s) + i \in DOMAIN (s \o t) /\ (s \o t)[Len(s) + i] = t[i]
    BY <1>1, <1>2, <1>3
  <2> QED BY <2>1 DEF ToSet
<1> QED BY <1>4, <1>5, <1>6 DEF ToSet

(* The items of a page are items of the listing.                            *)
LEMMA PageSet ==
  ASSUME NEW S, NEW list \in Seq(S), NEW page \in Nat \ {0}
  PROVE  ToSet(PageOf(list, page)) \subseteq ToSet(list)
<1>1. PageOf(list, page) \in Seq(S)
  BY PageIs
<1>2. /\ DOMAIN PageOf(list, page) = 1..Len(PageOf(list, page))
      /\ DOMAIN list = 1..Len(list)
  BY <1>1, LenProperties
<1>3. ASSUME NEW k \in DOMAIN PageOf(list, page)
      PROVE  PageOf(list, page)[k] \in ToSet(list)
  <2>1. Before(page) + k \in DOMAIN list /\ PageOf(list, page)[k] = list[Before(page) + k]
    BY <1>2, PageIs
  <2> QED BY <2>1 DEF ToSet
<1> QED BY <1>3 DEF ToSet

-----------------------------------------------------------------------------
(* Two scans.                                                               *)

Item == [id : Nat, content : Contents, edited : BOOLEAN]

(* What becomes of an item that stays in the listing.                       *)
Became(a, b) ==
  /\ b.id = a.id
  /\ \/ b = a
     \/ ~a.edited /\ b.edited /\ b.content # a.content

(* No item is listed twice, and a new one has a number of its own.          *)
ListingInv ==
  /\ items \in Seq(Item) /\ added \in Nat
  /\ \A i \in ToSet(items) : i.id <= added
  /\ \A m, n \in DOMAIN items : items[m].id = items[n].id => m = n

ReaderInv ==
  /\ scan \in {"first", "second", "answered"} /\ scanPage \in Nat \ {0}
  /\ seen \in Seq(Item) /\ NoDuplicates(seen)
  /\ \A s \in ToSet(seen) : s.id <= added

(* The first scan has read full pages, of items that may change after.      *)
FirstInv ==
  scan = "first" =>
    /\ Len(seen) = Before(scanPage)
    /\ \A s \in ToSet(seen), i \in ToSet(items) : s.id = i.id => Became(s, i)

(* The first scan has read no fewer items than there were when it ended; of *)
(* those it read, the ones still there were there then too, perhaps already *)
(* changed; and what the second scan has found the same was so then.        *)
SecondInv ==
  scan = "second" =>
    /\ midway \in Seq(Item) /\ Len(midway) <= Len(seen)
    /\ \A s \in ToSet(seen), i \in ToSet(items) :
         s.id = i.id => \E k \in ToSet(midway) : Became(s, k) /\ Became(k, i)
    /\ \A n \in DOMAIN seen : n <= Before(scanPage) => seen[n] \in ToSet(midway)

ScanInv == ListingInv /\ ReaderInv /\ FirstInv /\ SecondInv /\ AnswerWasTrue

(* Nothing has been read.                                                   *)
LEMMA NothingRead ==
  /\ << >> \in Seq(Item) /\ Len(<< >>) = 0 /\ DOMAIN << >> = {} /\ ToSet(<< >>) = {}
  /\ NoDuplicates(<< >>)
<1>1. << >> \in Seq(Item) /\ Len(<< >>) = 0 /\ DOMAIN << >> = {} /\ ToSet(<< >>) = {}
  BY EmptySeq DEF ToSet
<1>2. {<< >>[n].id : n \in DOMAIN << >>} = {}
  BY <1>1
<1> QED BY <1>1, <1>2, FS_EmptySet DEF NoDuplicates

(* Nothing is listed, nothing read.                                         *)
LEMMA ScanStarts == ScanInit => ScanInv
<1> SUFFICES ASSUME ScanInit PROVE ScanInv
  OBVIOUS
<1>1. items = << >> /\ added = 0 /\ scan = "first" /\ scanPage = 1 /\ seen = << >>
  BY DEF ScanInit
<1> QED
  BY <1>1, NothingRead, PagesAdd
     DEF ScanInv, ListingInv, ReaderInv, FirstInv, SecondInv, AnswerWasTrue

(* An item that changes twice has changed at most once.                     *)
LEMMA BecameOn ==
  ASSUME NEW a, NEW b, NEW c, Became(a, b), Became(b, c)
  PROVE  Became(a, c)
BY DEF Became

(* The listing changes under the reader: every item it lists now is newer   *)
(* than all read before, or one it listed before, perhaps changed.          *)
LEMMA ListingStep ==
  ASSUME ScanInv, ListingInv', UNCHANGED readerVars, added <= added',
         \A i \in ToSet(items') : i.id > added \/ \E j \in ToSet(items) : Became(j, i)
  PROVE  ScanInv'
<1>1. /\ query' = query /\ scan' = scan /\ scanPage' = scanPage /\ seen' = seen
      /\ answer' = answer /\ midway' = midway
  BY DEF readerVars
<1>2. \A s \in ToSet(seen) : s.id \in Nat /\ s.id <= added
  <2>1. ToSet(seen) \subseteq Item
    BY SetOfList DEF ScanInv, ReaderInv
  <2> QED BY <2>1 DEF ScanInv, ReaderInv, Item
<1>3. added \in Nat /\ added' \in Nat
  BY DEF ScanInv, ListingInv
<1>4. ReaderInv'
  <2>1. \A s \in ToSet(seen) : s.id <= added'
    BY <1>2, <1>3
  <2> QED BY <1>1, <2>1 DEF ScanInv, ReaderInv, NoDuplicates
<1>5. \A i \in ToSet(items') : i.id \in Nat
  <2>1. ToSet(items') \subseteq Item
    BY SetOfList DEF ListingInv
  <2> QED BY <2>1 DEF Item
<1>6. \A s \in ToSet(seen), i \in ToSet(items') :
        s.id = i.id => \E j \in ToSet(items) : s.id = j.id /\ Became(j, i)
  BY <1>2, <1>3, <1>5 DEF Became
<1>7. FirstInv'
  BY <1>1, <1>6, BecameOn DEF ScanInv, FirstInv
<1>8. SecondInv'
  <2> SUFFICES ASSUME scan = "second" PROVE SecondInv'
    BY <1>1 DEF SecondInv
  <2>1. ASSUME NEW s \in ToSet(seen), NEW i \in ToSet(items'), s.id = i.id
        PROVE  \E k \in ToSet(midway) : Became(s, k) /\ Became(k, i)
    <3>1. PICK j \in ToSet(items) : s.id = j.id /\ Became(j, i)
      BY <1>6, <2>1
    <3>2. PICK k \in ToSet(midway) : Became(s, k) /\ Became(k, j)
      BY <3>1 DEF ScanInv, SecondInv
    <3> QED BY <3>1, <3>2, BecameOn
  <2> QED BY <1>1, <2>1 DEF ScanInv, SecondInv
<1>9. AnswerWasTrue'
  <2>1. Author' = Author /\ Kinds' = Kinds
    BY <1>1 DEF Author, Kinds
  <2>2. \A kind : Matches(midway, kind)' = Matches(midway, kind)
    BY <1>1, <2>1 DEF Matches, Trusted
  <2> QED BY <1>1, <2>1, <2>2 DEF ScanInv, AnswerWasTrue
<1> QED BY <1>4, <1>7, <1>8, <1>9 DEF ScanInv

(* An item is added at one end of the listing.                              *)
LEMMA AddItemStep ==
  ASSUME ScanInv, NEW content \in Contents, AddItem(content)
  PROVE  ScanInv'
<1> DEFINE item == [id |-> added + 1, content |-> content, edited |-> FALSE]
<1>1. /\ items' = IF query = "run" THEN <<item>> \o items ELSE Append(items, item)
      /\ added' = added + 1 /\ UNCHANGED readerVars
  BY DEF AddItem
<1>2. /\ items \in Seq(Item) /\ added \in Nat /\ \A i \in ToSet(items) : i.id <= added
      /\ \A m, n \in DOMAIN items : items[m].id = items[n].id => m = n
  BY DEF ScanInv, ListingInv
<1>3. item \in Item /\ item.id = added + 1
  BY <1>2 DEF Item
<1> HIDE DEF item
<1> DEFINE one == <<item>>
<1>4. one \in Seq(Item) /\ Len(one) = 1 /\ one[1] = item /\ ToSet(one) = {item}
  BY <1>3 DEF ToSet
<1> HIDE DEF one
<1>5. Len(items) \in Nat /\ DOMAIN items = 1..Len(items)
  BY <1>2, LenProperties
<1>6. \A n \in DOMAIN items : items[n].id \in Nat /\ items[n].id # item.id
  <2>1. ToSet(items) \subseteq Item /\ \A n \in DOMAIN items : items[n] \in ToSet(items)
    BY <1>2, SetOfList DEF ToSet
  <2>2. \A n \in DOMAIN items : items[n].id \in Nat /\ items[n].id <= added
    BY <1>2, <2>1 DEF Item
  <2> QED BY <1>2, <1>3, <2>2
<1>9. \A i \in ToSet(items) : i.id \in Nat
  BY <1>6 DEF ToSet
<1>7. CASE query = "run"
  <2>1. items' = one \o items
    BY <1>1, <1>7 DEF one
  <2>2. /\ items' \in Seq(Item) /\ Len(items') = 1 + Len(items)
        /\ \A i \in 1..(1 + Len(items)) :
             items'[i] = IF i <= 1 THEN one[i] ELSE items[i - 1]
    <3>1. /\ one \o items \in Seq(Item) /\ Len(one \o items) = Len(one) + Len(items)
          /\ \A i \in 1..(Len(one) + Len(items)) :
               (one \o items)[i] = IF i <= Len(one) THEN one[i] ELSE items[i - Len(one)]
      <4>1. one \in Seq(Item) /\ items \in Seq(Item)
        BY <1>2, <1>4
      <4> QED BY <4>1, ConcatProperties
    <3> QED BY <1>4, <2>1, <3>1
  <2>3. ToSet(items') = {item} \cup ToSet(items)
    <3>1. ToSet(one \o items) = ToSet(one) \cup ToSet(items)
      BY <1>2, <1>4, ConcatSet
    <3> QED BY <1>4, <2>1, <3>1
  <2>4. DOMAIN items' = 1..(1 + Len(items))
    BY <2>2, LenProperties
  <2>5. items'[1] = item /\ \A i \in DOMAIN items' \ {1} : i - 1 \in DOMAIN items /\ items'[i] = items[i - 1]
    BY <1>4, <1>5, <2>2, <2>4
  <2>6. \A m, n \in DOMAIN items' : items'[m].id = items'[n].id => m = n
    BY <1>2, <1>5, <1>6, <2>4, <2>5
  <2>7. \A i \in ToSet(items') : i.id <= added'
    BY <1>1, <1>2, <1>3, <1>9, <2>3
  <2>8. ListingInv'
    <3>1. added' \in Nat
      BY <1>1, <1>2
    <3> QED BY <2>2, <2>6, <2>7, <3>1 DEF ListingInv
  <2>9. \A i \in ToSet(items') : i.id > added \/ \E j \in ToSet(items) : Became(j, i)
    BY <1>2, <1>3, <2>3 DEF Became
  <2> QED BY <1>1, <1>2, <2>8, <2>9, ListingStep
<1>8. CASE query # "run"
  <2>1. items' = Append(items, item)
    BY <1>1, <1>8
  <2>2. /\ items' \in Seq(Item) /\ Len(items') = Len(items) + 1
        /\ \A i \in 1..Len(items) : items'[i] = items[i]
        /\ items'[Len(items) + 1] = item
    BY <1>2, <1>3, <2>1, AppendProperties
  <2>3. DOMAIN items' = 1..(Len(items) + 1)
    BY <2>2, LenProperties
  <2>4. ToSet(items') = {item} \cup ToSet(items)
    <3>1. items' = items \o one
      BY <1>2, <1>3, <2>1, AppendIsConcat DEF one
    <3>2. ToSet(items \o one) = ToSet(items) \cup ToSet(one)
      BY <1>2, <1>4, ConcatSet
    <3> QED BY <1>4, <3>1, <3>2
  <2>6. \A m, n \in DOMAIN items' : items'[m].id = items'[n].id => m = n
    BY <1>2, <1>5, <1>6, <2>2, <2>3
  <2>7. \A i \in ToSet(items') : i.id <= added'
    BY <1>1, <1>2, <1>3, <1>9, <2>4
  <2>8. ListingInv'
    <3>1. added' \in Nat
      BY <1>1, <1>2
    <3> QED BY <2>2, <2>6, <2>7, <3>1 DEF ListingInv
  <2>9. \A i \in ToSet(items') : i.id > added \/ \E j \in ToSet(items) : Became(j, i)
    BY <1>2, <1>3, <2>4 DEF Became
  <2> QED BY <1>1, <1>2, <2>8, <2>9, ListingStep
<1> QED BY <1>7, <1>8

(* An item is removed.                                                      *)
LEMMA RemoveItemStep ==
  ASSUME ScanInv, NEW n \in DOMAIN items, RemoveItem(n)
  PROVE  ScanInv'
<1>1. items' = RemoveAt(items, n) /\ added' = added /\ UNCHANGED readerVars
  BY DEF RemoveItem
<1>2. /\ items \in Seq(Item) /\ added \in Nat /\ \A i \in ToSet(items) : i.id <= added
      /\ \A k, m \in DOMAIN items : items[k].id = items[m].id => k = m
  BY DEF ScanInv, ListingInv
<1>3. /\ items' \in Seq(Item) /\ Len(items') = Len(items) - 1
      /\ \A k \in 1..(Len(items) - 1) :
           items'[k] = IF k < n THEN items[k] ELSE items[k + 1]
  BY <1>1, <1>2, RemovedIs
<1>4. /\ Len(items) \in Nat /\ DOMAIN items = 1..Len(items)
      /\ DOMAIN items' = 1..(Len(items) - 1)
  BY <1>2, <1>3, LenProperties
<1>5. \A k \in DOMAIN items' :
        IF k < n THEN k \in DOMAIN items /\ items'[k] = items[k]
        ELSE k + 1 \in DOMAIN items /\ items'[k] = items[k + 1]
  BY <1>3, <1>4
<1>6. ToSet(items') \subseteq ToSet(items)
  BY <1>5 DEF ToSet
<1>7. \A k, m \in DOMAIN items' : items'[k].id = items'[m].id => k = m
  BY <1>2, <1>4, <1>5
<1>8. ListingInv'
  BY <1>1, <1>2, <1>3, <1>6, <1>7 DEF ListingInv
<1> QED BY <1>1, <1>2, <1>6, <1>8, ListingStep DEF Became

(* An item is edited.                                                       *)
LEMMA EditItemStep ==
  ASSUME ScanInv, NEW content \in Contents, NEW n \in DOMAIN items, EditItem(n, content)
  PROVE  ScanInv'
<1>1. /\ ~items[n].edited /\ content # items[n].content
      /\ items' = [items EXCEPT ![n].content = content, ![n].edited = TRUE]
      /\ added' = added /\ UNCHANGED readerVars
  BY DEF EditItem
<1>2. /\ items \in Seq(Item) /\ added \in Nat /\ \A i \in ToSet(items) : i.id <= added
      /\ \A k, m \in DOMAIN items : items[k].id = items[m].id => k = m
  BY DEF ScanInv, ListingInv
<1>3. Len(items) \in Nat /\ DOMAIN items = 1..Len(items)
  BY <1>2, LenProperties
<1>4. items[n] \in Item
  BY <1>2, <1>3, ElementOfSeq
<1>5. PICK new : new = [[items[n] EXCEPT !.content = content] EXCEPT !.edited = TRUE]
  OBVIOUS
<1>6. /\ new \in Item /\ new.id = items[n].id /\ new.content = content /\ new.edited = TRUE
  BY <1>4, <1>5 DEF Item
<1>7. items' = [items EXCEPT ![n] = new]
  BY <1>1, <1>3, <1>5
<1>8. /\ items' \in Seq(Item) /\ Len(items') = Len(items)
      /\ \A k \in 1..Len(items) : items'[k] = IF k = n THEN new ELSE items[k]
  BY <1>2, <1>3, <1>6, <1>7, ExceptSeq
<1>9. DOMAIN items' = DOMAIN items
  BY <1>3, <1>8, LenProperties
<1>10. \A k \in DOMAIN items' : items'[k].id = items[k].id /\ Became(items[k], items'[k])
  BY <1>1, <1>3, <1>6, <1>8, <1>9 DEF Became
<1>11. \A i \in ToSet(items') : \E j \in ToSet(items) : Became(j, i)
  BY <1>9, <1>10 DEF ToSet
<1>12. ListingInv'
  <2>1. \A k, m \in DOMAIN items' : items'[k].id = items'[m].id => k = m
    BY <1>2, <1>9, <1>10
  <2>2. \A i \in ToSet(items') : i.id <= added
    BY <1>2, <1>11 DEF Became
  <2> QED BY <1>1, <1>2, <1>8, <2>1, <2>2 DEF ListingInv
<1>13. added <= added'
  BY <1>1, <1>2
<1> QED BY <1>1, <1>11, <1>12, <1>13, ListingStep

(* The page the first scan reads is added to what it has read.              *)
LEMMA FirstScanReads ==
  ASSUME ScanInv, scan = "first", Consistent, ListingInv', UNCHANGED <<items, added>>,
         seen' = seen \o Slice(items)
  PROVE  /\ seen' \in Seq(Item) /\ NoDuplicates(seen)'
         /\ Len(seen') = Before(scanPage) + Len(Slice(items))
         /\ \A s \in ToSet(seen') : s.id <= added'
         /\ \A s \in ToSet(seen'), i \in ToSet(items') : s.id = i.id => Became(s, i)
<1>1. /\ items \in Seq(Item) /\ seen \in Seq(Item) /\ scanPage \in Nat \ {0}
      /\ Len(seen) = Before(scanPage)
      /\ \A m, n \in DOMAIN items : items[m].id = items[n].id => m = n
      /\ \A i \in ToSet(items) : i.id <= added
  BY DEF ScanInv, ListingInv, ReaderInv, FirstInv
<1>2. Slice(items) \in Seq(Item) /\ ToSet(Slice(items)) \subseteq ToSet(items)
  BY <1>1, PageIs, PageSet DEF Slice
<1>3. /\ seen \o Slice(items) \in Seq(Item)
      /\ Len(seen \o Slice(items)) = Len(seen) + Len(Slice(items))
  <2>1. seen \in Seq(Item) /\ Slice(items) \in Seq(Item)
    BY <1>1, <1>2
  <2> QED BY <2>1, ConcatProperties
<1>4. ToSet(seen \o Slice(items)) = ToSet(seen) \cup ToSet(Slice(items))
  BY <1>1, <1>2, ConcatSet
<1>5. NoDuplicates(seen \o Slice(items))
  BY DEF Consistent
<1>6. \A s \in ToSet(seen') : s.id <= added'
  BY <1>1, <1>2, <1>4 DEF ScanInv, ReaderInv
<1>7. ASSUME NEW s \in ToSet(Slice(items)), NEW i \in ToSet(items), s.id = i.id
      PROVE  Became(s, i)
  <2>1. s = i
    BY <1>1, <1>2, <1>7 DEF ToSet
  <2> QED BY <2>1 DEF Became
<1>8. \A s \in ToSet(seen'), i \in ToSet(items') : s.id = i.id => Became(s, i)
  BY <1>4, <1>7 DEF ScanInv, FirstInv
<1>9. NoDuplicates(seen)'
  BY <1>5 DEF NoDuplicates
<1> QED BY <1>1, <1>3, <1>6, <1>8, <1>9

(* The page the second scan reads is, item by item, that of the first, and  *)
(* so was the listing when the first scan ended.                            *)
LEMMA SecondScanReads ==
  ASSUME ScanInv, scan = "second", Consistent
  PROVE  /\ Len(Slice(seen)) = Len(Slice(items))
         /\ \A n \in DOMAIN seen :
              n <= Before(scanPage) + PerPage => seen[n] \in ToSet(midway)
<1>1. /\ items \in Seq(Item) /\ seen \in Seq(Item) /\ scanPage \in Nat \ {0}
      /\ \A s \in ToSet(seen), i \in ToSet(items) :
           s.id = i.id => \E k \in ToSet(midway) : Became(s, k) /\ Became(k, i)
      /\ \A n \in DOMAIN seen : n <= Before(scanPage) => seen[n] \in ToSet(midway)
  BY DEF ScanInv, ListingInv, ReaderInv, SecondInv
<1>2. Slice(items) \in Seq(Item) /\ Slice(seen) \in Seq(Item)
  BY <1>1, PageIs DEF Slice
<1>3. /\ DOMAIN Slice(items) = 1..Len(Slice(items)) /\ Len(Slice(items)) \in Nat
      /\ DOMAIN Slice(seen) = 1..Len(Slice(seen)) /\ Len(Slice(seen)) \in Nat
  BY <1>2, LenProperties
<1>4. /\ DOMAIN Slice(items) = DOMAIN Slice(seen)
      /\ \A k \in DOMAIN Slice(seen) :
           /\ Slice(items)[k].id = Slice(seen)[k].id
           /\ Slice(items)[k].content = Slice(seen)[k].content
  <2>1. Snapshot(Slice(items)) = Snapshot(Slice(seen))
    BY DEF Consistent
  <2>2. DOMAIN Snapshot(Slice(items)) = DOMAIN Slice(items)
    BY DEF Snapshot
  <2>3. DOMAIN Snapshot(Slice(seen)) = DOMAIN Slice(seen)
    BY DEF Snapshot
  <2>4. \A k \in DOMAIN Slice(items) :
          Snapshot(Slice(items))[k] = <<Slice(items)[k].id, Slice(items)[k].content>>
    BY DEF Snapshot
  <2>5. \A k \in DOMAIN Slice(seen) :
          Snapshot(Slice(seen))[k] = <<Slice(seen)[k].id, Slice(seen)[k].content>>
    BY DEF Snapshot
  <2> QED BY <2>1, <2>2, <2>3, <2>4, <2>5
<1>5. Len(Slice(seen)) = Len(Slice(items))
  <2>1. ASSUME NEW a \in Nat, NEW b \in Nat, 1..a = 1..b
        PROVE  ~(a < b)
    <3>1. a < b => b \in 1..b /\ b \notin 1..a
      OBVIOUS
    <3> QED BY <2>1, <3>1
  <2>2. PICK a, b \in Nat : a = Len(Slice(seen)) /\ b = Len(Slice(items))
    BY <1>3
  <2>3. 1..a = 1..b
    BY <1>3, <1>4, <2>2
  <2>4. ~(a < b) /\ ~(b < a)
    BY <2>1, <2>3
  <2> QED BY <2>2, <2>4
<1>6. /\ Before(scanPage) \in Nat /\ PerPage \in Nat /\ Len(seen) \in Nat
      /\ DOMAIN seen = 1..Len(seen) /\ DOMAIN items = 1..Len(items)
  BY <1>1, PagesAdd, PagingAssumption, LenProperties
<1>7. /\ Len(Slice(seen)) =
           IF Len(seen) <= Before(scanPage) THEN 0
           ELSE IF Before(scanPage) + PerPage < Len(seen) THEN PerPage
           ELSE Len(seen) - Before(scanPage)
      /\ \A k \in 1..Len(Slice(seen)) : Slice(seen)[k] = seen[Before(scanPage) + k]
  BY <1>1, PageIs DEF Slice
<1>8. ASSUME NEW n \in DOMAIN seen, n <= Before(scanPage) + PerPage, ~(n <= Before(scanPage))
      PROVE  seen[n] \in ToSet(midway)
  <2>1. PICK k \in DOMAIN Slice(seen) : n = Before(scanPage) + k
    <3>1. n - Before(scanPage) \in 1..Len(Slice(seen))
      BY <1>6, <1>7, <1>8
    <3> QED BY <1>3, <1>6, <3>1
  <2>2. Slice(seen)[k] = seen[n] /\ seen[n] \in ToSet(seen)
    BY <1>3, <1>7, <2>1 DEF ToSet
  <2>3. PICK i \in ToSet(items) : i = Slice(items)[k]
    <3>1. Slice(items)[k] \in ToSet(Slice(items))
      BY <1>4, <2>1 DEF ToSet
    <3> QED BY <1>1, <3>1, PageSet DEF Slice
  <2>4. seen[n].id = i.id /\ seen[n].content = i.content
    BY <1>4, <2>1, <2>2, <2>3
  <2>5. PICK m \in ToSet(midway) : Became(seen[n], m) /\ Became(m, i)
    BY <1>1, <2>2, <2>4
  <2>6. seen[n] = m
    BY <2>4, <2>5 DEF Became
  <2> QED BY <2>5, <2>6
<1> QED BY <1>1, <1>5, <1>8

(* A full page has been read.                                               *)
LEMMA FullPageStep ==
  ASSUME ScanInv, ReadFullPage
  PROVE  ScanInv'
<1>1. /\ scan \in {"first", "second"} /\ Len(Slice(items)) = PerPage /\ Consistent
      /\ seen' = IF scan = "first" THEN seen \o Slice(items) ELSE seen
      /\ scanPage' = scanPage + 1
      /\ UNCHANGED <<items, added, query, scan, answer, midway>>
  BY DEF ReadFullPage
<1>2. ListingInv'
  BY <1>1 DEF ScanInv, ListingInv
<1>3. scanPage \in Nat \ {0} /\ Before(scanPage') = Before(scanPage) + PerPage
  BY <1>1, PagesAdd DEF ScanInv, ReaderInv
<1>4. AnswerWasTrue'
  BY <1>1 DEF AnswerWasTrue
<1>5. CASE scan = "first"
  <2>1. /\ seen' \in Seq(Item) /\ NoDuplicates(seen)'
        /\ Len(seen') = Before(scanPage) + Len(Slice(items))
        /\ \A s \in ToSet(seen') : s.id <= added'
        /\ \A s \in ToSet(seen'), i \in ToSet(items') : s.id = i.id => Became(s, i)
    BY <1>1, <1>2, <1>5, FirstScanReads
  <2>2. ReaderInv'
    <3>1. scan' \in {"first", "second", "answered"} /\ scanPage' \in Nat \ {0}
      BY <1>1, <1>3
    <3> QED BY <2>1, <3>1 DEF ReaderInv
  <2>3. FirstInv' /\ SecondInv'
    BY <1>1, <1>3, <1>5, <2>1 DEF FirstInv, SecondInv
  <2> QED BY <1>2, <1>4, <2>2, <2>3 DEF ScanInv
<1>6. CASE scan = "second"
  <2>1. seen' = seen
    BY <1>1, <1>6
  <2>2. \A n \in DOMAIN seen : n <= Before(scanPage) + PerPage => seen[n] \in ToSet(midway)
    BY <1>1, <1>6, SecondScanReads
  <2>3. ReaderInv'
    <3>1. scan' \in {"first", "second", "answered"} /\ scanPage' \in Nat \ {0}
      BY <1>1, <1>3
    <3>2. NoDuplicates(seen)'
      BY <2>1 DEF ScanInv, ReaderInv, NoDuplicates
    <3>3. seen' \in Seq(Item) /\ \A s \in ToSet(seen') : s.id <= added'
      BY <1>1, <2>1 DEF ScanInv, ReaderInv
    <3> QED BY <3>1, <3>2, <3>3 DEF ReaderInv
  <2>4. FirstInv'
    BY <1>1, <1>6 DEF FirstInv
  <2>5. SecondInv'
    BY <1>1, <1>3, <1>6, <2>1, <2>2 DEF ScanInv, SecondInv
  <2> QED BY <1>2, <1>4, <2>3, <2>4, <2>5 DEF ScanInv
<1> QED BY <1>1, <1>5, <1>6

(* The first scan ends.                                                     *)
LEMMA LastPageStep ==
  ASSUME ScanInv, ReadLastPage
  PROVE  ScanInv'
<1>1. /\ scan = "first" /\ Consistent /\ Len(Slice(items)) < PerPage
      /\ seen' = seen \o Slice(items) /\ midway' = items
      /\ scan' = "second" /\ scanPage' = 1
      /\ UNCHANGED <<items, added, query, answer>>
  BY DEF ReadLastPage, LastPage
<1>2. ListingInv'
  BY <1>1 DEF ScanInv, ListingInv
<1>3. /\ seen' \in Seq(Item) /\ NoDuplicates(seen)'
      /\ Len(seen') = Before(scanPage) + Len(Slice(items))
      /\ \A s \in ToSet(seen') : s.id <= added'
      /\ \A s \in ToSet(seen'), i \in ToSet(items') : s.id = i.id => Became(s, i)
  BY <1>1, <1>2, FirstScanReads
<1>4. items \in Seq(Item) /\ scanPage \in Nat \ {0} /\ Len(items) \in Nat
  BY LenProperties DEF ScanInv, ListingInv, ReaderInv
<1>5. Len(items) <= Len(seen')
  <2>1. Before(scanPage) \in Nat /\ PerPage \in Nat
    BY <1>4, PagesAdd, PagingAssumption
  <2>2. Len(Slice(items)) =
          IF Len(items) <= Before(scanPage) THEN 0
          ELSE IF Before(scanPage) + PerPage < Len(items) THEN PerPage
          ELSE Len(items) - Before(scanPage)
    BY <1>4, PageIs DEF Slice
  <2>3. CASE Len(items) <= Before(scanPage)
    BY <1>3, <1>4, <2>1, <2>2, <2>3
  <2>4. CASE ~(Len(items) <= Before(scanPage))
    <3>1. ~(Before(scanPage) + PerPage < Len(items))
      BY <1>1, <1>4, <2>1, <2>2, <2>4
    <3> QED BY <1>3, <1>4, <2>1, <2>2, <2>4, <3>1
  <2> QED BY <2>3, <2>4
<1>6. ReaderInv'
  <2>1. scan' \in {"first", "second", "answered"} /\ scanPage' \in Nat \ {0}
    BY <1>1
  <2> QED BY <1>3, <2>1 DEF ReaderInv
<1>7. SecondInv'
  <2>1. ASSUME NEW s \in ToSet(seen'), NEW i \in ToSet(items'), s.id = i.id
        PROVE  \E k \in ToSet(midway') : Became(s, k) /\ Became(k, i)
    <3>1. i \in ToSet(midway') /\ Became(s, i) /\ Became(i, i)
      BY <1>1, <1>3, <2>1 DEF Became
    <3> QED BY <3>1
  <2>2. ASSUME NEW n \in DOMAIN seen', n <= Before(1)
        PROVE  seen'[n] \in ToSet(midway')
    BY <1>3, <2>2, LenProperties, PagesAdd
  <2> QED BY <1>1, <1>4, <1>5, <2>1, <2>2 DEF SecondInv
<1>8. FirstInv' /\ AnswerWasTrue'
  BY <1>1 DEF FirstInv, AnswerWasTrue
<1> QED BY <1>2, <1>6, <1>7, <1>8 DEF ScanInv

(* As many items as there were, each of them one of those there were: all.  *)
LEMMA ReadAll ==
  ASSUME NEW S, NEW s \in Seq(S), NEW t \in Seq(S), Len(t) <= Len(s),
         ToSet(s) \subseteq ToSet(t), \A m, n \in DOMAIN s : s[m] = s[n] => m = n
  PROVE  ToSet(s) = ToSet(t)
<1>1. /\ Len(s) \in Nat /\ Len(t) \in Nat
      /\ DOMAIN s = 1..Len(s) /\ DOMAIN t = 1..Len(t)
  BY LenProperties
<1> DEFINE at == [n \in 1..Len(s) |-> CHOOSE k \in 1..Len(t) : t[k] = s[n]]
<1>2. \A n \in 1..Len(s) : at[n] \in 1..Len(t) /\ t[at[n]] = s[n]
  <2> TAKE n \in 1..Len(s)
  <2>1. \E k \in 1..Len(t) : t[k] = s[n]
    BY <1>1 DEF ToSet
  <2> QED BY <2>1
<1>3. at \in [1..Len(s) -> 1..Len(t)]
  BY <1>2
<1> HIDE DEF at
<1>4. at \in Injection(1..Len(s), 1..Len(t))
  BY <1>1, <1>2, <1>3 DEF Injection, IsInjective
<1>5. /\ IsFiniteSet(1..Len(s)) /\ Cardinality(1..Len(s)) = Len(s)
      /\ IsFiniteSet(1..Len(t)) /\ Cardinality(1..Len(t)) = Len(t)
  <2>1. ASSUME NEW n \in Nat
        PROVE  IsFiniteSet(1..n) /\ Cardinality(1..n) = n
    BY FS_Interval
  <2> QED BY <1>1, <2>1
<1>6. /\ Cardinality(1..Len(s)) <= Cardinality(1..Len(t))
      /\ Cardinality(1..Len(s)) = Cardinality(1..Len(t)) <=> at \in Surjection(1..Len(s), 1..Len(t))
  BY <1>4, <1>5, FS_Injection
<1>7. at \in Surjection(1..Len(s), 1..Len(t))
  BY <1>1, <1>5, <1>6
<1>8. ASSUME NEW k \in DOMAIN t
      PROVE  t[k] \in ToSet(s)
  <2>1. PICK n \in 1..Len(s) : at[n] = k
    BY <1>1, <1>7 DEF Surjection
  <2> QED BY <1>1, <1>2, <2>1 DEF ToSet
<1> QED BY <1>8 DEF ToSet

(* No two of the items read have one number.                                *)
LEMMA NumbersDiffer ==
  ASSUME NEW S, NEW list \in Seq(S), NoDuplicates(list)
  PROVE  \A m, n \in DOMAIN list : list[m].id = list[n].id => m = n
<1> DEFINE ids == {list[n].id : n \in DOMAIN list}
           number == [n \in 1..Len(list) |-> list[n].id]
<1>1. Len(list) \in Nat /\ DOMAIN list = 1..Len(list)
  BY LenProperties
<1>2. number \in Surjection(1..Len(list), ids)
  BY <1>1 DEF Surjection
<1>3. IsFiniteSet(1..Len(list)) /\ Cardinality(1..Len(list)) = Len(list)
  BY <1>1, FS_Interval
<1>4. Cardinality(ids) = Len(list)
  BY DEF NoDuplicates
<1>5. number \in Injection(1..Len(list), ids)
  BY <1>2, <1>3, <1>4, FS_Surjection
<1> QED BY <1>1, <1>5 DEF Injection, IsInjective

(* What is answered was so when the first scan ended.                       *)
LEMMA AnswerStep ==
  ASSUME ScanInv, Answer
  PROVE  ScanInv'
<1>1. /\ scan = "second" /\ Consistent /\ Len(Slice(items)) < PerPage
      /\ \A kind \in Kinds :
           Cardinality(Matches(seen, kind)) \in (IF MayBeAbsent THEN {0, 1} ELSE {1})
      /\ answer' = {item.id : item \in UNION {Matches(seen, kind) : kind \in Kinds}}
      /\ scan' = "answered" /\ scanPage' = 1 /\ seen' = << >>
      /\ UNCHANGED <<items, added, query, midway>>
  BY DEF Answer, LastPage, Decidable, Found
<1>2. /\ seen \in Seq(Item) /\ NoDuplicates(seen) /\ scanPage \in Nat \ {0}
      /\ midway \in Seq(Item) /\ Len(midway) <= Len(seen)
  BY <1>1 DEF ScanInv, ReaderInv, SecondInv
<1>3. ToSet(seen) \subseteq ToSet(midway)
  <2>1. /\ Len(Slice(seen)) < PerPage
        /\ \A n \in DOMAIN seen :
             n <= Before(scanPage) + PerPage => seen[n] \in ToSet(midway)
    BY <1>1, SecondScanReads
  <2>2. /\ Len(Slice(seen)) =
             IF Len(seen) <= Before(scanPage) THEN 0
             ELSE IF Before(scanPage) + PerPage < Len(seen) THEN PerPage
             ELSE Len(seen) - Before(scanPage)
    BY <1>2, PageIs DEF Slice
  <2>3. /\ Len(seen) \in Nat /\ DOMAIN seen = 1..Len(seen)
        /\ Before(scanPage) \in Nat /\ PerPage \in Nat \ {0}
    BY <1>2, LenProperties, PagesAdd, PagingAssumption
  <2>4. Len(seen) <= Before(scanPage) + PerPage
    BY <2>1, <2>2, <2>3
  <2>5. \A n \in DOMAIN seen : seen[n] \in ToSet(midway)
    BY <2>1, <2>3, <2>4
  <2> QED BY <2>5 DEF ToSet
<1>4. ToSet(seen) = ToSet(midway)
  <2>1. \A m, n \in DOMAIN seen : seen[m] = seen[n] => m = n
    BY <1>2, NumbersDiffer
  <2> QED BY <1>2, <1>3, <2>1, ReadAll
<1>5. \A kind : Matches(seen, kind) = Matches(midway, kind)
  BY <1>4 DEF Matches, Trusted
<1>6. Author' = Author /\ Kinds' = Kinds
  BY <1>1 DEF Author, Kinds
<1>7. \A kind : Matches(midway, kind)' = Matches(midway, kind)
  BY <1>1, <1>6 DEF Matches, Trusted
<1>8. {midway[n] : n \in DOMAIN midway} \cap UNION {Matches(midway, kind) : kind \in Kinds}
        = UNION {Matches(seen, kind) : kind \in Kinds}
  BY <1>5 DEF Matches, Trusted, ToSet
<1>9. \A kind \in Kinds : Cardinality(Matches(midway, kind)) <= 1
  <2> TAKE kind \in Kinds
  <2>1. Cardinality(Matches(midway, kind)) \in {0, 1}
    BY <1>1, <1>5
  <2> QED BY <2>1
<1>10. AnswerWasTrue'
  BY <1>1, <1>6, <1>7, <1>8, <1>9 DEF AnswerWasTrue
<1>11. ListingInv' /\ FirstInv' /\ SecondInv'
  BY <1>1 DEF ScanInv, ListingInv, FirstInv, SecondInv
<1>12. ReaderInv'
  <2>1. << >> \in Seq(Item) /\ ToSet(<< >>) = {} /\ NoDuplicates(<< >>)
    BY NothingRead
  <2> QED BY <1>1, <2>1 DEF ReaderInv, NoDuplicates
<1> QED BY <1>10, <1>11, <1>12 DEF ScanInv

(* A reader starts over.                                                    *)
LEMMA StartOverStep ==
  ASSUME ScanInv, StartOver
  PROVE  ScanInv'
<1>1. /\ scan' = "first" /\ scanPage' = 1 /\ seen' = << >> /\ midway' = << >> /\ answer' = {}
      /\ UNCHANGED <<items, added, query>>
  BY DEF StartOver
<1>2. /\ << >> \in Seq(Item) /\ Len(<< >>) = 0 /\ ToSet(<< >>) = {}
      /\ NoDuplicates(<< >>)
  BY NothingRead
<1>3. ListingInv' /\ AnswerWasTrue' /\ SecondInv'
  BY <1>1 DEF ScanInv, ListingInv, AnswerWasTrue, SecondInv
<1>4. ReaderInv' /\ FirstInv'
  BY <1>1, <1>2, PagesAdd DEF ReaderInv, FirstInv, NoDuplicates
<1> QED BY <1>3, <1>4 DEF ScanInv

(* Every step keeps the invariant.                                          *)
LEMMA ScanSteps == ScanInv /\ [ScanNext]_scanVars => ScanInv'
<1> SUFFICES ASSUME ScanInv, [ScanNext]_scanVars PROVE ScanInv'
  OBVIOUS
<1>1. CASE UNCHANGED scanVars
  <2>1. UNCHANGED <<items, added>> /\ UNCHANGED readerVars
    BY <1>1 DEF scanVars
  <2>2. ListingInv' /\ added \in Nat
    BY <2>1 DEF ScanInv, ListingInv
  <2> QED BY <2>1, <2>2, ListingStep DEF Became
<1>2. CASE ScanNext
  BY <1>2, AddItemStep, EditItemStep, RemoveItemStep, FullPageStep, LastPageStep,
     AnswerStep, StartOverStep
     DEF ScanNext
<1> QED BY <1>1, <1>2

(* What a reader answers, also that there is nothing, was true of the whole *)
(* listing at one instant while it was reading                              *)
(* (actions_request_handler.py:839-880, actions_recipe_dispatch.py:431-477).*)
THEOREM TwoScansSuffice == ScanSpec => []AnswerWasTrue
<1>1. ScanInv => AnswerWasTrue
  BY DEF ScanInv
<1> QED BY <1>1, ScanStarts, ScanSteps, PTL DEF ScanSpec

-----------------------------------------------------------------------------
(* The newest run of CI.                                                    *)

Run == [id : Nat, attempt : Nat, done : BOOLEAN]

(* No two runs have one number, and a run is done when all its jobs are.    *)
RunsInv ==
  /\ runs \in Seq(Run) /\ attempts \in Nat /\ attempts <= MaxAttempts
  /\ \A run \in ToSet(runs) : run.id \in 1..attempts
  /\ \A m, n \in DOMAIN runs : runs[m].id = runs[n].id => m = n
  /\ jobs \in [1..MaxAttempts -> Seq(BOOLEAN)]
  /\ \A run \in ToSet(runs) : run.done => \A k \in DOMAIN jobs[run.id] : jobs[run.id][k]

(* A run that was seen is gone, goes on, or has begun another attempt.      *)
GoesOn(run) ==
  /\ run.id <= attempts
  /\ \A now \in ToSet(runs) :
       now.id = run.id =>
         /\ run.attempt <= now.attempt
         /\ now.attempt = run.attempt /\ run.done => now.done

(* What the inspection has read, page after page.                           *)
RowsInv ==
  /\ step \in {"runs", "jobs", "again", "exact", "found", "not_found"}
  /\ ciPage \in Nat \ {0} /\ total \in Nat /\ selected \in Run
  /\ step \in {"runs", "jobs", "again"} => Len(rows) = Before(ciPage)
  /\ step \in {"runs", "again", "exact", "found"} => rows \in Seq(Run)
  /\ step \in {"runs", "again"} => \A run \in ToSet(rows) : GoesOn(run)
  /\ step \in {"jobs", "again", "exact", "found"} => GoesOn(selected)

(* The jobs of a run seen done are those of its attempt, as long as it is   *)
(* its last.                                                                *)
JobsInv ==
  /\ step = "jobs" =>
       /\ rows \in Seq(BOOLEAN)
       /\ selected.done /\ SameAttempt =>
            \A k \in DOMAIN rows :
              k \in DOMAIN jobs[selected.id] /\ rows[k] = jobs[selected.id][k]
  /\ step \in {"again", "exact", "found"} /\ selected.done =>
       /\ \A k \in DOMAIN found : found[k]
       /\ SameAttempt => found = jobs[selected.id]

(* A run that was there all along and has not been read has fewer behind it *)
(* than are missing from the total, so the pages to come will list it.      *)
StandingInv ==
  /\ step = "again" /\ ciPage > 1 =>
       \A s \in standing \ Ids(rows) :
         \E n \in DOMAIN runs : runs[n].id = s /\ Len(runs) - n < total - Len(rows)
  /\ step \in {"exact", "found"} =>
       /\ standing \subseteq Ids(rows)
       /\ \A id \in Ids(rows) : id <= selected.id

CiInv == RunsInv /\ RowsInv /\ JobsInv /\ StandingInv

(* Numbers that are bounded have a largest one.                             *)
LEMMA LargestIs ==
  ASSUME NEW S \in SUBSET Nat, S # {}, NEW bound \in Nat, \A n \in S : n <= bound
  PROVE  \E n \in S : \A m \in S : m <= n
<1> DEFINE T == {bound - n : n \in S}
<1>1. T \subseteq Nat /\ T # {}
  <2>1. \A n \in S : bound - n \in Nat
    OBVIOUS
  <2> QED BY <2>1
<1>2. PICK x \in T : \A y \in T : ~(<<y, x>> \in OpToRel(<, Nat))
  BY <1>1, NatLessThanWellFounded, WFMin
<1>3. \A y \in T : ~(y < x)
  BY <1>1, <1>2 DEF OpToRel
<1>4. PICK n \in S : x = bound - n
  BY <1>2
<1>5. ASSUME NEW m \in S PROVE m <= n
  <2>1. bound - m \in T /\ ~(bound - m < bound - n)
    BY <1>3, <1>4
  <2>2. m \in Nat /\ n \in Nat
    OBVIOUS
  <2> QED BY <2>1, <2>2
<1> QED BY <1>5

(* The newest of some runs is one of them, and no other is newer.           *)
LEMMA NewestIs ==
  ASSUME NEW list \in Seq(Run), list # << >>, NEW bound \in Nat,
         \A run \in ToSet(list) : run.id <= bound
  PROVE  /\ Newest(list) \in ToSet(list)
         /\ \A other \in ToSet(list) : other.id <= Newest(list).id
<1>1. ToSet(list) \subseteq Run
  BY SetOfList
<1>2. ToSet(list) # {}
  <2>1. Len(list) \in Nat \ {0} /\ DOMAIN list = 1..Len(list)
    BY EmptySeq, LenProperties
  <2>2. 1 \in DOMAIN list
    BY <2>1
  <2> QED BY <2>2 DEF ToSet
<1> DEFINE S == {run.id : run \in ToSet(list)}
<1>3. S \in SUBSET Nat /\ S # {} /\ \A n \in S : n <= bound
  BY <1>1, <1>2 DEF Run
<1>4. PICK n \in S : \A m \in S : m <= n
  BY <1>3, LargestIs
<1>5. \E run \in ToSet(list) : \A other \in ToSet(list) : other.id <= run.id
  BY <1>4
<1> QED BY <1>5 DEF Newest

(* No run, nothing inspected.                                               *)
LEMMA CiStarts == CiInit => CiInv
<1> SUFFICES ASSUME CiInit PROVE CiInv
  OBVIOUS
<1>1. /\ runs = << >> /\ attempts = 0 /\ jobs = [id \in 1..MaxAttempts |-> << >>]
      /\ step = "runs" /\ ciPage = 1 /\ total = 0 /\ rows = << >>
      /\ selected = NoRun /\ found = << >> /\ standing = {}
  BY DEF CiInit
<1>2. /\ << >> \in Seq(Run) /\ << >> \in Seq(BOOLEAN) /\ Len(<< >>) = 0
      /\ DOMAIN << >> = {} /\ ToSet(<< >>) = {} /\ NoRun \in Run
  BY EmptySeq DEF ToSet, NoRun, Run
<1> QED
  BY <1>1, <1>2, PagesAdd, CiAssumption DEF CiInv, RunsInv, RowsInv, JobsInv, StandingInv

(* The workflow goes on under the inspection: every run is a new one, or one*)
(* there was, whose jobs are final if it is done and is not run again; and  *)
(* no run that stays has more behind it.                                    *)
LEMMA WorkflowStep ==
  ASSUME CiInv, RunsInv', UNCHANGED <<step, ciPage, total, rows, selected, found>>,
         standing' \subseteq standing, attempts <= attempts',
         \A now \in ToSet(runs') :
           \/ now.id > attempts
           \/ \E run \in ToSet(runs) :
                /\ run.id = now.id /\ run.attempt <= now.attempt
                /\ run.attempt = now.attempt /\ run.done =>
                     now.done /\ jobs'[run.id] = jobs[run.id],
         \A s \in standing', n \in DOMAIN runs :
           runs[n].id = s =>
             \E m \in DOMAIN runs' : runs'[m].id = s /\ Len(runs') - m <= Len(runs) - n
  PROVE  CiInv'
<1>1. /\ attempts \in Nat /\ attempts' \in Nat /\ selected \in Run
      /\ \A run \in ToSet(runs) : run \in Run
      /\ \A run \in ToSet(runs') : run \in Run
  BY SetOfList DEF CiInv, RunsInv, RowsInv
<1>2. ASSUME NEW run \in Run, GoesOn(run)
      PROVE  GoesOn(run)'
  <2>1. run.id <= attempts'
    BY <1>1, <1>2 DEF GoesOn, Run
  <2>2. ASSUME NEW now \in ToSet(runs'), now.id = run.id
        PROVE  /\ run.attempt <= now.attempt
               /\ now.attempt = run.attempt /\ run.done => now.done
    <3>1. ~(now.id > attempts)
      BY <1>1, <1>2, <2>2 DEF GoesOn, Run
    <3>2. PICK old \in ToSet(runs) :
            /\ old.id = now.id /\ old.attempt <= now.attempt
            /\ old.attempt = now.attempt /\ old.done => now.done
      BY <3>1
    <3>3. /\ run.attempt <= old.attempt
          /\ old.attempt = run.attempt /\ run.done => old.done
      BY <1>2, <2>2, <3>2 DEF GoesOn
    <3>4. run.attempt \in Nat /\ old.attempt \in Nat /\ now.attempt \in Nat
      BY <1>1 DEF Run
    <3> QED BY <3>2, <3>3, <3>4
  <2> QED BY <2>1, <2>2 DEF GoesOn
<1>3. RowsInv'
  <2>1. \A run \in ToSet(rows) : step \in {"runs", "again"} => run \in Run
    BY SetOfList DEF CiInv, RowsInv
  <2>2. step \in {"runs", "again"} => \A run \in ToSet(rows) : GoesOn(run)'
    BY <1>2, <2>1 DEF CiInv, RowsInv
  <2>3. step \in {"jobs", "again", "exact", "found"} => GoesOn(selected)'
    BY <1>1, <1>2 DEF CiInv, RowsInv
  <2>4. (step \in {"runs", "again"} => \A run \in ToSet(rows) : GoesOn(run))'
    BY <2>2 DEF GoesOn
  <2>5. (step \in {"jobs", "again", "exact", "found"} => GoesOn(selected))'
    BY <2>3 DEF GoesOn
  <2> QED BY <2>4, <2>5 DEF CiInv, RowsInv
<1>4. ASSUME step \in {"jobs", "again", "exact", "found"}, selected.done, SameAttempt'
      PROVE  SameAttempt /\ jobs'[selected.id] = jobs[selected.id]
  <2>1. PICK now \in ToSet(runs') : now.id = selected.id /\ now.attempt = selected.attempt
    BY <1>4 DEF SameAttempt
  <2>2. GoesOn(selected)
    BY <1>4 DEF CiInv, RowsInv
  <2>3. ~(now.id > attempts)
    BY <1>1, <2>1, <2>2 DEF GoesOn, Run
  <2>4. PICK old \in ToSet(runs) :
          /\ old.id = now.id /\ old.attempt <= now.attempt
          /\ old.attempt = now.attempt /\ old.done => jobs'[old.id] = jobs[old.id]
    BY <2>3
  <2>5. /\ selected.attempt <= old.attempt
        /\ old.attempt = selected.attempt => old.done
    BY <1>4, <2>1, <2>2, <2>4 DEF GoesOn
  <2>6. selected.attempt \in Nat /\ old.attempt \in Nat
    BY <1>1 DEF Run
  <2> QED BY <2>1, <2>4, <2>5, <2>6 DEF SameAttempt
<1>5. JobsInv'
  BY <1>4 DEF CiInv, JobsInv
<1>6. StandingInv'
  <2>1. ASSUME step = "again", ciPage > 1, NEW s \in standing' \ Ids(rows)
        PROVE  \E m \in DOMAIN runs' :
                 runs'[m].id = s /\ Len(runs') - m < total - Len(rows)
    <3>1. PICK n \in DOMAIN runs : runs[n].id = s /\ Len(runs) - n < total - Len(rows)
      BY <2>1 DEF CiInv, StandingInv
    <3>2. PICK m \in DOMAIN runs' : runs'[m].id = s /\ Len(runs') - m <= Len(runs) - n
      BY <2>1, <3>1
    <3>3. /\ Len(runs) \in Nat /\ n \in Nat /\ Len(runs') \in Nat /\ m \in Nat
          /\ total \in Nat /\ Len(rows) \in Nat
      BY <2>1, LenProperties DEF CiInv, RunsInv, RowsInv
    <3> QED BY <3>1, <3>2, <3>3
  <2>2. Ids(rows') = Ids(rows)
    OBVIOUS
  <2> QED BY <2>1, <2>2 DEF CiInv, StandingInv
<1> QED BY <1>3, <1>5, <1>6 DEF CiInv

(* The runs there are, one by one.                                          *)
LEMMA RunsAre ==
  ASSUME RunsInv
  PROVE  /\ Len(runs) \in Nat /\ DOMAIN runs = 1..Len(runs)
         /\ \A n \in DOMAIN runs :
              /\ runs[n] \in ToSet(runs) /\ runs[n] \in Run
              /\ runs[n].id \in 1..attempts /\ runs[n].id \in 1..MaxAttempts
              /\ jobs[runs[n].id] \in Seq(BOOLEAN)
<1>1. /\ runs \in Seq(Run) /\ attempts \in Nat /\ attempts <= MaxAttempts
      /\ MaxAttempts \in Nat /\ \A run \in ToSet(runs) : run.id \in 1..attempts
  BY CiAssumption DEF RunsInv
<1>2. Len(runs) \in Nat /\ DOMAIN runs = 1..Len(runs)
  BY <1>1, LenProperties
<1>3. ASSUME NEW n \in DOMAIN runs
      PROVE  /\ runs[n] \in ToSet(runs) /\ runs[n] \in Run
             /\ runs[n].id \in 1..attempts /\ runs[n].id \in 1..MaxAttempts
             /\ jobs[runs[n].id] \in Seq(BOOLEAN)
  <2>1. runs[n] \in ToSet(runs) /\ runs[n] \in Run
    BY <1>1, SetOfList DEF ToSet
  <2>2. runs[n].id \in 1..attempts /\ runs[n].id \in 1..MaxAttempts
    BY <1>1, <2>1
  <2> QED BY <2>1, <2>2 DEF RunsInv
<1> QED BY <1>2, <1>3

(* A new run.                                                               *)
LEMMA NewRunStep ==
  ASSUME CiInv, NewRun
  PROVE  CiInv'
<1> DEFINE run == [id |-> attempts + 1, attempt |-> 1, done |-> FALSE]
           one == <<run>>
<1>1. /\ attempts < MaxAttempts /\ attempts' = attempts + 1
      /\ runs' = one \o runs /\ UNCHANGED <<jobs, inspectVars>>
  BY DEF NewRun
<1>2. RunsInv
  BY DEF CiInv
<1>3. /\ runs \in Seq(Run) /\ attempts \in Nat /\ MaxAttempts \in Nat
      /\ Len(runs) \in Nat /\ DOMAIN runs = 1..Len(runs)
  BY <1>2, CiAssumption, RunsAre DEF RunsInv
<1>4. run \in Run /\ run.id = attempts + 1 /\ run.done = FALSE
  BY <1>3 DEF Run
<1> HIDE DEF run
<1>5. one \in Seq(Run) /\ Len(one) = 1 /\ one[1] = run /\ ToSet(one) = {run}
  BY <1>4 DEF ToSet
<1> HIDE DEF one
<1>6. /\ one \o runs \in Seq(Run) /\ Len(one \o runs) = Len(one) + Len(runs)
      /\ \A i \in 1..(Len(one) + Len(runs)) :
           (one \o runs)[i] = IF i <= Len(one) THEN one[i] ELSE runs[i - Len(one)]
  <2>1. one \in Seq(Run) /\ runs \in Seq(Run)
    BY <1>3, <1>5
  <2> QED BY <2>1, ConcatProperties
<1>7. ToSet(one \o runs) = ToSet(one) \cup ToSet(runs)
  BY <1>3, <1>5, ConcatSet
<1>8. /\ runs' \in Seq(Run) /\ Len(runs') = Len(runs) + 1
      /\ ToSet(runs') = {run} \cup ToSet(runs)
  BY <1>1, <1>3, <1>5, <1>6, <1>7
<1>9. DOMAIN runs' = 1..(Len(runs) + 1)
  BY <1>8, LenProperties
<1>10. /\ runs'[1] = run
       /\ \A i \in DOMAIN runs' \ {1} : i - 1 \in DOMAIN runs /\ runs'[i] = runs[i - 1]
  BY <1>1, <1>3, <1>5, <1>6, <1>9
<1>11. \A n \in DOMAIN runs : runs[n].id \in 1..attempts
  BY <1>2, RunsAre
<1>12. RunsInv'
  <2>1. \A m, n \in DOMAIN runs' : runs'[m].id = runs'[n].id => m = n
    <3>1. \A m \in DOMAIN runs' \ {1} : runs'[m].id # runs'[1].id
      BY <1>3, <1>4, <1>10, <1>11
    <3>2. \A m, n \in DOMAIN runs' \ {1} : runs'[m].id = runs'[n].id => m - 1 = n - 1
      BY <1>2, <1>10 DEF RunsInv
    <3> QED BY <1>3, <1>9, <3>1, <3>2
  <2>2. \A now \in ToSet(runs') : now.id \in 1..attempts'
    BY <1>1, <1>2, <1>3, <1>4, <1>8 DEF RunsInv
  <2>3. \A now \in ToSet(runs') :
          now.done => \A k \in DOMAIN jobs'[now.id] : jobs'[now.id][k]
    BY <1>1, <1>2, <1>4, <1>8 DEF RunsInv
  <2>4. attempts' \in Nat /\ attempts' <= MaxAttempts /\ jobs' \in [1..MaxAttempts -> Seq(BOOLEAN)]
    BY <1>1, <1>2, <1>3 DEF RunsInv
  <2> QED BY <1>8, <2>1, <2>2, <2>3, <2>4 DEF RunsInv
<1>13. UNCHANGED <<step, ciPage, total, rows, selected, found, standing, jobs>>
  BY <1>1 DEF inspectVars
<1>14. \A now \in ToSet(runs') : now.id > attempts \/ now \in ToSet(runs)
  BY <1>3, <1>4, <1>8
<1>15. \A now \in ToSet(runs) : now.attempt <= now.attempt
  <2>1. ToSet(runs) \subseteq Run
    BY <1>3, SetOfList
  <2> QED BY <2>1 DEF Run
<1>16. \A n \in DOMAIN runs : n + 1 \in DOMAIN runs' /\ runs'[n + 1] = runs[n]
                              /\ Len(runs') - (n + 1) <= Len(runs) - n
  BY <1>3, <1>8, <1>9, <1>10
<1>17. attempts <= attempts'
  BY <1>1, <1>3
<1> QED BY <1>12, <1>13, <1>14, <1>15, <1>16, <1>17, WorkflowStep

(* A step in which the runs stay as they are, but for one that may have     *)
(* ended, or begun again.                                                   *)
LEMMA RunStep ==
  ASSUME CiInv, NEW n \in DOMAIN runs, NEW now \in Run, now.id = runs[n].id,
         runs' = [runs EXCEPT ![n] = now], NEW list \in Seq(BOOLEAN),
         jobs' = [jobs EXCEPT ![runs[n].id] = list],
         now.done => \A k \in DOMAIN list : list[k],
         runs[n].attempt <= now.attempt,
         runs[n].attempt = now.attempt /\ runs[n].done =>
           now.done /\ list = jobs[runs[n].id],
         attempts \in Nat, attempts' \in Nat, attempts <= attempts', attempts' <= MaxAttempts,
         UNCHANGED inspectVars
  PROVE  CiInv'
<1>1. RunsInv
  BY DEF CiInv
<1>2. /\ runs \in Seq(Run) /\ Len(runs) \in Nat /\ DOMAIN runs = 1..Len(runs)
      /\ jobs \in [1..MaxAttempts -> Seq(BOOLEAN)]
      /\ \A k, m \in DOMAIN runs : runs[k].id = runs[m].id => k = m
      /\ \A m \in DOMAIN runs :
           /\ runs[m] \in ToSet(runs) /\ runs[m] \in Run
           /\ runs[m].id \in 1..attempts /\ runs[m].id \in 1..MaxAttempts
           /\ runs[m].done => \A k \in DOMAIN jobs[runs[m].id] : jobs[runs[m].id][k]
  BY <1>1, RunsAre DEF RunsInv
<1>3. /\ runs' \in Seq(Run) /\ Len(runs') = Len(runs)
      /\ \A k \in 1..Len(runs) : runs'[k] = IF k = n THEN now ELSE runs[k]
  BY <1>2, ExceptSeq
<1>4. DOMAIN runs' = DOMAIN runs
  BY <1>2, <1>3, LenProperties
<1>5. \A k \in DOMAIN runs' :
        /\ runs'[k].id = runs[k].id /\ runs[k].attempt <= runs'[k].attempt
        /\ runs[k].attempt = runs'[k].attempt /\ runs[k].done =>
             runs'[k].done /\ jobs'[runs[k].id] = jobs[runs[k].id]
  <2> TAKE k \in DOMAIN runs'
  <2>1. CASE k = n
    <3>1. runs'[k] = now /\ jobs'[runs[n].id] = list
      BY <1>2, <1>3, <1>4, <2>1
    <3> QED BY <2>1, <3>1
  <2>2. CASE k # n
    <3>1. runs'[k] = runs[k] /\ runs[k].id # runs[n].id
      BY <1>2, <1>3, <1>4, <2>2
    <3>2. jobs'[runs[k].id] = jobs[runs[k].id] /\ runs[k].attempt \in Nat
      BY <1>2, <1>4, <3>1 DEF Run
    <3> QED BY <3>1, <3>2
  <2> QED BY <2>1, <2>2
<1>6. \A k \in DOMAIN runs' : runs'[k].done => \A j \in DOMAIN jobs'[runs'[k].id] : jobs'[runs'[k].id][j]
  <2> TAKE k \in DOMAIN runs'
  <2>1. CASE k = n
    <3>1. runs'[k] = now /\ jobs'[runs'[k].id] = list
      BY <1>2, <1>3, <1>4, <2>1
    <3> QED BY <3>1
  <2>2. CASE k # n
    <3>1. runs'[k] = runs[k] /\ runs[k].id # runs[n].id
      BY <1>2, <1>3, <1>4, <2>2
    <3>2. jobs'[runs[k].id] = jobs[runs[k].id]
      BY <1>2, <1>4, <3>1
    <3> QED BY <1>2, <1>4, <3>1, <3>2
  <2> QED BY <2>1, <2>2
<1>7. RunsInv'
  <2>1. jobs' \in [1..MaxAttempts -> Seq(BOOLEAN)]
    BY <1>2
  <2>2. \A k, m \in DOMAIN runs' : runs'[k].id = runs'[m].id => k = m
    BY <1>2, <1>4, <1>5
  <2>3. \A k \in DOMAIN runs' : runs'[k].id \in 1..attempts'
    BY <1>2, <1>4, <1>5
  <2>4. /\ \A r \in ToSet(runs') : r.id \in 1..attempts'
        /\ \A r \in ToSet(runs') : r.done => \A k \in DOMAIN jobs'[r.id] : jobs'[r.id][k]
    BY <1>6, <2>3 DEF ToSet
  <2> QED BY <1>3, <2>1, <2>2, <2>4 DEF RunsInv
<1>8. UNCHANGED <<step, ciPage, total, rows, selected, found, standing>>
  BY DEF inspectVars
<1>9. \A r \in ToSet(runs') : \E run \in ToSet(runs) :
        /\ run.id = r.id /\ run.attempt <= r.attempt
        /\ run.attempt = r.attempt /\ run.done => r.done /\ jobs'[run.id] = jobs[run.id]
  <2> TAKE r \in ToSet(runs')
  <2>1. PICK k \in DOMAIN runs' : r = runs'[k]
    BY DEF ToSet
  <2> QED BY <1>2, <1>4, <1>5, <2>1
<1>10. \A k \in DOMAIN runs : /\ k \in DOMAIN runs' /\ runs'[k].id = runs[k].id
                             /\ Len(runs') - k <= Len(runs) - k
  BY <1>2, <1>3, <1>4, <1>5
<1> QED BY <1>7, <1>8, <1>9, <1>10, WorkflowStep

(* A job begins or ends, of a run that is not done.                         *)
LEMMA JobSteps ==
  ASSUME CiInv, NEW n \in DOMAIN runs,
         NewJob(runs[n]) \/ \E k \in DOMAIN jobs[runs[n].id] : EndJob(runs[n], k)
  PROVE  CiInv'
<1>1. RunsInv
  BY DEF CiInv
<1>2. /\ runs[n] \in Run /\ runs[n].attempt \in Nat /\ runs[n].id \in 1..MaxAttempts
      /\ runs[n] \in ToSet(runs) /\ jobs[runs[n].id] \in Seq(BOOLEAN)
  BY <1>1, RunsAre DEF Run
<1>3. runs = [runs EXCEPT ![n] = runs[n]]
  BY <1>1, LenProperties DEF RunsInv
<1>4. /\ attempts \in Nat /\ attempts <= MaxAttempts /\ attempts <= attempts
      /\ jobs \in [1..MaxAttempts -> Seq(BOOLEAN)]
      /\ runs[n].done => \A k \in DOMAIN jobs[runs[n].id] : jobs[runs[n].id][k]
  BY <1>1, <1>2 DEF RunsInv
<1>5. CASE NewJob(runs[n])
  <2>1. /\ ~runs[n].done /\ jobs' = [jobs EXCEPT ![runs[n].id] = Append(jobs[runs[n].id], FALSE)]
        /\ UNCHANGED <<runs, attempts, inspectVars>>
    BY <1>5 DEF NewJob
  <2>2. Append(jobs[runs[n].id], FALSE) \in Seq(BOOLEAN)
    BY <1>2, AppendProperties
  <2>3. /\ runs' = [runs EXCEPT ![n] = runs[n]] /\ runs[n].attempt <= runs[n].attempt
        /\ attempts' \in Nat /\ attempts <= attempts' /\ attempts' <= MaxAttempts
    BY <1>2, <1>3, <1>4, <2>1
  <2> QED BY <1>2, <1>4, <2>1, <2>2, <2>3, RunStep
<1>6. ASSUME NEW k \in DOMAIN jobs[runs[n].id], EndJob(runs[n], k)
      PROVE  CiInv'
  <2> DEFINE list == [jobs[runs[n].id] EXCEPT ![k] = TRUE]
  <2>1. /\ ~jobs[runs[n].id][k] /\ jobs' = [jobs EXCEPT ![runs[n].id][k] = TRUE]
        /\ UNCHANGED <<runs, attempts, inspectVars>>
    BY <1>6 DEF EndJob
  <2>2. ~runs[n].done
    BY <1>4, <2>1
  <2>3. list \in Seq(BOOLEAN)
    BY <1>2, <1>6, LenProperties, ExceptSeq
  <2>4. jobs' = [jobs EXCEPT ![runs[n].id] = list]
    BY <1>2, <1>4, <2>1
  <2>5. /\ runs' = [runs EXCEPT ![n] = runs[n]] /\ runs[n].attempt <= runs[n].attempt
        /\ attempts' \in Nat /\ attempts <= attempts' /\ attempts' <= MaxAttempts
    BY <1>2, <1>3, <1>4, <2>1
  <2> HIDE DEF list
  <2> QED BY <1>2, <1>4, <2>1, <2>2, <2>3, <2>4, <2>5, RunStep
<1> QED BY <1>5, <1>6

(* A run ends with its jobs, or begins again without any.                   *)
LEMMA RunSteps ==
  ASSUME CiInv, NEW n \in DOMAIN runs, EndRun(n) \/ RunAgain(n)
  PROVE  CiInv'
<1>1. RunsInv
  BY DEF CiInv
<1>2. /\ runs[n] \in Run /\ runs[n].attempt \in Nat /\ runs[n].id \in 1..MaxAttempts
      /\ jobs[runs[n].id] \in Seq(BOOLEAN)
  BY <1>1, RunsAre DEF Run
<1>3. /\ attempts \in Nat /\ attempts <= MaxAttempts /\ MaxAttempts \in Nat
      /\ jobs \in [1..MaxAttempts -> Seq(BOOLEAN)]
  BY <1>1, CiAssumption DEF RunsInv
<1>4. DOMAIN runs[n] = {"id", "attempt", "done"}
  BY <1>2 DEF Run
<1>5. CASE EndRun(n)
  <2>1. /\ ~runs[n].done
        /\ \A k \in DOMAIN jobs[runs[n].id] : jobs[runs[n].id][k]
        /\ runs' = [runs EXCEPT ![n].done = TRUE]
        /\ UNCHANGED <<attempts, jobs, inspectVars>>
    BY <1>5 DEF EndRun
  <2>2. PICK now : now = [runs[n] EXCEPT !.done = TRUE]
    OBVIOUS
  <2>3. now \in Run /\ now.id = runs[n].id /\ now.attempt = runs[n].attempt /\ now.done
    BY <1>2, <2>2 DEF Run
  <2>4. runs' = [runs EXCEPT ![n] = now]
    BY <2>1, <2>2
  <2>5. jobs' = [jobs EXCEPT ![runs[n].id] = jobs[runs[n].id]]
    BY <1>2, <1>3, <2>1
  <2>6. /\ runs[n].attempt <= now.attempt
        /\ attempts' \in Nat /\ attempts <= attempts' /\ attempts' <= MaxAttempts
    BY <1>2, <1>3, <2>1, <2>3
  <2> QED BY <1>2, <1>3, <2>1, <2>3, <2>4, <2>5, <2>6, RunStep
<1>6. CASE RunAgain(n)
  <2>1. /\ attempts < MaxAttempts /\ attempts' = attempts + 1
        /\ runs' = [runs EXCEPT ![n].attempt = @ + 1, ![n].done = FALSE]
        /\ jobs' = [jobs EXCEPT ![runs[n].id] = << >>]
        /\ UNCHANGED inspectVars
    BY <1>6 DEF RunAgain
  <2>2. PICK next : next = [runs[n] EXCEPT !.attempt = runs[n].attempt + 1]
    OBVIOUS
  <2>3. next \in Run /\ next.id = runs[n].id /\ next.attempt = runs[n].attempt + 1
    <3>1. runs[n].attempt + 1 \in Nat
      BY <1>2
    <3> QED BY <1>2, <2>2, <3>1 DEF Run
  <2>4. PICK now : now = [next EXCEPT !.done = FALSE]
    OBVIOUS
  <2>5. now \in Run /\ now.id = runs[n].id /\ now.attempt = runs[n].attempt + 1 /\ ~now.done
    BY <2>3, <2>4 DEF Run
  <2>6. runs' = [runs EXCEPT ![n] = now]
    BY <2>1, <2>2, <2>4
  <2>7. << >> \in Seq(BOOLEAN) /\ DOMAIN << >> = {}
    BY EmptySeq
  <2>8. /\ runs[n].attempt <= now.attempt /\ runs[n].attempt # now.attempt
        /\ attempts' \in Nat /\ attempts <= attempts' /\ attempts' <= MaxAttempts
    BY <1>2, <1>3, <2>1, <2>5
  <2> QED BY <1>3, <2>1, <2>5, <2>6, <2>7, <2>8, RunStep
<1> QED BY <1>5, <1>6

(* A run is removed: those that stay have no more behind them.              *)
LEMMA RemoveRunStep ==
  ASSUME CiInv, NEW n \in DOMAIN runs, RemoveRun(n)
  PROVE  CiInv'
<1>1. /\ runs' = RemoveAt(runs, n) /\ jobs' = [jobs EXCEPT ![runs[n].id] = << >>]
      /\ standing' = standing \ {runs[n].id}
      /\ UNCHANGED <<attempts, step, ciPage, total, rows, selected, found>>
  BY DEF RemoveRun
<1>2. RunsInv
  BY DEF CiInv
<1>3. /\ runs \in Seq(Run) /\ Len(runs) \in Nat /\ DOMAIN runs = 1..Len(runs)
      /\ attempts \in Nat /\ jobs \in [1..MaxAttempts -> Seq(BOOLEAN)]
      /\ \A k, m \in DOMAIN runs : runs[k].id = runs[m].id => k = m
      /\ \A m \in DOMAIN runs :
           /\ runs[m] \in ToSet(runs) /\ runs[m] \in Run
           /\ runs[m].id \in 1..attempts /\ runs[m].id \in 1..MaxAttempts
           /\ runs[m].done => \A k \in DOMAIN jobs[runs[m].id] : jobs[runs[m].id][k]
  BY <1>2, RunsAre DEF RunsInv
<1>4. /\ runs' \in Seq(Run) /\ Len(runs') = Len(runs) - 1
      /\ \A k \in 1..(Len(runs) - 1) : runs'[k] = IF k < n THEN runs[k] ELSE runs[k + 1]
  <2>1. /\ RemoveAt(runs, n) \in Seq(Run) /\ Len(RemoveAt(runs, n)) = Len(runs) - 1
        /\ \A k \in 1..(Len(runs) - 1) :
             RemoveAt(runs, n)[k] = IF k < n THEN runs[k] ELSE runs[k + 1]
    <3>1. runs \in Seq(Run)
      BY <1>3
    <3> QED BY <3>1, RemovedIs
  <2> QED BY <1>1, <2>1
<1>5. DOMAIN runs' = 1..(Len(runs) - 1)
  BY <1>4, LenProperties
<1>6. \A k \in DOMAIN runs' :
        \E m \in DOMAIN runs : m = (IF k < n THEN k ELSE k + 1) /\ m # n /\ runs'[k] = runs[m]
  BY <1>3, <1>4, <1>5
<1>7. \A m \in DOMAIN runs : m # n => jobs'[runs[m].id] = jobs[runs[m].id]
  BY <1>1, <1>3
<1>8. RunsInv'
  <2>1. jobs' \in [1..MaxAttempts -> Seq(BOOLEAN)]
    BY <1>1, <1>3, EmptySeq
  <2>2. ASSUME NEW k \in DOMAIN runs', NEW m \in DOMAIN runs', runs'[k].id = runs'[m].id
        PROVE  k = m
    <3>1. (IF k < n THEN k ELSE k + 1) = (IF m < n THEN m ELSE m + 1)
      BY <1>3, <1>6, <2>2
    <3>2. k \in Nat /\ m \in Nat /\ n \in Nat
      BY <1>3, <1>5
    <3> QED BY <3>1, <3>2
  <2>3. /\ \A r \in ToSet(runs') : r.id \in 1..attempts'
        /\ \A r \in ToSet(runs') : r.done => \A k \in DOMAIN jobs'[r.id] : jobs'[r.id][k]
    <3> SUFFICES ASSUME NEW r \in ToSet(runs')
                 PROVE  /\ r.id \in 1..attempts'
                        /\ r.done => \A k \in DOMAIN jobs'[r.id] : jobs'[r.id][k]
      OBVIOUS
    <3>1. PICK k \in DOMAIN runs' : r = runs'[k]
      BY DEF ToSet
    <3>2. PICK m \in DOMAIN runs : m # n /\ runs'[k] = runs[m]
      BY <1>6
    <3> QED BY <1>1, <1>3, <1>7, <3>1, <3>2
  <2>4. attempts' \in Nat /\ attempts' <= MaxAttempts
    BY <1>1, <1>2 DEF RunsInv
  <2> QED BY <1>4, <2>1, <2>2, <2>3, <2>4 DEF RunsInv
<1>9. \A r \in ToSet(runs') : \E run \in ToSet(runs) :
        /\ run.id = r.id /\ run.attempt <= r.attempt
        /\ run.attempt = r.attempt /\ run.done => r.done /\ jobs'[run.id] = jobs[run.id]
  <2> TAKE r \in ToSet(runs')
  <2>1. PICK k \in DOMAIN runs' : r = runs'[k]
    BY DEF ToSet
  <2>2. PICK m \in DOMAIN runs : m # n /\ runs'[k] = runs[m]
    BY <1>6
  <2>3. runs[m].attempt \in Nat
    BY <1>3 DEF Run
  <2> QED BY <1>3, <1>7, <2>1, <2>2, <2>3
<1>10. \A s \in standing', k \in DOMAIN runs :
         runs[k].id = s =>
           \E m \in DOMAIN runs' : runs'[m].id = s /\ Len(runs') - m <= Len(runs) - k
  <2> SUFFICES ASSUME NEW k \in DOMAIN runs, runs[k].id \in standing'
               PROVE  \E m \in DOMAIN runs' :
                        runs'[m].id = runs[k].id /\ Len(runs') - m <= Len(runs) - k
    OBVIOUS
  <2>1. k # n
    BY <1>1
  <2>2. CASE k < n
    <3>1. k \in DOMAIN runs' /\ runs'[k] = runs[k] /\ Len(runs') - k <= Len(runs) - k
      BY <1>3, <1>4, <1>5, <2>2
    <3> QED BY <3>1
  <2>3. CASE k > n
    <3>1. /\ k - 1 \in DOMAIN runs' /\ runs'[k - 1] = runs[k]
          /\ Len(runs') - (k - 1) <= Len(runs) - k
      BY <1>3, <1>4, <1>5, <2>3
    <3> QED BY <3>1
  <2> QED BY <1>3, <2>1, <2>2, <2>3
<1>11. /\ UNCHANGED <<step, ciPage, total, rows, selected, found>>
       /\ standing' \subseteq standing /\ attempts <= attempts'
  BY <1>1, <1>3
<1> QED BY <1>8, <1>9, <1>10, <1>11, WorkflowStep

(* What a listing of runs has given with the page it reads now: runs that   *)
(* are there, or were when an earlier page was read.                        *)
LEMMA RunsRead ==
  ASSUME CiInv, step \in {"runs", "again"}, NEW list, list = rows \o PageRows(runs)
  PROVE  /\ list \in Seq(Run) /\ Len(list) = Before(ciPage) + Len(PageRows(runs))
         /\ ToSet(PageRows(runs)) \subseteq ToSet(list) /\ ToSet(rows) \subseteq ToSet(list)
         /\ \A run \in ToSet(list) : GoesOn(run)
<1>1. /\ runs \in Seq(Run) /\ rows \in Seq(Run) /\ ciPage \in Nat \ {0}
      /\ Len(rows) = Before(ciPage) /\ \A run \in ToSet(rows) : GoesOn(run)
  BY DEF CiInv, RunsInv, RowsInv
<1>2. PageRows(runs) \in Seq(Run) /\ ToSet(PageRows(runs)) \subseteq ToSet(runs)
  BY <1>1, PageIs, PageSet DEF PageRows
<1>3. /\ rows \o PageRows(runs) \in Seq(Run)
      /\ Len(rows \o PageRows(runs)) = Len(rows) + Len(PageRows(runs))
  <2>1. rows \in Seq(Run) /\ PageRows(runs) \in Seq(Run)
    BY <1>1, <1>2
  <2> QED BY <2>1, ConcatProperties
<1>4. ToSet(rows \o PageRows(runs)) = ToSet(rows) \cup ToSet(PageRows(runs))
  BY <1>1, <1>2, ConcatSet
<1>5. ASSUME NEW run \in ToSet(runs)
      PROVE  GoesOn(run)
  <2>1. RunsInv
    BY DEF CiInv
  <2>2. PICK n \in DOMAIN runs : run = runs[n]
    BY DEF ToSet
  <2>3. run \in Run /\ run.id \in 1..attempts /\ attempts \in Nat
    BY <2>1, <2>2, RunsAre DEF RunsInv
  <2>4. \A now \in ToSet(runs) : now.id = run.id => now = run
    BY <2>1, <2>2 DEF RunsInv, ToSet
  <2>5. run.id <= attempts /\ run.attempt <= run.attempt
    BY <2>3 DEF Run
  <2> QED BY <2>4, <2>5 DEF GoesOn
<1>6. \A run \in ToSet(rows \o PageRows(runs)) : GoesOn(run)
  BY <1>1, <1>2, <1>4, <1>5
<1> QED BY <1>1, <1>3, <1>4, <1>6

(* The numbers of some runs, in a list of them.                             *)
LEMMA IdsAre ==
  ASSUME NEW list
  PROVE  Ids(list) = {run.id : run \in ToSet(list)}
<1>1. ASSUME NEW n \in DOMAIN list PROVE list[n].id \in {run.id : run \in ToSet(list)}
  BY DEF ToSet
<1>2. ASSUME NEW run \in ToSet(list) PROVE run.id \in Ids(list)
  BY DEF ToSet, Ids
<1> QED BY <1>1, <1>2 DEF Ids

(* A run there all along that no page has listed yet comes after all that   *)
(* have been, if the listing is as long as its first page said.             *)
LEMMA StandingRead ==
  ASSUME CiInv, step = "again", ciPage > 1 => Len(runs) = total,
         NEW list, list = rows \o PageRows(runs), NEW there,
         there = IF ciPage = 1 THEN Ids(runs) ELSE standing
  PROVE  \A s \in there \ Ids(list) :
           \E n \in DOMAIN runs : runs[n].id = s /\ n > Len(list)
<1>1. /\ runs \in Seq(Run) /\ ciPage \in Nat \ {0} /\ Len(rows) = Before(ciPage)
      /\ Before(ciPage) \in Nat
  BY PagesAdd DEF CiInv, RunsInv, RowsInv
<1>2. /\ Len(runs) \in Nat /\ DOMAIN runs = 1..Len(runs)
      /\ PageRows(runs) \in Seq(Run) /\ Len(PageRows(runs)) \in Nat
      /\ DOMAIN PageRows(runs) = 1..Len(PageRows(runs))
  BY <1>1, PageIs, LenProperties DEF PageRows
<1>3. /\ list \in Seq(Run) /\ Len(list) = Before(ciPage) + Len(PageRows(runs))
      /\ ToSet(PageRows(runs)) \subseteq ToSet(list) /\ ToSet(rows) \subseteq ToSet(list)
  BY RunsRead
<1>4. /\ \A run \in ToSet(list) : run.id \in Ids(list)
      /\ Ids(rows) \subseteq Ids(list)
  BY <1>3, IdsAre
<1>5. ASSUME NEW s \in there \ Ids(list)
      PROVE  \E n \in DOMAIN runs : runs[n].id = s /\ n > Len(list)
  <2>1. PICK n \in DOMAIN runs : runs[n].id = s /\ n > Before(ciPage)
    <3>1. CASE ciPage = 1
      <4>1. Before(ciPage) = 0
        BY <3>1, PagesAdd
      <4>2. PICK n \in DOMAIN runs : runs[n].id = s
        BY <1>5, <3>1 DEF Ids
      <4> QED BY <1>2, <4>1, <4>2
    <3>2. CASE ciPage # 1
      <4>1. ciPage > 1 /\ Len(runs) = total
        BY <1>1, <3>2
      <4>2. s \in standing \ Ids(rows)
        BY <1>4, <1>5, <3>2
      <4>3. PICK n \in DOMAIN runs : runs[n].id = s /\ Len(runs) - n < total - Len(rows)
        BY <4>1, <4>2 DEF CiInv, StandingInv
      <4> QED BY <1>1, <1>2, <4>1, <4>3
    <3> QED BY <3>1, <3>2
  <2>2. ~(n <= Len(list))
    <3> SUFFICES ASSUME n <= Len(list) PROVE FALSE
      OBVIOUS
    <3>1. n - Before(ciPage) \in 1..Len(PageRows(runs))
      BY <1>1, <1>2, <1>3, <2>1
    <3>2. PageRows(runs)[n - Before(ciPage)] = runs[Before(ciPage) + (n - Before(ciPage))]
      BY <1>1, <3>1, PageIs DEF PageRows
    <3>3. Before(ciPage) + (n - Before(ciPage)) = n
      BY <1>1, <1>2
    <3>4. runs[n] \in ToSet(PageRows(runs))
      BY <1>2, <3>1, <3>2, <3>3 DEF ToSet
    <3> QED BY <1>3, <1>4, <1>5, <2>1, <3>4
  <2> QED BY <1>2, <1>3, <2>1, <2>2
<1> QED BY <1>5

(* What a listing of the jobs has given with the page it reads now: of a run*)
(* that was seen done, its jobs in their order.                             *)
LEMMA JobsRead ==
  ASSUME CiInv, step = "jobs", SameAttempt, NEW list, list = rows \o PageRows(Listing)
  PROVE  /\ Listing = jobs[selected.id] /\ Listing \in Seq(BOOLEAN)
         /\ list \in Seq(BOOLEAN) /\ Len(list) = Before(ciPage) + Len(PageRows(Listing))
         /\ selected.done =>
              /\ \A k \in DOMAIN list : k \in DOMAIN Listing /\ list[k] = Listing[k]
              /\ \A k \in DOMAIN Listing : Listing[k]
<1>1. /\ rows \in Seq(BOOLEAN) /\ ciPage \in Nat \ {0} /\ Len(rows) = Before(ciPage)
      /\ GoesOn(selected)
      /\ selected.done => \A k \in DOMAIN rows :
           k \in DOMAIN jobs[selected.id] /\ rows[k] = jobs[selected.id][k]
  BY DEF CiInv, RowsInv, JobsInv
<1>2. PICK run \in ToSet(runs) : run.id = selected.id /\ run.attempt = selected.attempt
  BY DEF SameAttempt
<1>3. PICK n \in DOMAIN runs : run = runs[n]
  BY DEF ToSet
<1>4. Listing = jobs[selected.id] /\ Listing \in Seq(BOOLEAN)
  BY <1>2, <1>3, RunsAre DEF CiInv, Listing
<1>5. selected.done => \A k \in DOMAIN Listing : Listing[k]
  BY <1>1, <1>2, <1>4 DEF CiInv, RunsInv, GoesOn
<1>6. /\ PageRows(Listing) \in Seq(BOOLEAN)
      /\ \A k \in 1..Len(PageRows(Listing)) :
           /\ Before(ciPage) + k \in 1..Len(Listing)
           /\ PageRows(Listing)[k] = Listing[Before(ciPage) + k]
  BY <1>1, <1>4, PageIs DEF PageRows
<1>7. /\ list \in Seq(BOOLEAN) /\ Len(list) = Len(rows) + Len(PageRows(Listing))
      /\ \A i \in 1..(Len(rows) + Len(PageRows(Listing))) :
           list[i] = IF i <= Len(rows) THEN rows[i] ELSE PageRows(Listing)[i - Len(rows)]
  BY <1>1, <1>6, ConcatProperties
<1>8. /\ Len(rows) \in Nat /\ Len(PageRows(Listing)) \in Nat
      /\ DOMAIN rows = 1..Len(rows) /\ DOMAIN Listing = 1..Len(Listing)
      /\ DOMAIN list = 1..Len(list)
  BY <1>1, <1>4, <1>6, <1>7, LenProperties
<1>9. ASSUME selected.done, NEW k \in DOMAIN list
      PROVE  k \in DOMAIN Listing /\ list[k] = Listing[k]
  <2>1. CASE k <= Len(rows)
    BY <1>1, <1>4, <1>7, <1>8, <1>9, <2>1
  <2>2. CASE ~(k <= Len(rows))
    <3>1. k - Len(rows) \in 1..Len(PageRows(Listing)) /\ Len(rows) + (k - Len(rows)) = k
      BY <1>7, <1>8, <2>2
    <3> QED BY <1>1, <1>6, <1>7, <1>8, <2>2, <3>1
  <2> QED BY <2>1, <2>2
<1> QED BY <1>1, <1>4, <1>5, <1>7, <1>9

(* A page that is not the last.                                             *)
LEMMA ReadPageStep ==
  ASSUME CiInv, ReadPage
  PROVE  CiInv'
<1>1. /\ step \in {"runs", "jobs", "again"}
      /\ step = "jobs" => SameAttempt
      /\ ciPage > 1 => Len(Listing) = total
      /\ Len(PageRows(Listing)) = PerPage
      /\ total' = Len(Listing) /\ rows' = rows \o PageRows(Listing)
      /\ ciPage' = ciPage + 1
      /\ standing' = IF step = "again" /\ ciPage = 1 THEN Ids(runs) ELSE standing
      /\ UNCHANGED <<worldVars, step, selected, found>>
  BY DEF ReadPage, Expected
<1>2. UNCHANGED <<runs, attempts, jobs>>
  BY <1>1 DEF worldVars
<1>3. RunsInv'
  BY <1>2 DEF CiInv, RunsInv
<1>4. /\ ciPage \in Nat \ {0} /\ Before(ciPage') = Before(ciPage) + PerPage
      /\ ciPage' \in Nat \ {0}
  BY <1>1, PagesAdd DEF CiInv, RowsInv
<1>5. \A run : GoesOn(run)' <=> GoesOn(run)
  BY <1>2 DEF GoesOn
<1>6. (step \in {"jobs", "again", "exact", "found"} => GoesOn(selected))'
  BY <1>1, <1>2 DEF CiInv, RowsInv, GoesOn
<1>7. SameAttempt' <=> SameAttempt
  BY <1>1, <1>2 DEF SameAttempt
<1>8. CASE step = "jobs"
  <2> DEFINE list == rows \o PageRows(Listing)
  <2>1. /\ Listing = jobs[selected.id] /\ Listing \in Seq(BOOLEAN)
        /\ list \in Seq(BOOLEAN) /\ Len(list) = Before(ciPage) + Len(PageRows(Listing))
        /\ selected.done =>
             \A k \in DOMAIN list : k \in DOMAIN Listing /\ list[k] = Listing[k]
    BY <1>1, <1>8, JobsRead
  <2>2. total' \in Nat
    BY <1>1, <2>1, LenProperties
  <2>3. rows' = list
    BY <1>1
  <2> HIDE DEF list
  <2>4. RowsInv'
    <3>1. Len(rows') = Before(ciPage')
      BY <1>1, <1>4, <2>1, <2>3
    <3> QED BY <1>1, <1>4, <1>6, <1>8, <2>2, <3>1 DEF CiInv, RowsInv
  <2>5. JobsInv'
    BY <1>1, <1>2, <1>8, <2>1, <2>3 DEF JobsInv
  <2>6. StandingInv'
    BY <1>1, <1>8 DEF StandingInv
  <2> QED BY <1>3, <2>4, <2>5, <2>6 DEF CiInv
<1>9. CASE step \in {"runs", "again"}
  <2>1. Listing = runs
    BY <1>9 DEF Listing
  <2> DEFINE list == rows \o PageRows(runs)
  <2>2. /\ list \in Seq(Run) /\ Len(list) = Before(ciPage) + Len(PageRows(runs))
        /\ \A run \in ToSet(list) : GoesOn(run)
    BY <1>9, RunsRead
  <2>3. rows' = list /\ Len(runs) \in Nat
    BY <1>1, <1>3, <2>1, LenProperties DEF CiInv, RunsInv
  <2>4. step = "again" =>
          \A s \in standing' \ Ids(list) : \E n \in DOMAIN runs : runs[n].id = s /\ n > Len(list)
    <3>1. step = "again" => standing' = IF ciPage = 1 THEN Ids(runs) ELSE standing
      BY <1>1
    <3> QED BY <1>1, <2>1, <3>1, StandingRead
  <2> HIDE DEF list
  <2>5. RowsInv'
    <3>1. Len(rows') = Before(ciPage')
      BY <1>1, <1>4, <2>1, <2>2, <2>3
    <3>2. total' \in Nat
      BY <1>1, <2>1, <2>3
    <3>3. (\A run \in ToSet(rows) : GoesOn(run))'
      BY <1>5, <2>2, <2>3 DEF GoesOn
    <3> QED BY <1>1, <1>4, <1>6, <1>9, <2>2, <2>3, <3>1, <3>2, <3>3 DEF CiInv, RowsInv
  <2>6. JobsInv'
    BY <1>1, <1>2, <1>7, <1>9 DEF CiInv, JobsInv
  <2>7. StandingInv'
    <3>1. ASSUME step = "again", NEW s \in standing' \ Ids(rows')
          PROVE  \E n \in DOMAIN runs' :
                   runs'[n].id = s /\ Len(runs') - n < total' - Len(rows')
      <4>1. PICK n \in DOMAIN runs : runs[n].id = s /\ n > Len(list)
        BY <2>3, <2>4, <3>1
      <4>2. n \in Nat /\ Len(list) \in Nat
        BY <2>2, LenProperties DEF CiInv, RunsInv
      <4>3. total' = Len(runs)
        BY <1>1, <2>1
      <4> QED BY <1>2, <2>3, <4>1, <4>2, <4>3
    <3> QED BY <1>1, <1>9, <3>1 DEF StandingInv
  <2> QED BY <1>3, <2>5, <2>6, <2>7 DEF CiInv
<1> QED BY <1>1, <1>8, <1>9

(* The first listing is complete: the newest run is selected.               *)
LEMMA RunsListedStep ==
  ASSUME CiInv, RunsListed
  PROVE  CiInv'
<1> DEFINE list == rows \o PageRows(runs)
<1>1. /\ step = "runs" /\ rows' = << >> /\ ciPage' = 1 /\ total' = 0
      /\ IF list = << >>
         THEN step' = "not_found" /\ selected' = selected
         ELSE step' = "jobs" /\ selected' = Newest(list)
      /\ UNCHANGED <<worldVars, found, standing>>
  BY DEF RunsListed, Completes
<1>2. UNCHANGED <<runs, attempts, jobs>>
  BY <1>1 DEF worldVars
<1>3. RunsInv' /\ attempts \in Nat
  BY <1>2 DEF CiInv, RunsInv
<1>4. list \in Seq(Run) /\ \A run \in ToSet(list) : GoesOn(run)
  BY <1>1, RunsRead
<1> HIDE DEF list
<1>5. << >> \in Seq(BOOLEAN) /\ Len(<< >>) = 0 /\ DOMAIN << >> = {}
  BY EmptySeq
<1>6. CASE list = << >>
  <2>1. step' = "not_found" /\ selected' = selected
    BY <1>1, <1>6
  <2>2. RowsInv' /\ JobsInv' /\ StandingInv'
    BY <1>1, <2>1 DEF CiInv, RowsInv, JobsInv, StandingInv
  <2> QED BY <1>3, <2>2 DEF CiInv
<1>7. CASE list # << >>
  <2>1. step' = "jobs" /\ selected' = Newest(list)
    BY <1>1, <1>7
  <2>2. \A run \in ToSet(list) : run.id <= attempts
    BY <1>4 DEF GoesOn
  <2>3. Newest(list) \in ToSet(list)
    BY <1>3, <1>4, <1>7, <2>2, NewestIs
  <2>4. selected' \in Run
    BY <1>4, <2>1, <2>3, SetOfList
  <2>5. GoesOn(selected)'
    <3>1. GoesOn(Newest(list))
      BY <1>4, <2>3
    <3> QED BY <1>2, <2>1, <3>1 DEF GoesOn
  <2>6. RowsInv' /\ JobsInv' /\ StandingInv'
    BY <1>1, <1>5, <2>1, <2>4, <2>5, PagesAdd DEF RowsInv, JobsInv, StandingInv
  <2> QED BY <1>3, <2>6 DEF CiInv
<1> QED BY <1>6, <1>7

(* All the jobs of the selected attempt have been read.                     *)
LEMMA JobsListedStep ==
  ASSUME CiInv, JobsListed
  PROVE  CiInv'
<1> DEFINE list == rows \o PageRows(Listing)
<1>1. /\ step = "jobs" /\ SameAttempt /\ Len(list) = Len(Listing)
      /\ ciPage' = 1 /\ total' = 0 /\ found' = list /\ rows' = << >> /\ step' = "again"
      /\ UNCHANGED <<worldVars, selected, standing>>
  BY DEF JobsListed, Completes
<1>2. UNCHANGED <<runs, attempts, jobs>>
  BY <1>1 DEF worldVars
<1>3. RunsInv'
  BY <1>2 DEF CiInv, RunsInv
<1>4. /\ Listing = jobs[selected.id] /\ Listing \in Seq(BOOLEAN) /\ list \in Seq(BOOLEAN)
      /\ selected.done =>
           /\ \A k \in DOMAIN list : k \in DOMAIN Listing /\ list[k] = Listing[k]
           /\ \A k \in DOMAIN Listing : Listing[k]
  BY <1>1, JobsRead
<1> HIDE DEF list
<1>5. selected.done => list = Listing
  <2>1. DOMAIN list = 1..Len(list)
    BY <1>4, LenProperties
  <2> QED BY <1>1, <1>4, <2>1, SeqEqual
<1>6. JobsInv'
  <2>1. selected.done =>
          (\A k \in DOMAIN found' : found'[k]) /\ found' = jobs'[selected'.id]
    BY <1>1, <1>2, <1>4, <1>5
  <2> QED BY <1>1, <2>1 DEF JobsInv
<1>7. << >> \in Seq(Run) /\ Len(<< >>) = 0 /\ ToSet(<< >>) = {}
  BY EmptySeq DEF ToSet
<1>8. GoesOn(selected)' /\ selected' \in Run
  BY <1>1, <1>2 DEF CiInv, RowsInv, GoesOn
<1>9. (\A run \in ToSet(rows) : GoesOn(run))'
  BY <1>1, <1>7
<1>10. RowsInv'
  BY <1>1, <1>7, <1>8, <1>9, PagesAdd DEF RowsInv
<1>11. StandingInv'
  BY <1>1 DEF StandingInv
<1> QED BY <1>3, <1>6, <1>10, <1>11 DEF CiInv

(* The second listing is complete, and what was selected is still newest.   *)
LEMMA RunsListedAgainStep ==
  ASSUME CiInv, RunsListedAgain
  PROVE  CiInv'
<1> DEFINE list == rows \o PageRows(runs)
<1>1. /\ step = "again"
      /\ ciPage > 1 => Len(runs) = total
      /\ Len(list) = Len(runs) /\ list # << >> /\ Newest(list) = selected
      /\ ciPage' = 1 /\ total' = 0 /\ rows' = list /\ step' = "exact"
      /\ standing' = IF ciPage = 1 THEN Ids(runs) ELSE standing
      /\ UNCHANGED <<worldVars, selected, found>>
  BY DEF RunsListedAgain, Completes, Expected, Listing
<1>2. UNCHANGED <<runs, attempts, jobs>>
  BY <1>1 DEF worldVars
<1>3. RunsInv' /\ attempts \in Nat /\ runs \in Seq(Run)
  BY <1>2 DEF CiInv, RunsInv
<1>4. list \in Seq(Run) /\ \A run \in ToSet(list) : GoesOn(run)
  BY <1>1, RunsRead
<1>5. \A s \in standing' \ Ids(list) : \E n \in DOMAIN runs : runs[n].id = s /\ n > Len(list)
  BY <1>1, StandingRead
<1> HIDE DEF list
<1>6. standing' \subseteq Ids(list)
  <2>1. \A n \in DOMAIN runs : ~(n > Len(list))
    BY <1>1, <1>3, LenProperties
  <2> QED BY <1>5, <2>1
<1>7. \A id \in Ids(list) : id <= selected.id
  <2>1. \A run \in ToSet(list) : run.id <= attempts
    BY <1>4 DEF GoesOn
  <2>2. \A run \in ToSet(list) : run.id <= selected.id
    BY <1>1, <1>3, <1>4, <2>1, NewestIs
  <2> QED BY <2>2, IdsAre
<1>8. GoesOn(selected)' /\ selected' \in Run
  BY <1>1, <1>2 DEF CiInv, RowsInv, GoesOn
<1>9. RowsInv'
  BY <1>1, <1>4, <1>8 DEF RowsInv
<1>10. SameAttempt' <=> SameAttempt
  BY <1>1, <1>2 DEF SameAttempt
<1>11. JobsInv'
  BY <1>1, <1>2, <1>10 DEF CiInv, JobsInv
<1>12. StandingInv'
  BY <1>1, <1>6, <1>7 DEF StandingInv
<1> QED BY <1>3, <1>9, <1>11, <1>12 DEF CiInv

(* The selected run is read once more; or another inspection begins.        *)
LEMMA LastSteps ==
  ASSUME CiInv, ReadExact \/ InspectAnew
  PROVE  CiInv'
<1>1. UNCHANGED <<runs, attempts, jobs>>
  BY DEF ReadExact, InspectAnew, worldVars
<1>2. RunsInv'
  BY <1>1 DEF CiInv, RunsInv
<1>3. CASE ReadExact
  <2>1. /\ step = "exact" /\ step' = "found"
        /\ UNCHANGED <<ciPage, total, rows, selected, found, standing>>
    BY <1>3 DEF ReadExact
  <2>2. (SameAttempt' <=> SameAttempt) /\ GoesOn(selected)'
    BY <1>1, <2>1 DEF CiInv, RowsInv, SameAttempt, GoesOn
  <2>3. RowsInv'
    BY <2>1, <2>2 DEF CiInv, RowsInv
  <2>4. JobsInv'
    BY <1>1, <2>1, <2>2 DEF CiInv, JobsInv
  <2>5. StandingInv'
    BY <2>1 DEF CiInv, StandingInv, Ids
  <2> QED BY <1>2, <2>3, <2>4, <2>5 DEF CiInv
<1>4. CASE InspectAnew
  <2>1. /\ step' = "runs" /\ ciPage' = 1 /\ total' = 0 /\ rows' = << >>
        /\ selected' = NoRun /\ found' = << >> /\ standing' = {}
    BY <1>4 DEF InspectAnew
  <2>2. /\ << >> \in Seq(Run) /\ Len(<< >>) = 0 /\ ToSet(<< >>) = {} /\ NoRun \in Run
    BY EmptySeq DEF ToSet, NoRun, Run
  <2>3. (\A run \in ToSet(rows) : GoesOn(run))'
    BY <2>1, <2>2
  <2>4. RowsInv'
    BY <2>1, <2>2, <2>3, PagesAdd DEF RowsInv
  <2>5. JobsInv' /\ StandingInv'
    BY <2>1 DEF JobsInv, StandingInv
  <2> QED BY <1>2, <2>4, <2>5 DEF CiInv
<1> QED BY <1>3, <1>4

(* Every step keeps the invariant.                                          *)
LEMMA CiSteps == CiInv /\ [CiNext]_ciVars => CiInv'
<1> SUFFICES ASSUME CiInv, [CiNext]_ciVars PROVE CiInv'
  OBVIOUS
<1>1. CASE UNCHANGED ciVars
  <2>1. /\ UNCHANGED <<runs, attempts, jobs>>
        /\ UNCHANGED <<step, ciPage, total, rows, selected, found, standing>>
    BY <1>1 DEF ciVars, worldVars, inspectVars
  <2>2. (SameAttempt' <=> SameAttempt) /\ \A run : GoesOn(run)' <=> GoesOn(run)
    BY <2>1 DEF SameAttempt, GoesOn
  <2>3. RunsInv' /\ StandingInv'
    BY <2>1 DEF CiInv, RunsInv, StandingInv, Ids
  <2>4. JobsInv'
    BY <2>1, <2>2 DEF CiInv, JobsInv
  <2>5. RowsInv'
    BY <2>1 DEF CiInv, RowsInv, GoesOn
  <2> QED BY <2>3, <2>4, <2>5 DEF CiInv
<1>2. CASE CiNext
  BY <1>2, NewRunStep, JobSteps, RunSteps, RemoveRunStep, ReadPageStep, RunsListedStep,
     JobsListedStep, RunsListedAgainStep, LastSteps
     DEF CiNext
<1> QED BY <1>1, <1>2

(* Every run there was all along since the last listing began is in the     *)
(* result, and none of them is newer than the run reported, however the     *)
(* pages shifted meanwhile (inspect_ci, actions_ci_inspect.py:399-452).     *)
THEOREM NewestReported == CiSpec => []FoundIsNewest
<1>1. CiInv => FoundIsNewest
  BY DEF CiInv, StandingInv, FoundIsNewest
<1> QED BY <1>1, CiStarts, CiSteps, PTL DEF CiSpec

(* A run reported as completed comes with all the jobs of its attempt, all  *)
(* of them done (the same lines).                                           *)
THEOREM FinalJobsReported == CiSpec => []CompletedHasFinalJobs
<1>1. CiInv => CompletedHasFinalJobs
  BY DEF CiInv, JobsInv, CompletedHasFinalJobs
<1> QED BY <1>1, CiStarts, CiSteps, PTL DEF CiSpec
=============================================================================
