-------------------------- MODULE CacheFileProofs ---------------------------
(***************************************************************************)
(* What the map of CacheFile is worth, for every size of a page and of the *)
(* file: unless a write or the disk fails it, a page that is marked was    *)
(* stored; and a read of whole pages then returns stored bytes only.       *)
(***************************************************************************)
EXTENDS CacheFile, TLAPS

Sizes == /\ PageSize \in Nat \ {0}
         /\ FileSize \in Nat
         /\ Request \subseteq Nat \ {0}

-----------------------------------------------------------------------------
(* The arithmetic of pages. *)

LEMMA Multiple ==
    ASSUME NEW n \in Nat \ {0}, NEW k \in Int, NEW l \in Int, k < l
    PROVE  n * k + n <= n * l
<1>1. l - k >= 1
  OBVIOUS
<1>2. n * (l - k) >= n
  BY <1>1
<1>3. n * (l - k) = n * l - n * k
  OBVIOUS
<1> QED BY <1>2, <1>3

LEMMA DivMod ==
    ASSUME NEW n \in Nat \ {0}, NEW x \in Nat
    PROVE  x \div n \in Nat /\ x = n * (x \div n) + (x % n) /\ x % n \in 0 .. n - 1
  OBVIOUS

LEMMA ModOfMultiple ==
    ASSUME NEW n \in Nat \ {0}, NEW k \in Nat
    PROVE  (n * k) % n = 0
<1> DEFINE x == n * k
<1>1. x \in Nat
  OBVIOUS
<1>2. x \div n \in Nat /\ x = n * (x \div n) + (x % n) /\ x % n \in 0 .. n - 1
  BY <1>1, DivMod
<1> HIDE DEF x
<1>3. CASE k < x \div n
  BY <1>1, <1>2, <1>3, Multiple DEF x
<1>4. CASE x \div n < k
  BY <1>1, <1>2, <1>4, Multiple DEF x
<1>5. CASE x \div n = k
  BY <1>1, <1>2, <1>5 DEF x
<1> QED BY <1>2, <1>3, <1>4, <1>5 DEF x

\* A page begins at a multiple of the page size, at or less than a page before its bytes.
LEMMA PageOfByte ==
    ASSUME Sizes, NEW x \in Nat
    PROVE  /\ PageOf(x) \in Nat /\ PageOf(x) % PageSize = 0
           /\ PageOf(x) <= x /\ x < PageOf(x) + PageSize
<1>1. x \div PageSize \in Nat /\ x = PageSize * (x \div PageSize) + (x % PageSize)
      /\ x % PageSize \in 0 .. PageSize - 1
  BY DivMod DEF Sizes
<1>2. PageOf(x) = PageSize * (x \div PageSize)
  BY <1>1 DEF PageOf, Sizes
<1>3. PageOf(x) % PageSize = 0
  BY <1>1, <1>2, ModOfMultiple DEF Sizes
<1> QED BY <1>1, <1>2, <1>3 DEF PageOf, Sizes

LEMMA PagesApart ==
    ASSUME Sizes, NEW p \in Nat, NEW q \in Nat, p % PageSize = 0, q % PageSize = 0, p < q
    PROVE  p + PageSize <= q
<1> DEFINE k == p \div PageSize
           l == q \div PageSize
<1>1. k \in Nat /\ p = PageSize * k /\ l \in Nat /\ q = PageSize * l
  BY DivMod DEF Sizes
<1> HIDE DEF k, l
<1>2. CASE k < l
  BY <1>1, <1>2, Multiple DEF Sizes
<1>3. CASE l < k
  BY <1>1, <1>3, Multiple DEF Sizes
<1>4. CASE k = l
  BY <1>1, <1>4
<1> QED BY <1>1, <1>2, <1>3, <1>4

LEMMA PagesMonotone ==
    ASSUME Sizes, NEW x \in Nat, NEW y \in Nat, x <= y
    PROVE  PageOf(x) <= PageOf(y)
  BY PageOfByte, PagesApart DEF Sizes

LEMMA PagesAdd ==
    ASSUME Sizes, NEW p \in Nat, NEW q \in Nat, p % PageSize = 0, q % PageSize = 0
    PROVE  (p + q) % PageSize = 0
<1> DEFINE k == p \div PageSize
           l == q \div PageSize
<1>1. k \in Nat /\ p = PageSize * k /\ l \in Nat /\ q = PageSize * l
  BY DivMod DEF Sizes
<1> HIDE DEF k, l
<1>2. p + q = PageSize * (k + l)
  BY <1>1 DEF Sizes
<1> QED BY <1>1, <1>2, ModOfMultiple DEF Sizes

-----------------------------------------------------------------------------
(* The invariant: pages that are marked, now or in the file of the map, are stored; and so
   is what the last write's page holds before the end of that write, because the next
   write counts it in. *)

Whole(p) == \A x \in p .. p + PageSize - 1 : x \in stored

\* What the map marks can be read: now, and by the next play from the file of the map.
MapIsStored == \A p \in map \cup cache_map : Whole(p)

MapInv == /\ TypeOK
          /\ "data" \in unlinked => "map" \in unlinked
          /\ MapIsStored
          /\ \A x \in PageOf(last_write_off) .. last_write_off - 1 : x \in stored

\* A read of a part of a page does no harm to the map; the other three faults do.
ReadFault == Fault \subseteq {"read of a part"}

LEMMA CacheInit ==
    ASSUME Sizes, Init
    PROVE  MapInv /\ ReadIsStored
<1>1. PageOf(0) \in Nat
  BY PageOfByte
<1>2. TypeOK
  <2>1. open \in BOOLEAN
    BY DEF Init
  <2>2. stored \subseteq Byte /\ map \subseteq Byte /\ cache_map \subseteq Byte /\ got \subseteq Byte
    BY DEF Init
  <2>3. unlinked \subseteq {"data", "map"} /\ last_write_off \in 0 .. FileSize
    BY DEF Sizes, Init
  <2> QED BY <2>1, <2>2, <2>3 DEF TypeOK
<1>3. \A x \in PageOf(last_write_off) .. last_write_off - 1 : x \in stored
  BY <1>1 DEF Init
<1> QED BY <1>2, <1>3 DEF Init, MapInv, MapIsStored, ReadIsStored

\* A write marks pages that it completes, counting what the write before has stored.
LEMMA WriteStep ==
    ASSUME Sizes, ReadFault, MapInv,
           NEW off \in 0 .. FileSize, NEW size \in Request, NEW len \in 0 .. size,
           Write(off, size, len)
    PROVE  MapInv' /\ ReadIsStored'
<1>0. "short write" \notin Fault /\ "seek into a page" \notin Fault
  BY DEF ReadFault
<1>1. /\ off \in Nat /\ size \in Nat \ {0} /\ len = size /\ off + size <= FileSize
      /\ off % PageSize = 0 \/ off = last_write_off
      /\ PageSize \in Nat \ {0} /\ FileSize \in Nat
  <2>1. /\ off + size <= FileSize /\ len = size
        /\ off % PageSize = 0 \/ off = last_write_off
    BY <1>0 DEF Write
  <2>2. off \in Nat /\ size \in Nat \ {0} /\ PageSize \in Nat \ {0} /\ FileSize \in Nat
    BY DEF Sizes
  <2> QED BY <2>1, <2>2
<1>2. /\ stored' = stored \cup (off .. off + size - 1)
      /\ cache_map' = cache_map \cup Marked(off, size)
      /\ last_write_off' = off + size
      /\ got' = {} /\ UNCHANGED <<map, unlinked, open>>
  BY <1>1 DEF Write
<1>3. /\ PageOf(off) \in Nat /\ PageOf(off) <= off
      /\ PageOf(off + size) \in Nat /\ PageOf(off) <= PageOf(off + size)
  <2>1. off + size \in Nat /\ off <= off + size
    BY <1>1
  <2> QED BY <1>1, <2>1, PageOfByte, PagesMonotone
<1>4. ASSUME NEW x \in PageOf(off) .. off + size - 1
      PROVE  x \in stored'
  <2>1. CASE off % PageSize = 0
    BY <1>1, <1>2, <2>1 DEF PageOf
  <2>2. CASE off = last_write_off
    BY <1>1, <1>2, <1>3, <2>2 DEF MapInv
  <2> QED BY <1>1, <2>1, <2>2
<1>5. Marked(off, size) = {p \in PageOf(off) .. off + size - PageSize : p % PageSize = 0}
  <2>1. off % PageSize = 0 => PageOf(off) = off
    BY <1>1 DEF PageOf
  <2> QED BY <1>1, <2>1 DEF Marked
<1>6. ASSUME NEW p \in Marked(off, size)
      PROVE  Whole(p)' /\ p \in Byte
  BY <1>1, <1>3, <1>4, <1>5 DEF Whole, Byte
<1>7. ASSUME NEW p \in map \cup cache_map
      PROVE  Whole(p)'
  BY <1>2 DEF MapInv, MapIsStored, Whole
<1>8. \A x \in PageOf(last_write_off') .. last_write_off' - 1 : x \in stored'
  BY <1>1, <1>2, <1>3, <1>4
<1>9. TypeOK'
  <2>1. stored' \subseteq Byte
    BY <1>1, <1>2 DEF MapInv, TypeOK, Byte
  <2>2. cache_map' \subseteq Byte
    BY <1>2, <1>6 DEF MapInv, TypeOK
  <2>3. last_write_off' \in 0 .. FileSize
    BY <1>1, <1>2
  <2>4. got' \subseteq Byte
    BY <1>2
  <2> QED BY <1>2, <2>1, <2>2, <2>3, <2>4 DEF MapInv, TypeOK
<1> QED BY <1>2, <1>6, <1>7, <1>8, <1>9 DEF MapInv, MapIsStored, ReadIsStored, PageOf

LEMMA ReadStep ==
    ASSUME Sizes, MapInv, NEW off \in 0 .. FileSize, NEW size \in Request, Read(off, size)
    PROVE  MapInv'
<1>1. UNCHANGED <<stored, map, unlinked, open, cache_map, last_write_off>>
  BY DEF Read
<1>2. ASSUME NEW x \in got' PROVE x \in Byte
  <2>1. x \in off .. off + size - 1 /\ \E y \in stored : x <= y
    BY DEF Read
  <2> QED BY <2>1 DEF Sizes, MapInv, TypeOK, Byte
<1> QED BY <1>1, <1>2 DEF MapInv, MapIsStored, TypeOK, Whole, PageOf

\* A read of whole pages returns marked pages only.
LEMMA ReadHits ==
    ASSUME Sizes, Fault = {}, MapInv, NEW off \in 0 .. FileSize, NEW size \in Request,
           Read(off, size)
    PROVE  ReadIsStored'
<1>1. /\ off \in Nat /\ size \in Nat \ {0}
      /\ off % PageSize = 0 /\ size % PageSize = 0
      /\ PageSize \in Nat \ {0} /\ FileSize \in Nat
      /\ PageOf(off) = off
  BY DEF Sizes, Read, PageOf
<1>2. UNCHANGED <<stored, map, unlinked, open, cache_map, last_write_off>>
  BY DEF Read
<1>3. ASSUME NEW x \in got'
      PROVE  x \in stored
  <2>1. x \in off .. off + size - 1 /\ (Enough(off, size) \/ Valid(off, x))
    BY <1>3 DEF Read
  <2>2. /\ x \in Nat /\ PageOf(x) \in Nat /\ PageOf(x) % PageSize = 0
        /\ PageOf(x) <= x /\ x < PageOf(x) + PageSize
        /\ off <= PageOf(x)
    BY <1>1, <2>1, PageOfByte, PagesMonotone
  <2>3. PageOf(x) \in cache_map
    <3>1. CASE Enough(off, size)
      <4>1. off + size \in Nat /\ (off + size) % PageSize = 0
        BY <1>1, PagesAdd
      <4>2. PageOf(x) + PageSize <= off + size
        BY <1>1, <2>1, <2>2, <4>1, PagesApart
      <4> QED BY <1>1, <2>2, <3>1, <4>2 DEF Enough
    <3>2. CASE Valid(off, x)
      BY <1>1, <2>2, <3>2 DEF Valid
    <3> QED BY <2>1, <3>1, <3>2
  <2> QED BY <1>1, <2>2, <2>3 DEF MapInv, MapIsStored, Whole
<1> QED BY <1>2, <1>3 DEF ReadIsStored

\* The map is kept from one play to the next, and with it the data.
LEMMA OtherStep ==
    ASSUME Sizes, ReadFault, MapInv,
           \/ Open \/ Close \/ UNCHANGED vars
           \/ \E files \in {{"data"}, {"map"}, {"data", "map"}} : Delete(files)
    PROVE  MapInv' /\ (ReadIsStored => ReadIsStored')
<1>1. CASE Open
  <2>1. /\ map' = cache_map' /\ last_write_off' = 0
        /\ unlinked' = {} /\ open' = TRUE /\ got' = {}
    BY <1>1 DEF Open
  <2>2. /\ stored' \subseteq Byte /\ cache_map' \subseteq map
        /\ cache_map' = {} \/ stored' = stored
    BY <1>1 DEF Open, MapInv, TypeOK
  <2>3. TypeOK'
    BY <2>1, <2>2 DEF Sizes, MapInv, TypeOK
  <2>4. \A p \in map' \cup cache_map' : Whole(p)'
    BY <2>1, <2>2 DEF MapInv, MapIsStored, Whole
  <2>5. \A x \in PageOf(last_write_off') .. last_write_off' - 1 : x \in stored'
    BY <2>1, PageOfByte DEF Sizes, PageOf
  <2> QED BY <2>1, <2>3, <2>4, <2>5 DEF MapInv, MapIsStored, ReadIsStored, PageOf
<1>2. CASE Close
  BY <1>2 DEF Close, MapInv, MapIsStored, TypeOK, Whole, ReadIsStored, PageOf
<1>3. ASSUME NEW files \in {{"data"}, {"map"}, {"data", "map"}}, Delete(files)
      PROVE  MapInv' /\ ReadIsStored'
  BY <1>3 DEF Delete, ReadFault, MapInv, MapIsStored, TypeOK, Whole, ReadIsStored, PageOf
<1>4. CASE UNCHANGED vars
  BY <1>4 DEF vars, MapInv, MapIsStored, TypeOK, Whole, ReadIsStored, PageOf
<1> QED BY <1>1, <1>2, <1>3, <1>4

THEOREM MapInductive == ASSUME Sizes, ReadFault
                        PROVE  Spec => []MapInv
<1>1. MapInv /\ [Next]_vars => MapInv'
  BY WriteStep, ReadStep, OtherStep DEF Next
<1> QED BY <1>1, CacheInit, PTL DEF Spec

\* When plays write from the start of a page on, the disk does not fill up and no data file
\* is deleted alone, every page that is marked was stored whole, in this play and in the
\* next, whatever is read: a read of a part of a page returns wrong bytes, but spoils nothing.
THEOREM MapHonest == ASSUME Sizes, ReadFault
                     PROVE  Spec => []MapIsStored
<1>1. MapInv => MapIsStored
  BY DEF MapInv
<1> QED BY <1>1, MapInductive, PTL

\* When in addition nothing but whole pages is read, a cache hit returns only bytes that
\* were stored, over every sequence of plays and for every size.
THEOREM CacheHonest == ASSUME Sizes, Fault = {}
                       PROVE  Spec => []ReadIsStored
<1>1. ReadFault
  BY DEF ReadFault
<1>2. MapInv /\ ReadIsStored /\ [Next]_vars => ReadIsStored'
  BY <1>1, WriteStep, ReadHits, OtherStep DEF Next
<1> QED BY <1>1, <1>2, CacheInit, MapInductive, PTL DEF Spec
=============================================================================
