----------------------------- MODULE CacheFile ------------------------------
(***************************************************************************)
(* The cache of a stream on disk: a data file, a map of the pages of it    *)
(* that were downloaded, and the file that keeps the map from one play to  *)
(* the next (amplayer/player/player_cache_file.c, called by                *)
(* player_cache_mgt.c).  The loop buffer asks it before it asks the        *)
(* network, and writes to it what the network has returned.                *)
(*                                                                         *)
(* One play of a stream at a time.  A byte is its position.  Names,        *)
(* checksums and the accounting of the directory are left out: the map     *)
(* that is read is the map that was written, or an empty one.              *)
(***************************************************************************)
EXTENDS Integers

CONSTANTS PageSize,     \* CACHE_PAGE_SIZE
          FileSize,     \* file_size
          Request,      \* sizes of reads and writes
          Fault         \* what may happen, of Faults

\* Each of these is enough to have a byte read that was never stored.
Faults == {"seek into a page",      \* a write begins there
           "read of a part",        \* of a page, where the ring has no more room
           "short write",           \* the disk is full
           "data deleted"}          \* the data file, as the oldest file of the directory

VARIABLES stored,           \* bytes that the data file holds; a read sees a hole as zeros
          map,              \* what the file of the map holds: pages, by their first byte
          unlinked,         \* which of the two files were deleted since they were opened
          open,
          cache_map,        \* pages that are marked as downloaded
          last_write_off,   \* where the last write has ended
          got               \* bytes that the last step has read

vars == <<stored, map, unlinked, open, cache_map, last_write_off, got>>

Byte == 0 .. FileSize - 1

\* The first byte of the page that holds x.
PageOf(x) == x - (x % PageSize)

Init == /\ stored = {} /\ map = {} /\ unlinked = {}
        /\ open = FALSE
        /\ cache_map = {} /\ last_write_off = 0
        /\ got = {}

\* cachefile_open.  The data file is not compared with the map: the test for that is made
\* only if lstat fails on the file that was just opened.
Open == /\ ~open
        /\ open' = TRUE
        /\ stored' = IF "data" \in unlinked THEN {} ELSE stored
        /\ cache_map' = IF "map" \in unlinked THEN {} ELSE map
        /\ map' = cache_map'
        /\ last_write_off' = 0
        /\ unlinked' = {}
        /\ got' = {}

\* cachefile_close
Close == /\ open
         /\ open' = FALSE
         /\ map' = cache_map
         /\ got' = {}
         /\ UNCHANGED <<stored, unlinked, cache_map, last_write_off>>

\* mgt_dir_cache_files makes room for another stream: the oldest file goes, or all do.
Delete(files) == /\ files = {"data"} => "data deleted" \in Fault
                 /\ unlinked' = unlinked \cup files
                 /\ got' = {}
                 /\ UNCHANGED <<stored, map, open, cache_map, last_write_off>>

\* The pages that a write of len bytes at off marks: those of len bytes from the start of
\* off's page, when the last write has ended at off, or else from the start of the next.
Marked(off, len) ==
    LET pageoff == off % PageSize
        from == IF pageoff = 0 \/ last_write_off = off THEN PageOf(off)
                                                       ELSE PageOf(off) + PageSize
        upto == IF last_write_off = off THEN off + len ELSE from + len
    IN  {p \in from .. upto - PageSize : p % PageSize = 0}

\* cachefile_write, which stores len of size bytes.
Write(off, size, len) ==
    /\ open
    /\ off + size <= FileSize
    /\ len = size \/ "short write" \in Fault
    /\ off % PageSize = 0 \/ off = last_write_off \/ "seek into a page" \in Fault
    /\ stored' = stored \cup (off .. off + len - 1)
    /\ cache_map' = cache_map \cup Marked(off, len)
    /\ last_write_off' = off + size
    /\ got' = {}
    /\ UNCHANGED <<map, unlinked, open>>

\* map_searce_valid_bytes counts the pages from off's page on; as many as size has whole
\* pages are enough for all of it.
Enough(off, size) ==
    \A p \in PageOf(off) .. PageOf(off) + size - PageSize : p % PageSize = 0 => p \in cache_map

Valid(off, x) == \A p \in PageOf(off) .. x : p % PageSize = 0 => p \in cache_map

\* cachefile_read: of those bytes the ones up to the end of the data file.
Read(off, size) ==
    /\ open
    /\ \/ off % PageSize = 0 /\ size % PageSize = 0
       \/ "read of a part" \in Fault
    /\ got' = {x \in off .. off + size - 1 : /\ Enough(off, size) \/ Valid(off, x)
                                             /\ \E y \in stored : x <= y}
    /\ UNCHANGED <<stored, map, unlinked, open, cache_map, last_write_off>>

Next == \/ Open \/ Close
        \/ \E files \in {{"data"}, {"map"}, {"data", "map"}} : Delete(files)
        \/ \E off \in 0 .. FileSize, size \in Request :
              \/ \E len \in 0 .. size : Write(off, size, len)
              \/ Read(off, size)

Spec == Init /\ [][Next]_vars

-----------------------------------------------------------------------------

TypeOK == /\ stored \subseteq Byte
          /\ map \subseteq Byte /\ cache_map \subseteq Byte
          /\ unlinked \subseteq {"data", "map"}
          /\ open \in BOOLEAN
          /\ last_write_off \in 0 .. FileSize
          /\ got \subseteq Byte

\* A cache hit is a hit: what the cache returns was downloaded and stored.  A page that is
\* not "full download" is read from the network.
ReadIsStored == got \subseteq stored
=============================================================================
