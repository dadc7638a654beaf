----------------------------- MODULE PageStores -----------------------------
(***************************************************************************)
(* The stack of page stores the command line tool opens on an image file    *)
(* (open_sized_file_store): a FilePageStore, under an AeadPageStore if the  *)
(* image is encrypted, under a write-back FrontCachedPageStore if pages are *)
(* cached.  Pages reach the file in prefixes when a call fails, and the     *)
(* disk only when the file is synced; the cache reaches the file only when  *)
(* it is flushed.                                                           *)
(***************************************************************************)
EXTENDS Integers, Sequences, SequencesExt

CONSTANTS
  Values, Zero, Garbled,
  Stacks   \* the stacks and the calls made on them:
           \* pages     pages of the image
           \* encrypted TRUE with an AeadPageStore in the stack
           \* cached    pages 0 .. cached - 1 are held by the front cache
           \* requests  page lists of bulk calls
           \* paths     lists of paths of bulk path calls

VARIABLES
  stack,     \* the stack this behaviour is about
  file,      \* raw pages as the operating system shows them
  unsynced,  \* per page, the raw contents a loss of power may leave
  cached,    \* FrontCachedPageStore::cached
  dirty,     \* FrontCachedPageStore::dirty
  mode,      \* closed, building (a fresh image is being written) or open
  next,      \* next page a build writes
  reply      \* result of the last call

vars == <<stack, file, unsynced, cached, dirty, mode, next, reply>>

ASSUME StackAssumption ==
  /\ \A s \in Stacks : /\ s.pages \in Nat \ {0}
                       /\ s.cached \in 0 .. s.pages
                       /\ s.encrypted \in BOOLEAN
                       /\ s.requests \subseteq Seq(Nat)
                       /\ s.paths \subseteq Seq(Seq(0 .. s.pages - 1))
  /\ Zero \notin Values /\ Garbled \notin Values /\ Zero # Garbled

Page       == 0 .. stack.pages - 1
CachedPage == 0 .. stack.cached - 1
Contents   == Values \cup {Zero, Garbled}
HasFront   == stack.cached > 0
Encrypted  == stack.encrypted

(***************************************************************************)
(* AeadPageStore: a sealed page carries its index as associated data and    *)
(* opens under no other.  Raw pages that were never sealed carry none.      *)
(***************************************************************************)
NoAad == -1
encrypt_page(p, value) == [aad |-> IF Encrypted THEN p ELSE NoAad, plain |-> value]

decrypt_page(p, raw) == IF Encrypted /\ raw.aad # p THEN Garbled ELSE raw.plain

ZeroPage == [aad |-> NoAad, plain |-> Zero]
TornPage == [aad |-> NoAad, plain |-> Garbled]
Raw      == [aad : {NoAad} \cup Page, plain : Contents]

\* A page the stack refuses to return.
Rejected(content) == Encrypted /\ content = Garbled

(***************************************************************************)
(* FilePageStore: bulk calls are sorted by page and done in runs of         *)
(* consecutive pages, except writes that name a page twice.                 *)
(***************************************************************************)
page_order(indices) ==
  CHOOSE order \in [DOMAIN indices -> DOMAIN indices] :
    \A j, k \in DOMAIN indices :
      j < k => \/ indices[order[j]] < indices[order[k]]
               \/ indices[order[j]] = indices[order[k]] /\ order[j] < order[k]

has_duplicate_pages(indices) ==
  \E j, k \in DOMAIN indices : j # k /\ indices[j] = indices[k]

\* Position in `order` at which the run that position k belongs to starts.
RunStart(indices, order, k) ==
  Max({j \in 1 .. k : \/ j = 1
                      \/ indices[order[j]] # indices[order[j - 1]] + 1})

\* Bug: the buffer of a run is scattered in sorted order.
read_pages_file_Unscattered(indices) ==
  [pos \in DOMAIN indices |-> file[indices[page_order(indices)[pos]]]]

\* Each run is read into one buffer and scattered back to the caller's order.
read_pages_file(indices) ==
  LET order == page_order(indices)
      place(pos) == CHOOSE k \in DOMAIN order : order[k] = pos
      run(k) == RunStart(indices, order, k)
  IN  [pos \in DOMAIN indices |->
         file[indices[order[run(place(pos))]] + (place(pos) - run(place(pos)))]]

\* Order in which a bulk write reaches the file.
WriteOrder(indices) ==
  IF has_duplicate_pages(indices) THEN [k \in DOMAIN indices |-> k]
  ELSE page_order(indices)

\* How many pages a bulk write can reach: a page out of range ends it before
\* the run (or, page by page, the page) it belongs to.
Reach(indices) ==
  LET order == WriteOrder(indices)
      bad   == {k \in DOMAIN order : indices[order[k]] \notin Page}
  IN  IF bad = {} THEN Len(indices)
      ELSE IF has_duplicate_pages(indices) THEN Min(bad) - 1
      ELSE RunStart(indices, order, Min(bad)) - 1

\* The raw pages that land in the file if the n-th write is the last to
\* complete and the next one, if any is tried, tears.
Landed(batch, n, reach, torn) ==
  SubSeq(batch, 1, n)
    \o IF torn /\ n < reach THEN <<[batch[n + 1] EXCEPT !.raw = TornPage]>> ELSE <<>>

Land(entries) ==
  /\ file' = [p \in Page |->
       LET hits == {k \in DOMAIN entries : entries[k].page = p}
       IN  IF hits = {} THEN file[p] ELSE entries[Max(hits)].raw]
  /\ unsynced' = [p \in Page |->
       LET hits == {k \in DOMAIN entries : entries[k].page = p}
       IN  IF hits = {} THEN unsynced[p]
           ELSE unsynced[p] \cup {entries[k].raw : k \in hits} \cup {TornPage}]

\* Writes a sequence of [page, raw] of which at most `reach` can be written;
\* any of them may fail.
write_all_at(batch, reach) ==
  \E n \in 0 .. reach, torn \in BOOLEAN :
    /\ Land(Landed(batch, n, reach, torn))
    /\ reply' = [result |-> IF n = Len(batch) THEN "ok" ELSE "err", out |-> <<>>]

\* AeadPageStore::write_pages over FilePageStore::write_pages: all pages are
\* sealed before the first is written.
InnerWritePages(indices, pages) ==
  LET order == WriteOrder(indices)
      batch == [k \in DOMAIN order |->
                  [page |-> indices[order[k]],
                   raw  |-> encrypt_page(indices[order[k]], pages[order[k]])]]
  IN  write_all_at(batch, Reach(indices))

(***************************************************************************)
(* FrontCachedPageStore                                                     *)
(***************************************************************************)
\* The members of a finite set of numbers in ascending order.
Ascending(S) ==
  CHOOSE seq \in [1 .. Cardinality(S) -> S] :
    \A j, k \in DOMAIN seq : j < k => seq[j] < seq[k]

\* The entries of a call that go on to the store below the cache.
InnerPositions(indices) == Ascending({k \in DOMAIN indices : indices[k] \notin CachedPage})

Pick(seq, positions) == [k \in DOMAIN positions |-> seq[positions[k]]]

\* How far the cache gets into a call before it meets a page out of range.
FrontReach(indices) ==
  LET bad == {k \in DOMAIN indices : indices[k] \notin Page}
  IN  IF bad = {} THEN Len(indices) ELSE Min(bad) - 1

\* Bug: a write to a cached page does not mark it for the next flush.
FrontWrite_Unmarked(indices, pages, n) ==
  LET hits(p) == {k \in 1 .. n : indices[k] = p}
  IN  /\ cached' = [p \in CachedPage |->
                      IF hits(p) = {} THEN cached[p] ELSE pages[Max(hits(p))]]
      /\ dirty' = dirty

\* Bug: pages below the cache are marked dirty as well.
FrontWrite_MarksAll(indices, pages, n) ==
  LET hits(p) == {k \in 1 .. n : indices[k] = p}
  IN  /\ cached' = [p \in CachedPage |->
                      IF hits(p) = {} THEN cached[p] ELSE pages[Max(hits(p))]]
      /\ dirty' = dirty \cup {indices[k] : k \in 1 .. n}

\* Cached pages take the entries 1 .. n of a call in its order.
FrontWrite(indices, pages, n) ==
  LET hits(p) == {k \in 1 .. n : indices[k] = p}
  IN  /\ cached' = [p \in CachedPage |->
                      IF hits(p) = {} THEN cached[p] ELSE pages[Max(hits(p))]]
      /\ dirty' = dirty \cup {p \in CachedPage : hits(p) # {}}

\* Reads take cached pages from memory and the rest through the bulk read.
ReadResult(indices) ==
  LET inner == InnerPositions(indices)
      raws  == read_pages_file(Pick(indices, inner))
      pages == [pos \in DOMAIN indices |->
                  IF indices[pos] \in CachedPage THEN cached[indices[pos]]
                  ELSE decrypt_page(indices[pos],
                         raws[CHOOSE k \in DOMAIN inner : inner[k] = pos])]
  IN  IF \E k \in DOMAIN indices : indices[k] \notin Page THEN [result |-> "err", out |-> <<>>]
      ELSE IF \E k \in DOMAIN pages : Rejected(pages[k]) THEN [result |-> "err", out |-> <<>>]
      ELSE [result |-> "ok", out |-> pages]

(***************************************************************************)
(* Calls on the open stack                                                  *)
(***************************************************************************)
Init ==
  /\ stack \in Stacks
  /\ file = [p \in Page |-> ZeroPage]
  /\ unsynced = [p \in Page |-> {ZeroPage}]
  /\ cached = [p \in CachedPage |-> Zero]
  /\ dirty = {}
  /\ mode = "closed"
  /\ next = 0
  /\ reply = [result |-> "ok", out |-> <<>>]

IoError == reply' = [result |-> "err", out |-> <<>>]

\* FrontCachedPageStore::new loads the front pages, and fails if one of them
\* does not open.
open_store ==
  /\ mode = "closed"
  /\ \/ /\ \A p \in CachedPage : ~Rejected(decrypt_page(p, file[p]))
        /\ cached' = [p \in CachedPage |-> decrypt_page(p, file[p])]
        /\ dirty' = {}
        /\ mode' = "open"
        /\ reply' = [result |-> "ok", out |-> <<>>]
     \/ IoError /\ UNCHANGED <<cached, dirty, mode>>
  /\ UNCHANGED <<file, unsynced, next>>

\* FrontCachedPageStore::new_zeroed does not look at the file; the caller
\* writes every page before it reads any (write_initial_metadata and
\* write_initial_payloads, zero_page_store).
create_store ==
  /\ mode = "closed"
  /\ cached' = [p \in CachedPage |-> Zero]
  /\ dirty' = {}
  /\ mode' = "building"
  /\ next' = 0
  /\ reply' = [result |-> "ok", out |-> <<>>]
  /\ UNCHANGED <<file, unsynced>>

PageWrite(p, value) ==
  IF p \in CachedPage
  THEN /\ FrontWrite(<<p>>, <<value>>, 1)
       /\ reply' = [result |-> "ok", out |-> <<>>]
       /\ UNCHANGED <<file, unsynced>>
  ELSE /\ write_all_at(<<[page |-> p, raw |-> encrypt_page(p, value)]>>, 1)
       /\ UNCHANGED <<cached, dirty>>

\* A page that fails stays to be written, or the caller gives up (close_store).
build_page(value) ==
  /\ mode = "building"
  /\ PageWrite(next, value)
  /\ IF reply'.result = "err" THEN UNCHANGED <<mode, next>>
     ELSE IF next = stack.pages - 1 THEN mode' = "open" /\ next' = 0
     ELSE next' = next + 1 /\ mode' = mode

\* read_page and read_pages; the paths of read_path_pages are page lists too.
read_pages(indices) ==
  /\ mode = "open"
  /\ reply' = ReadResult(indices) \/ IoError
  /\ UNCHANGED <<file, unsynced, cached, dirty, mode, next>>

\* Several paths are read as one list and the answer is cut into paths.
FlatOffset(paths, i) == Len(FlattenSeq(SubSeq(paths, 1, i - 1)))

read_paths_pages(paths) ==
  LET flat == ReadResult(FlattenSeq(paths))
  IN  /\ mode = "open"
      /\ \/ reply' = IF flat.result = "err" THEN flat
                     ELSE [flat EXCEPT !.out =
                             [i \in DOMAIN paths |->
                                [k \in DOMAIN paths[i] |->
                                   flat.out[FlatOffset(paths, i) + k]]]]
         \/ IoError
      /\ UNCHANGED <<file, unsynced, cached, dirty, mode, next>>

\* Cached pages change first; a page out of range ends the call after the
\* cached pages before it have changed.
write_pages(indices, pages) ==
  LET inner == InnerPositions(indices)
  IN  /\ mode = "open"
      /\ IF HasFront /\ FrontReach(indices) < Len(indices)
         THEN /\ FrontWrite(indices, pages, FrontReach(indices))
              /\ IoError
              /\ UNCHANGED <<file, unsynced>>
         ELSE /\ FrontWrite(indices, pages, Len(indices))
              /\ InnerWritePages(Pick(indices, inner), Pick(pages, inner))
      /\ UNCHANGED <<mode, next>>

\* Several paths are written as one list; the controller gives a page that is
\* on several of them the same contents everywhere (collect_overlay_paths).
write_paths_pages(paths, contents) ==
  write_pages(FlattenSeq(paths),
              FlattenSeq([i \in DOMAIN paths |->
                            [k \in DOMAIN paths[i] |-> contents[paths[i][k]]]]))

\* A path is written page by page, like the trait's own write_pages does.
write_plain_path_pages(indices, pages) ==
  LET reach == FrontReach(indices)
  IN  /\ mode = "open"
      /\ \E n \in 0 .. reach, torn \in BOOLEAN :
           /\ \/ n = Len(indices)
              \/ n = reach
              \/ n < reach /\ indices[n + 1] \notin CachedPage
           /\ LET batch == [k \in 1 .. reach |->
                    [page |-> indices[k], raw |-> encrypt_page(indices[k], pages[k])]]
                  below == {k \in DOMAIN Landed(batch, n, reach, torn) :
                              indices[k] \notin CachedPage}
              IN  Land([k \in below |-> Landed(batch, n, reach, torn)[k]])
           /\ FrontWrite(indices, pages, n)
           /\ reply' = [result |-> IF n = Len(indices) THEN "ok" ELSE "err",
                        out |-> <<>>]
      /\ UNCHANGED <<mode, next>>

\* Dirty pages are written back in order, each forgotten once it is written,
\* and then the file is synced; every step may fail.
DirtyOrder == Ascending(dirty)

flush ==
  LET order == DirtyOrder
      batch == [k \in DOMAIN order |->
                  [page |-> order[k], raw |-> encrypt_page(order[k], cached[order[k]])]]
  IN  /\ mode = "open"
      /\ \/ \E n \in 0 .. Len(batch), torn \in BOOLEAN :
              /\ Land(Landed(batch, n, Len(batch), torn))
              /\ dirty' = {order[k] : k \in n + 1 .. Len(batch)}
              /\ IoError
         \/ /\ file' = [p \in Page |-> IF p \in dirty THEN encrypt_page(p, cached[p])
                                       ELSE file[p]]
            /\ unsynced' = [p \in Page |-> {file'[p]}]
            /\ dirty' = {}
            /\ reply' = [result |-> "ok", out |-> <<>>]
      /\ UNCHANGED <<cached, mode, next>>

Forget ==
  /\ mode' = "closed" /\ next' = 0
  /\ cached' = [p \in CachedPage |-> Zero] /\ dirty' = {}
  /\ IoError

\* The store is dropped (into_inner, the end of the process): nothing writes
\* the cache back.
close_store ==
  /\ mode # "closed"
  /\ Forget
  /\ UNCHANGED <<file, unsynced>>

\* The machine stops: each page is left as any version since the last sync.
power_loss ==
  /\ file' \in [Page -> UNION {unsynced[p] : p \in Page}]
  /\ \A p \in Page : file'[p] \in unsynced[p]
  /\ unsynced' = [p \in Page |-> {file'[p]}]
  /\ Forget

\* A page of a closed encrypted image takes the place of another.  (A page that
\* returns to its own place as an older version opens: this layer cannot tell.)
misplace(p, q) ==
  /\ Encrypted /\ mode = "closed" /\ p # q /\ file[q].aad # p
  /\ file' = [file EXCEPT ![p] = file[q]]
  /\ unsynced' = [unsynced EXCEPT ![p] = {file[q]}]
  /\ IoError
  /\ UNCHANGED <<cached, dirty, mode, next>>

Call ==
  \/ open_store \/ create_store \/ flush \/ close_store \/ power_loss
  \/ \E value \in Values : build_page(value)
  \/ \E p, q \in Page : misplace(p, q)
  \/ \E indices \in stack.requests :
       \/ read_pages(indices)
       \/ \E pages \in [DOMAIN indices -> Values] :
            write_pages(indices, pages) \/ write_plain_path_pages(indices, pages)
  \/ \E paths \in stack.paths :
       \/ read_paths_pages(paths)
       \/ \E contents \in [Page -> Values] : write_paths_pages(paths, contents)

Next == Call /\ UNCHANGED stack

Spec == Init /\ [][Next]_vars

(***************************************************************************)
(* Properties                                                               *)
(***************************************************************************)

\* Only cached pages are dirty, the file holds raw pages, and what the file
\* shows is among what a loss of power may leave.
StackTypeOK ==
  /\ file \in [Page -> Raw]
  /\ cached \in [CachedPage -> Contents]
  /\ dirty \subseteq CachedPage
  /\ mode \in {"closed", "building", "open"}
  /\ next \in Page
  /\ unsynced \in [Page -> SUBSET Raw]
  /\ \A p \in Page : file[p] \in unsynced[p]

(***************************************************************************)
(* The stack keeps the promises of DurablePages.  While a build is under    *)
(* way the pages it has not written yet are those of the old image.         *)
(***************************************************************************)
InCache(p) == p \in CachedPage /\ (mode = "open" \/ (mode = "building" /\ p < next))

CallerSees ==
  [p \in Page |-> IF InCache(p) THEN cached[p] ELSE decrypt_page(p, file[p])]

MayRemain ==
  [p \in Page |-> {decrypt_page(p, raw) : raw \in unsynced[p]}
                    \cup IF InCache(p) /\ p \in dirty THEN {cached[p], Garbled} ELSE {}]

Promise == INSTANCE DurablePages WITH
  authentic <- stack.encrypted, mem <- CallerSees, survivors <- MayRemain

PromisedStep ==
  \/ Promise!Crash
  \/ /\ mode = "closed"
     /\ Promise!Open \/ \E p \in Page : Promise!Misplace(p)
  \/ /\ mode = "building"
     /\ \E value \in Values : Promise!Write(<<next>>, <<value>>)
  \/ /\ mode = "open"
     /\ \/ Promise!Flush
        \/ \E indices \in stack.requests :
             \/ Promise!Read(indices)
             \/ \E pages \in [DOMAIN indices -> Values] : Promise!Write(indices, pages)
        \/ \E paths \in stack.paths :
             \/ Promise!ReadPaths(paths)
             \/ \E contents \in [Page -> Values] :
                  Promise!Write(FlattenSeq(paths),
                    [k \in DOMAIN FlattenSeq(paths) |-> contents[FlattenSeq(paths)[k]]])

\* Bulk reads answer in the caller's order, bulk writes that name a page twice
\* keep the last version, a failed call changes no page it does not name, and
\* every page a flush has covered survives the end of the process and of power
\* until it is written again (store.rs, aead.rs).
KeepsPromises == [][PromisedStep]_vars

\* A page the cache holds and does not owe to the file is the page the file
\* holds: nothing a reader sees can disappear without a flush owing it.
CleanPagesMatchFile ==
  \A p \in CachedPage \ dirty :
    InCache(p) /\ mode = "open" => decrypt_page(p, file[p]) = cached[p]
=============================================================================
