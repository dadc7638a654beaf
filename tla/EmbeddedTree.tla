---------------------------- MODULE EmbeddedTree ----------------------------
(***************************************************************************)
(* EmbeddedTreePageStore (src/src/embedded_tree.rs): bucket pages carry the *)
(* hashes of their two children, the root hash is kept in trusted memory,   *)
(* and whole root-to-descendant paths are verified, rewritten and rehashed. *)
(*                                                                         *)
(* A hash is the tuple of what it is computed from, so that different       *)
(* inputs have different hashes.  The store below may fail in the middle of *)
(* a write and may serve old or misdirected pages.                          *)
(***************************************************************************)
EXTENDS Integers, Sequences, SequencesExt

CONSTANTS
  PageCount,     \* bucket pages, a heap array
  Values,        \* logical contents of a page
  Blank,         \* contents of every page before the first write
  PathRequests,  \* lists of paths of a call
  MaxWrites,     \* bound on the writes of a behaviour
  MaxFaults      \* bound on the pages the store below loses or misplaces

VARIABLES
  inner,      \* pages of the store below: [logical, left_hash, right_hash]
  root_hash,  \* trusted root
  cache,      \* verified_batch_cache: None or [root_hash, pages]
  saved,      \* the last EmbeddedTreeState and the pages of that moment
  reply,      \* result of the last call
  committed,  \* the logical contents the trusted root stands for
  writes, faults

vars == <<inner, root_hash, cache, saved, reply, committed, writes, faults>>

Page == 0 .. PageCount - 1
None == <<>>

left_child(p)  == 2 * p + 1
right_child(p) == 2 * p + 2
ZeroHash       == <<>>

hash_embedded_page(p, page) == <<p, page.logical, page.left_hash, page.right_hash>>

\* The pages with new contents in the ones of the set `on`, which take the hash of
\* a child that is one of them too, children first.
Rehash(on, contents, pages) ==
  LET new[p \in DOMAIN pages] ==
        LET hash(child, old) ==
              IF child \in on THEN hash_embedded_page(child, new[child]) ELSE old
        IN  IF p \in on
            THEN [logical    |-> contents[p],
                  left_hash  |-> hash(left_child(p), pages[p].left_hash),
                  right_hash |-> hash(right_child(p), pages[p].right_hash)]
            ELSE pages[p]
  IN  new

\* build: the pages of a tree with the given contents; a missing child has the
\* zero hash.
Built(contents) ==
  Rehash(Page, contents,
         [p \in Page |-> [logical |-> Blank, left_hash |-> ZeroHash, right_hash |-> ZeroHash]])

validate_path(path) ==
  /\ path # <<>> /\ path[1] = 0
  /\ \A k \in DOMAIN path : path[k] \in Page
  /\ \A k \in 2 .. Len(path) :
       path[k] \in {left_child(path[k - 1]), right_child(path[k - 1])}

\* Bug: the hash of the left child stands for both.
child_hash_Left(p, page, child) == page.left_hash

child_hash(p, page, child) ==
  IF child = left_child(p) THEN page.left_hash ELSE page.right_hash

\* Every page of the path hashes to what its parent, and for the first the
\* trusted root, says.
verify_path_from_pages(path, pages, root) ==
  \A k \in DOMAIN path :
    hash_embedded_page(path[k], pages[path[k]]) =
      IF k = 1 THEN root ELSE child_hash(path[k - 1], pages[path[k - 1]], path[k])

PagesOf(paths) == UNION {ToSet(paths[i]) : i \in DOMAIN paths}

\* read_verified_paths succeeds.
VerifiedRead(paths) ==
  /\ \A i \in DOMAIN paths : validate_path(paths[i])
  /\ \A i \in DOMAIN paths : verify_path_from_pages(paths[i], inner, root_hash)

(***************************************************************************)
(* Rewriting paths: logical contents first, then the hashes from the last   *)
(* page up to the root, in pages shared by the paths of the call.           *)
(***************************************************************************)

\* Bug: each path starts from the pages as they were read.
PathStep_Unshared(original, acc, path, contents) ==
  LET pages == Rehash(ToSet(path), contents,
                 [p \in DOMAIN original |->
                    IF p \in ToSet(path) THEN original[p] ELSE acc.pages[p]])
  IN  [pages |-> pages, root |-> hash_embedded_page(0, pages[0]),
       dirty |-> acc.dirty \cup ToSet(path), ok |-> TRUE]

\* One path, which starts at the root.
PathStep(original, acc, path, contents) ==
  LET pages == Rehash(ToSet(path), contents, acc.pages)
  IN  [pages |-> pages, root |-> hash_embedded_page(0, pages[0]),
       dirty |-> acc.dirty \cup ToSet(path), ok |-> TRUE]

\* The loop over the paths; an invalid path ends it with the root of the paths
\* before it.
RewritePaths(paths, contents, pages) ==
  LET after[n \in 0 .. Len(paths)] ==
        IF n = 0 THEN [pages |-> pages, root |-> root_hash, dirty |-> {}, ok |-> TRUE]
        ELSE IF after[n - 1].ok /\ validate_path(paths[n])
        THEN PathStep(pages, after[n - 1], paths[n], contents)
        ELSE [pages |-> after[n - 1].pages, root |-> after[n - 1].root,
              dirty |-> after[n - 1].dirty, ok |-> FALSE]
  IN  after[Len(paths)]

cache_covers_paths(paths) ==
  cache # None /\ PagesOf(paths) \subseteq DOMAIN cache.pages

CacheUsable(paths) ==
  cache # None /\ cache.root_hash = root_hash /\ cache_covers_paths(paths)

\* A write starts from verified pages, cached or read now.
MayRewrite(paths) == CacheUsable(paths) \/ VerifiedRead(paths)

Failed == [result |-> "err", out |-> <<>>]

Init ==
  /\ committed = [p \in Page |-> Blank]
  /\ inner = Built(committed)
  /\ root_hash = hash_embedded_page(0, inner[0])
  /\ cache = None
  /\ saved = [pages |-> inner, root_hash |-> root_hash, contents |-> committed]
  /\ reply = Failed
  /\ writes = 0 /\ faults = 0

read_paths(paths) ==
  /\ \/ /\ VerifiedRead(paths)
        /\ cache' = [root_hash |-> root_hash, pages |-> [p \in PagesOf(paths) |-> inner[p]]]
        /\ reply' = [result |-> "ok",
                     out |-> [i \in DOMAIN paths |->
                                [k \in DOMAIN paths[i] |-> inner[paths[i][k]].logical]]]
     \/ /\ ~VerifiedRead(paths)
        /\ reply' = Failed
        /\ UNCHANGED cache
  /\ UNCHANGED <<inner, root_hash, saved, committed, writes, faults>>

\* Bug: the cache outlives the write and follows the root.
CacheAfterWrite_Rekeyed(new_root) ==
  IF cache = None THEN None ELSE [cache EXCEPT !.root_hash = new_root]

\* verified_batch_cache.take()
CacheAfterWrite(new_root) == None

\* The pages the call works on: the verified ones of the last read, or pages
\* read and verified now.
WorkingPages(paths) ==
  IF CacheUsable(paths) THEN cache.pages ELSE [p \in PagesOf(paths) |-> inner[p]]

\* Dirty pages are written in ascending order; the write may stop before any.
StoreDirty(result) ==
  \E end \in 0 .. PageCount :
    /\ inner' = [p \in Page |-> IF p \in result.dirty /\ p < end THEN result.pages[p] ELSE inner[p]]
    /\ reply' = IF \A p \in result.dirty : p < end THEN [result |-> "ok", out |-> <<>>] ELSE Failed

\* The root moves while the paths are rehashed, before any page is stored.
write_paths(paths, contents) ==
  /\ writes < MaxWrites
  /\ writes' = writes + 1
  /\ \/ /\ MayRewrite(paths)
        /\ \E result \in {RewritePaths(paths, contents, WorkingPages(paths))} :
             /\ root_hash' = result.root
             /\ committed' = [p \in Page |-> IF p \in result.dirty THEN contents[p]
                                             ELSE committed[p]]
             /\ \/ result.ok /\ StoreDirty(result)
                \/ ~result.ok /\ reply' = Failed /\ inner' = inner
     \/ /\ ~MayRewrite(paths)
        /\ reply' = Failed
        /\ UNCHANGED <<inner, root_hash, committed>>
  /\ cache' = IF paths = <<>> THEN cache ELSE CacheAfterWrite(root_hash')
  /\ UNCHANGED <<saved, faults>>

\* state(): the root goes to the state file; pages are those on disk then.
save ==
  /\ saved' = [pages |-> inner, root_hash |-> root_hash, contents |-> committed]
  /\ UNCHANGED <<inner, root_hash, cache, reply, committed, writes, faults>>

\* from_state in a new process; the pages are whatever is there.
from_state ==
  /\ root_hash' = saved.root_hash
  /\ committed' = saved.contents
  /\ cache' = None
  /\ reply' = Failed
  /\ UNCHANGED <<inner, saved, writes, faults>>

\* A page falls back to the version of the last save, or shows another page.
page_fault(p) ==
  /\ faults < MaxFaults
  /\ faults' = faults + 1
  /\ \E version \in {saved.pages[p]} \cup {inner[q] : q \in Page \ {p}} :
       inner' = [inner EXCEPT ![p] = version]
  /\ UNCHANGED <<root_hash, cache, saved, reply, committed, writes>>

Next ==
  \/ save \/ from_state
  \/ \E p \in Page : page_fault(p)
  \/ \E paths \in PathRequests :
       \/ read_paths(paths)
       \/ \E contents \in [PagesOf(paths) -> Values] : write_paths(paths, contents)

Spec == Init /\ [][Next]_vars

(***************************************************************************)
(* Properties                                                               *)
(***************************************************************************)

\* The page the trusted root vouches for.
CommittedPage(p) == Built(committed)[p]

\* The trusted root is the hash of a whole tree of pages with the contents of
\* the writes so far: rehashing overlapping paths one after the other, from
\* cached pages or after faults, never loses the change of another path, and a
\* failed write leaves the root at the new contents (write_paths).
RootCoversAllWrites == root_hash = hash_embedded_page(0, CommittedPage(0))

\* Pages kept for the next write are the ones the root vouches for, whatever
\* happened to the store since they were read (verified_batch_cache).
CachedPagesAreCommitted ==
  cache # None /\ cache.root_hash = root_hash =>
    \A p \in DOMAIN cache.pages : cache.pages[p] = CommittedPage(p)

Intact(paths) ==
  /\ \A i \in DOMAIN paths : validate_path(paths[i])
  /\ \A p \in PagesOf(paths) : inner[p] = CommittedPage(p)

\* A read succeeds exactly if every page of its paths is the one the root
\* vouches for: no old, misplaced or half-written page is ever returned, and
\* no fault elsewhere in the tree makes a sound path unreadable.
ReadStep ==
  \A paths \in PathRequests : read_paths(paths) => (reply'.result = "ok" <=> Intact(paths))
=============================================================================
