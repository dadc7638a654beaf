---------------------------- MODULE TieredMerkle ----------------------------
(***************************************************************************)
(* TieredMerklePageStore and MerklePageStore (src/src/merkle.rs): data pages*)
(* are the leaves of a hash tree whose top levels are trusted memory and    *)
(* whose other nodes are packed into the pages of a second store.  With     *)
(* every level trusted this is the in-memory MerklePageStore.               *)
(*                                                                         *)
(* A hash is the tuple of what it is computed from.  Each of the two stores *)
(* may fail at any write of a call; a hash is written by rewriting its page, *)
(* so a write that stops midway damages no other hash of that page.  Pages   *)
(* may fall back to older versions.                                         *)
(***************************************************************************)
EXTENDS PowersOfTwo, FiniteSetsExt

CONSTANTS
  PageCount,      \* data pages
  LeafBits,       \* log2 of the leaves of the hash tree
  TrustedLevels,  \* numbers of levels kept in memory, counted from the root
  HashesPerPage,  \* hashes in one page of the hash store
  Values, Blank,  \* contents of a data page
  Torn,           \* a data page a failed write left neither old nor new
  MaxWrites,      \* bound on the writes of a behaviour
  MaxFaults       \* and, by number of trusted levels, on its lost pages

VARIABLES
  trusted_levels,  \* of this store
  data,      \* pages of the data store
  disk,      \* hash nodes of the hash store
  trusted,   \* trusted_hashes
  saved,     \* the last TieredMerkleState, and both stores at that moment
  reply,     \* result of the last call
  allowed,   \* per page, what a read may return
  pending,   \* pages whose last write failed or postdates the trusted state
  since,     \* pages written since the last save
  writes, faults

vars == <<trusted_levels, data, disk, trusted, saved, reply, allowed, pending, since, writes, faults>>

leaf_base          == Pow2[LeafBits]
trusted_node_limit == Pow2[trusted_levels]

\* leaf_base is the next power of two, trusted_levels between the root and all.
ASSUME MerkleAssumption ==
  /\ LeafBits \in Nat
  /\ PageCount \in 1 .. leaf_base
  /\ LeafBits > 0 => PageCount > leaf_base \div 2
  /\ TrustedLevels \subseteq 1 .. LeafBits + 1
  /\ HashesPerPage \in Nat \ {0}
  /\ Blank \notin Values /\ Torn \notin Values \cup {Blank}

Page        == 0 .. PageCount - 1
TrustedNode == 1 .. trusted_node_limit - 1
DiskNode    == trusted_node_limit .. 2 * leaf_base - 1

hash_leaf(p, content)      == <<"leaf", p, content>>
hash_empty_leaf(p)         == <<"empty", p>>
hash_node(n, left, right)  == <<n, left, right>>

\* A hash that a failed write left neither old nor new.
TornHash == <<>>

sibling_node(n)  == IF n % 2 = 0 THEN n + 1 ELSE n - 1
is_left_child(n) == n % 2 = 0

\* Page of the hash store that holds a node.
disk_hash_position(n) == (n - trusted_node_limit) \div HashesPerPage

read_hash(n) == IF n < trusted_node_limit THEN trusted[n] ELSE disk[n]

\* Node k levels above the leaf of page p.
NodeAt(p, k) == (leaf_base + p) \div Pow2[k]

\* Hash of the parent of n, from the hash of n and its sibling.
parent_hash(n, hash, sibling) ==
  IF is_left_child(n) THEN hash_node(n \div 2, hash, sibling)
  ELSE hash_node(n \div 2, sibling, hash)

\* The hashes above page p, from a leaf hash and the siblings as stored.
HashesAbove(p, leaf) ==
  LET hash[k \in 0 .. LeafBits] ==
        IF k = 0 THEN leaf
        ELSE parent_hash(NodeAt(p, k - 1), hash[k - 1],
                         read_hash(sibling_node(NodeAt(p, k - 1))))
  IN  hash

\* Lowest trusted node above page p.
Frontier(p) == Min({k \in 0 .. LeafBits : NodeAt(p, k) < trusted_node_limit})

verify_page_hash(p, leaf) ==
  HashesAbove(p, leaf)[Frontier(p)] = trusted[NodeAt(p, Frontier(p))]

\* rebuild_hashes over the given pages, leaves first.
Rebuilt(contents) ==
  LET hash[n \in 1 .. 2 * leaf_base - 1] ==
        IF n < leaf_base THEN hash_node(n, hash[2 * n], hash[2 * n + 1])
        ELSE IF n - leaf_base \in Page THEN hash_leaf(n - leaf_base, contents[n - leaf_base])
        ELSE hash_empty_leaf(n - leaf_base)
  IN  hash

Ok     == [result |-> "ok", out |-> Blank]
Failed == [result |-> "err", out |-> Blank]

Init ==
  /\ trusted_levels \in TrustedLevels
  /\ data = [p \in Page |-> Blank]
  /\ \E hash \in {Rebuilt(data)} :
       /\ trusted = [n \in TrustedNode |-> hash[n]]
       /\ disk = [n \in DiskNode |-> hash[n]]
  /\ saved = [data |-> data, disk |-> disk, trusted |-> trusted,
              allowed |-> [p \in Page |-> {Blank}], pending |-> {}]
  /\ allowed = [p \in Page |-> {Blank}]
  /\ pending = {} /\ since = {}
  /\ reply = Ok
  /\ writes = 0 /\ faults = 0

\* Bug: a page is returned without being verified.
Accepts_Unverified(p) == TRUE

\* A read of page p succeeds.
Accepts(p) == verify_page_hash(p, hash_leaf(p, data[p]))

read_page(p) ==
  /\ reply' = IF Accepts(p) THEN [result |-> "ok", out |-> data[p]] ELSE Failed
  /\ UNCHANGED <<trusted_levels, data, disk, trusted, saved, allowed, pending, since, writes, faults>>

\* Bug: the update stops at the trusted frontier.
UpdateTop_Frontier(p) == IF Frontier(p) = 0 THEN 0 ELSE Frontier(p) - 1

\* update_page_hash writes every node from the leaf to the root.
UpdateTop(p) == LeafBits

\* update_page_hash after n hash writes.
StoreHashes(p, hashes, n) ==
  LET done(node) == {k \in 0 .. n - 1 : k <= UpdateTop(p) /\ NodeAt(p, k) = node}
  IN  /\ disk' = [node \in DiskNode |->
                    IF done(node) = {} THEN disk[node] ELSE hashes[Min(done(node))]]
      /\ trusted' = [node \in TrustedNode |->
                       IF done(node) = {} THEN trusted[node] ELSE hashes[Min(done(node))]]

\* The page is written, then the hashes above it one by one; the data store or
\* the hash store may fail at any of its writes.  Hash pages are plain:
\* write_disk_hash reads the page of a hash before it writes it, which over a
\* sealed store fails for ever on a page that was torn.
write_page(p, value) ==
  /\ writes < MaxWrites
  /\ writes' = writes + 1
  /\ since' = since \cup {p}
  /\ \/ /\ data' = [data EXCEPT ![p] = value]
        /\ StoreHashes(p, HashesAbove(p, hash_leaf(p, value)), LeafBits + 1)
        /\ allowed' = [allowed EXCEPT ![p] = {value}]
        /\ pending' = pending \ {p}
        /\ reply' = Ok
     \/ /\ \/ /\ \E left \in {data[p], Torn} : data' = [data EXCEPT ![p] = left]
              /\ UNCHANGED <<disk, trusted>>
           \/ /\ data' = [data EXCEPT ![p] = value]
              /\ \E n \in 0 .. Frontier(p), hashes \in {HashesAbove(p, hash_leaf(p, value))} :
                   \/ StoreHashes(p, hashes, n)
                   \/ n > 0 /\ StoreHashes(p, [hashes EXCEPT ![n - 1] = TornHash], n)
        /\ allowed' = [allowed EXCEPT ![p] = @ \cup {value}]
        /\ pending' = pending \cup {p}
        /\ reply' = Failed
  /\ UNCHANGED <<trusted_levels, saved, faults>>

\* trusted_state()
save ==
  /\ saved' = [data |-> data, disk |-> disk, trusted |-> trusted,
               allowed |-> allowed, pending |-> pending]
  /\ since' = {}
  /\ UNCHANGED <<trusted_levels, data, disk, trusted, reply, allowed, pending, writes, faults>>

\* from_trusted_state in a new process, over the stores as they are.
from_trusted_state ==
  /\ trusted' = saved.trusted
  /\ pending' = saved.pending \cup since
  /\ allowed' = [p \in Page |-> saved.allowed[p] \cup IF p \in since THEN allowed[p] ELSE {}]
  /\ reply' = Failed
  /\ UNCHANGED <<trusted_levels, data, disk, saved, since, writes, faults>>

\* Writes to a data page or to a page of hashes turn out to be lost: the store
\* serves the version of the last save.
stale_data(p) ==
  /\ faults < MaxFaults[trusted_levels]
  /\ faults' = faults + 1
  /\ data' = [data EXCEPT ![p] = saved.data[p]]
  /\ UNCHANGED <<trusted_levels, disk, trusted, saved, reply, allowed, pending, since, writes>>

stale_hashes(n) ==
  /\ faults < MaxFaults[trusted_levels]
  /\ faults' = faults + 1
  /\ disk' = [m \in DiskNode |->
                IF disk_hash_position(m) = disk_hash_position(n) THEN saved.disk[m]
                ELSE disk[m]]
  /\ UNCHANGED <<trusted_levels, data, trusted, saved, reply, allowed, pending, since, writes>>

Next ==
  \/ save \/ from_trusted_state
  \/ \E n \in DiskNode : stale_hashes(n)
  \/ \E p \in Page :
       \/ read_page(p)
       \/ stale_data(p)
       \/ \E value \in Values : write_page(p, value)

Spec == Init /\ [][Next]_vars

(***************************************************************************)
(* Properties                                                               *)
(***************************************************************************)

\* A page a read would return is the last one written (or one of the versions
\* whose write failed since), never an older one the store below came up with
\* (README: the wrappers "detect runtime rollback of disk-backed pages").
NoStalePages == \A p \in Page : Accepts(p) => data[p] \in allowed[p]

\* Failed writes and a reopening from an older trusted state can leave pages,
\* and their neighbours in the hash tree, unreadable; writing the affected
\* pages again makes the whole store readable, in whatever order and with
\* whatever failures in between.
RewritingHeals == pending = {} /\ faults = 0 => \A p \in Page : Accepts(p)
=============================================================================
