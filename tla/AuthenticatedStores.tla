------------------------ MODULE AuthenticatedStores ------------------------
(***************************************************************************)
(* The authenticated page stores an image can be opened with: the hash tree *)
(* over data pages (TieredMerkle; MerklePageStore is the one with every     *)
(* level trusted), and the hashes embedded in bucket pages (EmbeddedTree).  *)
(* A behaviour is one of one store; the variables of the other do not       *)
(* change.                                                                  *)
(***************************************************************************)
EXTENDS TieredMerkle, Sequences, TLC

CONSTANTS
  BucketPages,    \* pages of the embedded tree
  PathRequests,   \* lists of paths of its calls
  FewWrites,      \* bounds on its writes
  FewFaults       \* and lost pages

ASSUME BucketsAssumption ==
  /\ BucketPages \in Nat \ {0}
  /\ PathRequests \subseteq Seq(Seq(Nat))

VARIABLES
  store,                               \* the store this behaviour is about
  inner, root_hash, cache, committed   \* EmbeddedTree

treeVars == <<trusted_levels, data, disk, trusted, allowed, pending, since>>
bucketVars == <<inner, root_hash, cache, committed>>
allVars == <<vars, store, bucketVars>>

Tree == INSTANCE EmbeddedTree WITH PageCount <- BucketPages, MaxWrites <- FewWrites, MaxFaults <- FewFaults

\* A single path, two overlapping paths and a list whose second path is no path of
\* the tree.
DeepPaths == {<<<<0>>>>, <<<<0, 1, 3>>, <<0, 1, 4>>>>, <<<<0, 1, 4>>, <<1>>>>}

StoresInit ==
  \/ /\ store = "merkle" /\ Init
     /\ inner = <<>> /\ root_hash = <<>> /\ cache = <<>> /\ committed = <<>>
  \/ /\ store = "embedded" /\ Tree!Init
     /\ trusted_levels = 0 /\ data = <<>> /\ disk = <<>> /\ trusted = <<>> /\ allowed = <<>>
     /\ pending = {} /\ since = {}

merkle_call == store = "merkle" /\ Next /\ UNCHANGED <<store, bucketVars>>

embedded_call == store = "embedded" /\ Tree!Next /\ UNCHANGED <<store, treeVars>>

StoresSpec == StoresInit /\ [][merkle_call \/ embedded_call]_allVars

-----------------------------------------------------------------------------
\* A page a Merkle store would return is the last one written (or one of the
\* versions whose write failed since), never an older one the store below came
\* up with: with one lost page if hashes are on disk, with several if
\* all hashes are in memory.
NoStalePage ==
  store = "merkle" /\ (faults <= 1 \/ trusted_levels = LeafBits + 1) => NoStalePages

\* Failed writes and a reopening from an older trusted state can leave pages,
\* and their neighbours in the hash tree, unreadable; writing the affected
\* pages again makes the whole store readable, in whatever order and with
\* whatever failures in between.
Heals == store = "merkle" => RewritingHeals

\* The trusted root of the embedded tree is the hash of a whole tree of pages
\* with the contents of the writes so far: rehashing overlapping paths, from
\* cached pages or after faults, never loses the change of another path, and a
\* failed write leaves the root at the new contents (write_paths).
RootCovers == store = "embedded" => Tree!RootCoversAllWrites

\* Pages the embedded tree keeps for its next write are the ones the root
\* vouches for, whatever happened to the store since they were read.
CacheIsCommitted == store = "embedded" => Tree!CachedPagesAreCommitted

\* A read of paths succeeds exactly if every page on them is the one the root
\* vouches for: no old, misplaced or half-written page is ever returned, and
\* no fault elsewhere in the tree makes a sound path unreadable.
ReadsExactly == [][store = "embedded" => Tree!ReadStep]_allVars

-----------------------------------------------------------------------------
\* Lost pages of a behaviour: with hashes on disk nothing is claimed of two.
LostPages == [levels \in TrustedLevels |-> IF levels = LeafBits + 1 THEN 2 ELSE 1]

\* No action looks at the last reply.
WithoutReply == <<treeVars, bucketVars, saved, writes, faults, store>>

ValueSymmetry == Permutations(Values)
=============================================================================
