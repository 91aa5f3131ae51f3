------------------------------ MODULE Archive ------------------------------
(***************************************************************************)
(* The archive (lib/archive.rs): two forests of headers that only grow,    *)
(* the mainchain's and the sidechain's, with the skip lists for finding    *)
(* ancestors, the results of blind merged mining, the bodies, and the      *)
(* choice of the better of two tips.                                       *)
(*                                                                         *)
(* It is filled by the mainchain task (request_ancestor_infos), by the net *)
(* task (headers and bodies from peers), by Node::submit_block and by      *)
(* connect_tip_, each in write transactions of its own, in any order that  *)
(* the code admits.  The blocks themselves are constants: what a header    *)
(* says never changes.  Numbering: NoBlock is None for a sidechain hash,   *)
(* Zero the all-zeros mainchain hash.  An Option of a height h is h + 1,   *)
(* and 0 for None, which orders them as Rust does.                         *)
(***************************************************************************)
EXTENDS Naturals, FiniteSets, SequencesExt

CONSTANTS
    MainBlock, Zero,
    MainParent,      \* prev_block_hash of a mainchain block
    Work,            \* its own work
    Commitment,      \* its bmm_commitment: a sidechain block or NoBlock
    SideBlock, NoBlock,
    PrevSide,        \* prev_side_hash of a sidechain block
    PrevMain,        \* its prev_main_hash
    MAX_BATCH_SIZE,  \* of AncestorsRev
    MaxBodies        \* a bound: bodies that are stored

ASSUME BlockAssumption ==
    /\ MainParent \in [MainBlock -> MainBlock \cup {Zero}]
    /\ Work \in [MainBlock -> Nat \ {0}]
    /\ Commitment \in [MainBlock -> SideBlock \cup {NoBlock}]
    /\ PrevSide \in [SideBlock -> SideBlock \cup {NoBlock}]
    /\ PrevMain \in [SideBlock -> MainBlock \cup {Zero}]
    /\ Zero \notin MainBlock /\ NoBlock \notin SideBlock
ASSUME BatchAssumption == MAX_BATCH_SIZE \in Nat \ {0} /\ MaxBodies \in Nat

VARIABLE archive   \* the databases

BmmResult == {"Verified", "Failed"}

\* main_ancestors and ancestors: a block and its ancestors, newest first.
MainAncestors[m \in MainBlock \cup {Zero}] ==
    IF m = Zero THEN << >> ELSE <<m>> \o MainAncestors[MainParent[m]]
Ancestors[b \in SideBlock \cup {NoBlock}] ==
    IF b = NoBlock THEN << >> ELSE <<b>> \o Ancestors[PrevSide[b]]

\* No block is its own ancestor, since it has the hash of its parent: the
\* recursions end.
ASSUME LineageAssumption ==
    /\ MainAncestors \in [MainBlock \cup {Zero} -> Seq(MainBlock)]
    /\ MainAncestors[Zero] = << >>
    /\ \A m \in MainBlock : MainAncestors[m] = <<m>> \o MainAncestors[MainParent[m]]
    /\ Ancestors \in [SideBlock \cup {NoBlock} -> Seq(SideBlock)]
    /\ Ancestors[NoBlock] = << >>
    /\ \A b \in SideBlock : Ancestors[b] = <<b>> \o Ancestors[PrevSide[b]]

\* What the puts of a database do: one entry, several, and one of a set.
PutEntry(f, key, value) ==
    [x \in DOMAIN f \cup {key} |-> IF x = key THEN value ELSE f[x]]
PutAll(f, g) ==
    [x \in DOMAIN f \cup DOMAIN g |-> IF x \in DOMAIN g THEN g[x] ELSE f[x]]
AddSuccessor(f, parent, child) ==
    [x \in DOMAIN f \cup {parent, child} |->
        (IF x \in DOMAIN f THEN f[x] ELSE {}) \cup (IF x = parent THEN {child} ELSE {})]

-----------------------------------------------------------------------------
\* The u32 ilog2.
Log2(n) == CHOOSE i \in 0..n : 2^i =< n /\ n < 2^(i + 1)

\* One turn of the loop of get_nth_ancestor and get_nth_main_ancestor, n blocks
\* before the result.  The i-th element of a vector is the ancestor 2^i blocks
\* before.
StepBack(exponential, parent, at) ==
    CASE at.n = 0 -> at
      [] at.n = 1 -> [block |-> parent[at.block], n |-> 0]
      [] OTHER -> [block |-> exponential[at.block][Log2(at.n)], n |-> at.n - 2^Log2(at.n)]

\* The loop, for n up to the height; it ends after n turns at the latest.
NthIn(exponential, parent, block, n) ==
    LET loop[i \in 0..n] ==
            IF i = 0 THEN [block |-> block, n |-> n]
            ELSE StepBack(exponential, parent, loop[i - 1])
    IN  loop[n].block

\* The exponential ancestors of a new block at this height.
Exponentials(exponential, parent, block, height) ==
    LET up(b, n) == NthIn(exponential, parent, b, n)
        vector[i \in 1..Log2(height)] ==
            IF i = 1 THEN up(parent[block], 1) ELSE up(vector[i - 1], 2^(i - 1))
    IN  IF height < 2 THEN << >> ELSE vector

NthAncestor(d, block, n) == NthIn(d.exponential_ancestors, PrevSide, block, n)
NthMainAncestor(d, m, n) == NthIn(d.exponential_main_ancestors, MainParent, m, n)

MainHeight(d, m) == IF m = Zero THEN 0 ELSE d.main_block_hash_to_height[m]

IsDescendant(d, ancestor, descendant) ==
    LET low == d.block_hash_to_height[ancestor]
        high == d.block_hash_to_height[descendant]
    IN  low =< high /\ ancestor = NthAncestor(d, descendant, high - low)

IsMainDescendant(d, ancestor, descendant) ==
    LET low == MainHeight(d, ancestor)
        high == MainHeight(d, descendant)
    IN  low =< high /\ ancestor = NthMainAncestor(d, descendant, high - low)

\* One turn of the binary search for the least depth at which two ancestries
\* agree, given all depths at which they do.
Halve(agree, at) ==
    LET mid == (at.lo + at.hi) \div 2
    IN  IF at.lo >= at.hi THEN at
        ELSE IF mid \in agree THEN [lo |-> at.lo, hi |-> mid] ELSE [lo |-> mid + 1, hi |-> at.hi]

\* Mutant: the oldest block is left out of the search.
SearchShort(agree, height) ==
    LET loop[i \in 0..height] ==
            IF i = 0 THEN [lo |-> 1, hi |-> height - 1] ELSE Halve(agree, loop[i - 1])
    IN  loop[height].hi

\* The search, which ends after that many turns at the latest.
Search(agree, height) ==
    LET loop[i \in 0..height] ==
            IF i = 0 THEN [lo |-> 1, hi |-> height] ELSE Halve(agree, loop[i - 1])
    IN  loop[height].hi

LastCommonAncestor(d, block0, block1) ==
    LET height0 == d.block_hash_to_height[block0]
        height1 == d.block_hash_to_height[block1]
        height == IF height0 < height1 THEN height0 ELSE height1
        low0 == NthAncestor(d, block0, height0 - height)
        low1 == NthAncestor(d, block1, height1 - height)
        agree == {n \in 0..height : NthAncestor(d, low0, n) = NthAncestor(d, low1, n)}
    IN  IF low0 = low1 THEN low0
        ELSE IF height \notin agree THEN NoBlock
        ELSE NthAncestor(d, low0, Search(agree, height))

LastCommonMainAncestor(d, m0, m1) ==
    LET height0 == MainHeight(d, m0)
        height1 == MainHeight(d, m1)
        height == IF height0 < height1 THEN height0 ELSE height1
        low0 == NthMainAncestor(d, m0, height0 - height)
        low1 == NthMainAncestor(d, m1, height1 - height)
        agree == {n \in 0..height : NthMainAncestor(d, low0, n) = NthMainAncestor(d, low1, n)}
    IN  IF low0 = low1 THEN low0 ELSE NthMainAncestor(d, low0, Search(agree, height))

SharedMainchainLineage(d, m0, m1) ==
    IsMainDescendant(d, m0, m1) \/ IsMainDescendant(d, m1, m0)

-----------------------------------------------------------------------------
\* get_bmm_results.
BmmResults(d, block) ==
    IF block \in DOMAIN d.bmm_results THEN d.bmm_results[block] ELSE << >>

\* The mainchain blocks at which a block is verified.
Verifications(d, block) ==
    {m \in DOMAIN BmmResults(d, block) : d.bmm_results[block][m] = "Verified"}

\* Blind merged mining of a block at m: committed to there, and its parent at
\* an ancestor of m.
BmmVerified(d, block, m) ==
    /\ Commitment[m] = block
    /\ PrevMain[block] = MainParent[m]
    /\ \/ PrevSide[block] = NoBlock
       \/ \E before \in Verifications(d, PrevSide[block]) :
             IsMainDescendant(d, before, m)

Result(d, block, m) == IF BmmVerified(d, block, m) THEN "Verified" ELSE "Failed"

PutMainHeaderInfo(d, m) ==
    LET parent == MainParent[m]
        height == MainHeight(d, parent) + 1
        work == Work[m] + IF parent = Zero THEN 0 ELSE d.total_work[parent]
        vector == Exponentials(d.exponential_main_ancestors, MainParent, m, height)
    IN  [d EXCEPT
            !.main_header_infos = @ \cup {m},
            !.main_block_hash_to_height = PutEntry(@, m, height),
            !.total_work = PutEntry(@, m, work),
            !.main_successors = AddSuccessor(@, parent, m),
            !.exponential_main_ancestors = PutEntry(@, m, vector)]

PutMainBlockInfo(d, m) ==
    LET stored == [d EXCEPT !.main_block_infos = @ \cup {m}]
        block == Commitment[m]
        results == PutEntry(BmmResults(d, block), m, Result(d, block, m))
    IN  IF block \in d.headers
        THEN [stored EXCEPT !.bmm_results = PutEntry(@, block, results)]
        ELSE stored

\* put_header, of a new header or of one that is stored.
PutHeader(d, block) ==
    LET parent == PrevSide[block]
        height == IF parent = NoBlock THEN 0 ELSE d.block_hash_to_height[parent] + 1
        vector == Exponentials(d.exponential_ancestors, PrevSide, block, height)
        results == [m \in d.main_successors[PrevMain[block]] |-> Result(d, block, m)]
    IN  [d EXCEPT
            !.headers = @ \cup {block},
            !.block_hash_to_height = PutEntry(@, block, height),
            !.successors = AddSuccessor(@, parent, block),
            !.exponential_ancestors = PutEntry(@, block, vector),
            !.bmm_results = PutEntry(@, block, PutAll(BmmResults(d, block), results))]

-----------------------------------------------------------------------------
\* Archive::new.
ArchiveInit ==
    archive = [main_header_infos |-> {}, main_block_infos |-> {},
               main_block_hash_to_height |-> << >>, total_work |-> << >>,
               main_successors |-> [m \in {Zero} |-> {}],
               exponential_main_ancestors |-> << >>,
               headers |-> {}, bodies |-> {},
               block_hash_to_height |-> << >>,
               successors |-> [b \in {NoBlock} |-> {}],
               exponential_ancestors |-> << >>, bmm_results |-> << >>]

\* How many of a block and its ancestors come before the first that is stored.
Missing(ancestors, stored) ==
    LET first == SelectInSeq(ancestors, LAMBDA a : a \in stored)
    IN  IF first = 0 THEN Len(ancestors) ELSE first - 1

PutMain(d, m) == PutMainBlockInfo(PutMainHeaderInfo(d, m), m)

\* request_ancestor_infos: all that are missing, the oldest first, in one write
\* transaction.
RequestAncestorInfos(m) ==
    /\ m \notin archive.main_header_infos
    /\ LET missing == Missing(MainAncestors[m], archive.main_header_infos)
           put[i \in 0..missing] ==
               IF i = 0 THEN archive
               ELSE PutMain(put[i - 1], MainAncestors[m][missing + 1 - i])
       IN  archive' = put[missing]

\* The mainchain parent is known, or put_header fails and the write
\* transaction is dropped.
MainParentKnown(block) == PrevMain[block] \in DOMAIN archive.main_successors

\* The net task stores the headers of a response that it has not got.
StoreHeaders(end) ==
    /\ end \notin archive.headers
    /\ LET missing == Missing(Ancestors[end], archive.headers)
           put[i \in 0..missing] ==
               IF i = 0 THEN archive
               ELSE PutHeader(put[i - 1], Ancestors[end][missing + 1 - i])
       IN  /\ \A i \in 1..missing : MainParentKnown(Ancestors[end][i])
           /\ archive' = put[missing]

\* submit_block stores the header, again if it is stored already, and so does
\* connect_tip_, whose put_body then changes nothing.
SubmitHeader(block) ==
    /\ PrevSide[block] \in archive.headers \cup {NoBlock}
    /\ MainParentKnown(block)
    /\ archive' = PutHeader(archive, block)

\* put_body, of a response to the net task or by submit_block.
StoreBody(block) ==
    /\ block \in archive.headers
    /\ Cardinality(archive.bodies) < MaxBodies
    /\ archive' = [archive EXCEPT !.bodies = @ \cup {block}]

ArchiveNext ==
    \/ \E m \in MainBlock : RequestAncestorInfos(m)
    \/ \E block \in SideBlock : \/ StoreHeaders(block)
                                \/ SubmitHeader(block)
                                \/ StoreBody(block)

ArchiveSpec == ArchiveInit /\ [][ArchiveNext]_archive

-----------------------------------------------------------------------------
\* A batch of AncestorsRev, oldest first.
Batch(d, block, from, size) ==
    LET end == d.block_hash_to_height[block]
        newest == NthAncestor(d, block, end + 1 - from - size)
    IN  Reverse(SubSeq(Ancestors[newest], 1, size))

\* AncestorsRev: from the start height to the block, in batches.
AncestorsRev(d, block, start) ==
    LET end == d.block_hash_to_height[block]
        batches[from \in Nat] ==
            LET left == end + 1 - from
                size == IF left < MAX_BATCH_SIZE THEN left ELSE MAX_BATCH_SIZE
            IN  IF from > end THEN << >>
                ELSE Batch(d, block, from, size) \o batches[from + size]
    IN  batches[start]

\* The filter of both: the blocks without a body.
WithoutBody(d, blocks) ==
    LET kept[i \in 0..Len(blocks)] ==
            IF i = 0 THEN << >>
            ELSE IF blocks[i] \in d.bodies THEN kept[i - 1]
            ELSE Append(kept[i - 1], blocks[i])
    IN  kept[Len(blocks)]

\* iter_missing_bodies.
IterMissingBodies(d, block, start) == WithoutBody(d, AncestorsRev(d, block, start))

\* get_missing_bodies: up to the ancestor, which is excluded.
GetMissingBodies(d, block, ancestor) ==
    LET all == Ancestors[block]
        Stops(i) == all[i] = ancestor
        taken == IF \E i \in DOMAIN all : Stops(i)
                 THEN SubSeq(all, 1, (CHOOSE i \in DOMAIN all : Stops(i)) - 1)
                 ELSE all
    IN  Reverse(WithoutBody(d, taken))

-----------------------------------------------------------------------------
Tips(d) ==
    {tip \in [block_hash : d.headers, main_block_hash : d.main_block_infos] :
        tip.main_block_hash \in Verifications(d, tip.block_hash)}

\* The first ancestor of a block whose prev_main_hash is before a mainchain
\* block.
AncestorBefore(d, block, m) ==
    LET found == SelectInSeq(Ancestors[block],
                             LAMBDA a : PrevMain[a] # m /\ IsMainDescendant(d, PrevMain[a], m))
    IN  IF found = 0 THEN NoBlock ELSE Ancestors[block][found]

HeightOption(d, block) ==
    IF block = NoBlock THEN 0 ELSE d.block_hash_to_height[block] + 1

\* The total work at the ancestor of m that follows the block's prev_main_hash.
WorkOption(d, block, m) ==
    IF block = NoBlock THEN 0
    ELSE LET height == MainHeight(d, PrevMain[block]) + 1
         IN  d.total_work[NthMainAncestor(d, m, MainHeight(d, m) - height)]

Height(d, tip) == d.block_hash_to_height[tip.block_hash]

\* Whether less work and more height win: the ancestor from before the
\* branches is not lower than the other tip.
HeightWins(d, higher, heavier, common) ==
    HeightOption(d, AncestorBefore(d, higher.block_hash, common)) >= Height(d, heavier) + 1

\* Mutant: equal heights before the branches are enough.
SecondBeforeOnTie(d, tip0, tip1, common) ==
    HeightOption(d, AncestorBefore(d, tip0.block_hash, common))
        =< HeightOption(d, AncestorBefore(d, tip1.block_hash, common))

\* With equal work and height: which tip was ahead before the branches, with
\* the more height or else with the less work.
SecondBefore(d, tip0, tip1, common) ==
    LET before0 == AncestorBefore(d, tip0.block_hash, common)
        before1 == AncestorBefore(d, tip1.block_hash, common)
    IN  \/ HeightOption(d, before0) < HeightOption(d, before1)
        \/ /\ HeightOption(d, before0) = HeightOption(d, before1)
           /\ WorkOption(d, before0, common) > WorkOption(d, before1, common)

\* better_tip(tip0, tip1) = Some(tip1).
Better(d, tip0, tip1) ==
    LET work0 == d.total_work[tip0.main_block_hash]
        work1 == d.total_work[tip1.main_block_hash]
        shared == SharedMainchainLineage(d, tip0.main_block_hash, tip1.main_block_hash)
        common == LastCommonMainAncestor(d, tip0.main_block_hash, tip1.main_block_hash)
    IN  /\ tip0 # tip1
        /\ Height(d, tip1) # 0
        /\ \/ Height(d, tip0) = 0
           \/ /\ Height(d, tip0) < Height(d, tip1)
              /\ work0 > work1 => HeightWins(d, tip1, tip0, common)
           \/ /\ Height(d, tip0) > Height(d, tip1)
              /\ work0 < work1
              /\ ~HeightWins(d, tip0, tip1, common)
           \/ /\ Height(d, tip0) = Height(d, tip1)
              /\ \/ work0 < work1 /\ ~shared
                 \/ work0 > work1 /\ shared
                 \/ /\ work0 = work1
                    /\ tip0.block_hash # tip1.block_hash
                    /\ SecondBefore(d, tip0, tip1, common)

\* Mutant: any higher tip of a peer is better.
HigherPeerTipAny(d, tip, peer, common) == TRUE

\* check_peer_tip_and_request_headers, of a peer's tip with more height and
\* less work: the ancestor from before the branches is not lower than the tip.
HigherPeerTip(d, tip, peer, common) ==
    ~(HeightOption(d, AncestorBefore(d, peer.block_hash, common)) < Height(d, tip) + 1)

\* ... with less height and more work: the one of the tip is lower.
LowerPeerTip(d, tip, peer, common) ==
    ~(HeightOption(d, AncestorBefore(d, tip.block_hash, common)) >= Height(d, peer) + 1)

\* ... with the same height and work.
EqualPeerTip(d, tip, peer, common) ==
    LET before == AncestorBefore(d, tip.block_hash, common)
        peer_before == AncestorBefore(d, peer.block_hash, common)
        work == WorkOption(d, before, common)
        peer_work == WorkOption(d, peer_before, common)
        height == HeightOption(d, before)
        peer_height == HeightOption(d, peer_before)
    IN  ~((work <= peer_work /\ height = peer_height) \/ height > peer_height)

\* The result of check_peer_tip_and_request_headers, with the headers that are
\* known: whether the peer's tip may be better, and if its headers were
\* requested.  The comparison of heights and work comes first if it decides.
CheckPeerTip(d, known, tip, peer) ==
    LET work == d.total_work[tip.main_block_hash]
        peer_work == d.total_work[peer.main_block_hash]
        shared == SharedMainchainLineage(d, tip.main_block_hash, peer.main_block_hash)
        common == LastCommonMainAncestor(d, tip.main_block_hash, peer.main_block_hash)
        has_header == peer.block_hash \in known
        higher == Height(d, tip) < Height(d, peer)
        equal == Height(d, tip) = Height(d, peer)
        worse == \/ work >= peer_work /\ ~higher /\ ~equal
                 \/ work < peer_work /\ equal /\ shared
                 \/ work > peer_work /\ equal /\ ~shared
                 \/ work < peer_work /\ ~higher /\ ~equal /\ ~LowerPeerTip(d, tip, peer, common)
                 \/ work > peer_work /\ higher /\ has_header /\ ~HigherPeerTip(d, tip, peer, common)
                 \/ work = peer_work /\ equal /\ peer.block_hash = tip.block_hash
                 \/ work = peer_work /\ equal /\ has_header /\ ~EqualPeerTip(d, tip, peer, common)
    IN  IF worse THEN "None" ELSE IF has_header THEN "Available" ELSE "Requested"

-----------------------------------------------------------------------------
\* The databases have their types: every vector reaches as far as the height
\* allows, heights and work are those of the stored headers, and bodies have
\* headers (the heights, vectors and successors that get_nth_ancestor and
\* get_successors index without a check).
ArchiveTypeOK ==
    LET d == archive
    IN  /\ d.main_header_infos = d.main_block_infos
        /\ d.main_block_infos \subseteq MainBlock
        /\ d.bodies \subseteq d.headers /\ d.headers \subseteq SideBlock
        /\ d.main_block_hash_to_height \in [d.main_header_infos -> Nat \ {0}]
        /\ d.total_work \in [d.main_header_infos -> Nat]
        /\ d.main_successors \in
              [d.main_header_infos \cup {Zero} -> SUBSET d.main_header_infos]
        /\ d.block_hash_to_height \in [d.headers -> Nat]
        /\ d.successors \in [d.headers \cup {NoBlock} -> SUBSET d.headers]
        /\ DOMAIN d.exponential_ancestors = d.headers
        /\ DOMAIN d.exponential_main_ancestors = d.main_header_infos
        /\ DOMAIN d.bmm_results = d.headers
        /\ \A b \in d.headers :
              /\ DOMAIN d.bmm_results[b] \subseteq d.main_header_infos
              /\ Range(d.bmm_results[b]) \subseteq BmmResult

\* Walking the skip lists is walking the parents: get_nth_ancestor and
\* get_nth_main_ancestor return the n-th ancestor for every n up to the
\* height, in whatever order and batches the headers were stored.
AncestorsExact ==
    /\ \A b \in archive.headers : \A n \in 0..archive.block_hash_to_height[b] :
          NthAncestor(archive, b, n) = Ancestors[b][n + 1]
    /\ \A m \in archive.main_header_infos : \A n \in 0..MainHeight(archive, m) :
          NthMainAncestor(archive, m, n) = Append(MainAncestors[m], Zero)[n + 1]

\* The newest block that two ancestries share.
Newest(ancestors0, ancestors1, none) ==
    LET shared == SelectInSeq(ancestors0, LAMBDA a : a \in Range(ancestors1))
    IN  IF shared = 0 THEN none ELSE ancestors0[shared]

\* The binary searches of last_common_ancestor and last_common_main_ancestor
\* find the newest shared block, or report that there is none, and
\* is_descendant and shared_mainchain_lineage decide what they say.
CommonAncestorsExact ==
    /\ \A b0, b1 \in archive.headers :
          /\ LastCommonAncestor(archive, b0, b1) =
                Newest(Ancestors[b0], Ancestors[b1], NoBlock)
          /\ IsDescendant(archive, b0, b1) <=> b0 \in Range(Ancestors[b1])
    /\ \A m0, m1 \in archive.main_header_infos :
          /\ LastCommonMainAncestor(archive, m0, m1) =
                Newest(MainAncestors[m0], MainAncestors[m1], Zero)
          /\ SharedMainchainLineage(archive, m0, m1) <=>
                m0 \in Range(MainAncestors[m1]) \/ m1 \in Range(MainAncestors[m0])

\* The mainchain commits to the block and to each of its ancestors, the newest
\* first, at these mainchain blocks, each before the last.
Commits(at, b) ==
    \A i \in 1..Len(Ancestors[b]) :
        /\ Commitment[at[i]] = Ancestors[b][i]
        /\ PrevMain[Ancestors[b][i]] = MainParent[at[i]]
        /\ i < Len(Ancestors[b]) => at[i + 1] \in Range(MainAncestors[at[i]])

\* Where it commits to a block and to all its ancestors before.
CommittedAt ==
    [b \in SideBlock |->
        {m \in MainBlock :
            \E at \in [1..Len(Ancestors[b]) -> MainBlock] : at[1] = m /\ Commits(at, b)}]

\* A block is verified at a mainchain block exactly if the mainchain commits
\* to it there and to all its ancestors before: put_header and
\* put_main_block_info each work out one half of it, from what is stored by
\* then, and must come to the same in every order.
VerifiedExact ==
    \A b \in archive.headers : \A m \in archive.main_header_infos :
        m \in Verifications(archive, b) <=> m \in CommittedAt[b]

\* "ALL known block hashes MUST be present" in successors: they are the
\* children of each stored block, though put_header stores a header again
\* after its children's.
SuccessorsExact ==
    /\ \A b \in archive.headers \cup {NoBlock} :
          archive.successors[b] = {c \in archive.headers : PrevSide[c] = b}
    /\ \A m \in archive.main_header_infos \cup {Zero} :
          archive.main_successors[m] = {c \in archive.main_header_infos : MainParent[c] = m}

\* iter_missing_bodies, in batches and oldest first, and get_missing_bodies
\* list the same blocks: every one without a body from after an ancestor up to
\* the block, each once and in the order of their heights.
MissingBodiesExact ==
    \A b \in archive.headers : \A a \in Range(Ancestors[b]) :
        LET start == archive.block_hash_to_height[a] + 1
            missing == {c \in Range(Ancestors[b]) \ archive.bodies :
                            archive.block_hash_to_height[c] >= start}
            listed == IterMissingBodies(archive, b, start)
        IN  /\ listed = GetMissingBodies(archive, b, a)
            /\ Range(listed) = missing
            /\ \A i, j \in DOMAIN listed :
                  i < j => archive.block_hash_to_height[listed[i]]
                              < archive.block_hash_to_height[listed[j]]

\* Whichever of two tips is asked for first, at most one is better than the
\* other: two nodes that have one of them each do not swap them for ever.
BetterAntisymmetric ==
    \A tip0, tip1 \in Tips(archive) :
        ~(Better(archive, tip0, tip1) /\ Better(archive, tip1, tip0))

\* "if the mainchain lineage is shared: greater height" (better_tip), whatever
\* the work on top of which the tips were mined.
SharedLineageByHeight ==
    \A tip0, tip1 \in Tips(archive) :
        /\ SharedMainchainLineage(archive, tip0.main_block_hash, tip1.main_block_hash)
        /\ Height(archive, tip0) < Height(archive, tip1)
        => Better(archive, tip0, tip1)

\* "Check if peer tip is better": between tips above genesis, the answer is
\* that of better_tip once the headers are stored, and a tip that is better is
\* never turned away before they are.
PeerCheckAgrees ==
    \A tip, peer \in {t \in Tips(archive) : Height(archive, t) > 0} :
        /\ CheckPeerTip(archive, archive.headers, tip, peer) = "Available"
              <=> Better(archive, tip, peer)
        /\ Better(archive, tip, peer) =>
              CheckPeerTip(archive, archive.headers \ {peer.block_hash}, tip, peer) = "Requested"

\* In every order of arrival of headers, bodies and mainchain blocks, what the
\* archive stores in one step for later lookups (put_header,
\* put_main_header_info, put_main_block_info) gives what a walk over all the
\* headers gives, and so do the lookups that skip and batch.
ArchiveExact ==
    /\ ArchiveTypeOK
    /\ AncestorsExact
    /\ CommonAncestorsExact
    /\ VerifiedExact
    /\ SuccessorsExact
    /\ MissingBodiesExact

\* better_tip is an order that two nodes agree on.
TipOrder == BetterAntisymmetric /\ SharedLineageByHeight

=============================================================================
