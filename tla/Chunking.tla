------------------------------ MODULE Chunking ------------------------------
(***************************************************************************)
(* How the bytes of a file become chunks, and the bytes of a chunk become  *)
(* the hashes of a torrent: FastCdcChunker with its ChunkSizes, and        *)
(* ChunkMerkleHasher.                                                      *)
(*                                                                         *)
(* Contents are sequences of bytes of a small alphabet.  The chunker's     *)
(* arithmetic is kept as it is, with the sizes, the masks and the width of *)
(* the fingerprint as parameters.  Hashes are symbolic: a block's hash is  *)
(* the block, a pair's hash is the pair.                                   *)
(***************************************************************************)
EXTENDS Naturals, Sequences, FiniteSetsExt

CONSTANTS
    Gear,           \* the table: what each byte adds to the fingerprint
    Width,          \* bits of the fingerprint (64)
    Minimum,        \* sizes of a chunk
    AverageBits,    \* the average is 2^AverageBits
    Maximum,
    ExtraBits,      \* bits the small mask has more, the large mask fewer (2)
    BlockBytes,     \* a leaf of the torrent's trees
    PieceBytes      \* a piece of the torrent

Average == 2 ^ AverageBits

\* what ChunkSizes.Create demands, and what a torrent's pieces are
ASSUME ChunkSizesAssumption ==
    /\ Minimum \in 1 .. (Average - 1)
    /\ Maximum \in Nat /\ Maximum > Average
    /\ ExtraBits \in 1 .. AverageBits
    /\ BlockBytes \in Nat \ {0}
    /\ \E k \in 0 .. 10: PieceBytes = BlockBytes * 2 ^ k

Lesser(a, b) == IF a < b THEN a ELSE b

SmallMask == 2 ^ (AverageBits + ExtraBits)
LargeMask == 2 ^ (AverageBits - ExtraBits)

(***************************************************************************)
(* FastCdcChunker.                                                         *)
(***************************************************************************)
\* the fingerprint after the byte at each position, taken up at the minimum
Fingerprint(data) ==
    LET print[p \in Minimum .. (Len(data) - 1)] ==
            LET before == IF p = Minimum THEN 0 ELSE print[p - 1]
            IN  ((before \div 2) + Gear[data[p + 1]]) % 2 ^ Width
    IN  print

\* positions whose fingerprint has only zeros under the mask of their zone
Cuts(data, limit) ==
    LET print == Fingerprint(data)
        normalPoint == Lesser(limit, Average)
    IN  {p \in Minimum .. (limit - 1):
            print[p] % (IF p < normalPoint THEN SmallMask ELSE LargeMask) = 0}

NextBoundary(data) ==
    LET limit == Lesser(Len(data), Maximum)
        cuts == Cuts(data, limit)
    IN  IF Len(data) <= Minimum THEN Len(data)
        ELSE IF cuts = {} THEN limit ELSE Min(cuts) + 1

Split(data) ==
    LET spans[offset \in 0 .. Len(data)] ==
            IF offset = Len(data)
            THEN <<>>
            ELSE LET length == NextBoundary(SubSeq(data, offset + 1, Len(data)))
                 IN  <<[offset |-> offset, length |-> length]>> \o spans[offset + length]
    IN  spans[0]

Slice(data, offset, length) ==
    SubSeq(data, offset + 1, Lesser(offset + length, Len(data)))

(***************************************************************************)
(* ChunkMerkleHasher.                                                      *)
(***************************************************************************)
ZeroHash == <<>>
CombinePair(left, right) == <<left, right>>

Quotient(bytes, unit) == (bytes + unit - 1) \div unit

BlockCount(bytes) == Quotient(bytes, BlockBytes)
PieceCount(bytes) == Quotient(bytes, PieceBytes)
BlocksPerPiece == PieceBytes \div BlockBytes

NextPowerOfTwo(value) == Min({2 ^ k: k \in 0 .. value} \ 0 .. (value - 1))

\* Broken: a file of one piece is padded to the whole piece.
LeafTarget_Whole(fileBytes) == BlocksPerPiece

LeafTarget(fileBytes) ==
    IF BlockCount(fileBytes) <= BlocksPerPiece
    THEN NextPowerOfTwo(IF BlockCount(fileBytes) = 0 THEN 1 ELSE BlockCount(fileBytes))
    ELSE BlocksPerPiece

LeafHashes(data) ==
    [b \in 1 .. BlockCount(Len(data)) |-> <<Slice(data, (b - 1) * BlockBytes, BlockBytes)>>]

\* round after round, neighbours become their parent until one is left
Fold(leaves, leafTarget) ==
    LET rounds == Min({k \in 0 .. leafTarget: 2 ^ k >= leafTarget})
        level[k \in 0 .. rounds] ==
            IF k = 0
            THEN [i \in 1 .. leafTarget |-> IF i <= Len(leaves) THEN leaves[i] ELSE ZeroHash]
            ELSE [i \in 1 .. (Len(level[k - 1]) \div 2) |->
                    CombinePair(level[k - 1][2 * i - 1], level[k - 1][2 * i])]
    IN  level[rounds][1]

\* the roots VirtualChunkSetTorrent sets for a file of these bytes
PieceRoots(data) ==
    LET target == IF PieceCount(Len(data)) = 1 THEN LeafTarget(Len(data)) ELSE BlocksPerPiece
    IN  [n \in 1 .. PieceCount(Len(data)) |->
            Fold(LeafHashes(Slice(data, (n - 1) * PieceBytes, PieceBytes)), target)]

(***************************************************************************)
(* The reference: a v2 torrent hashes a file as one balanced tree over its *)
(* blocks, filled up with zeros.  The piece layer is the nodes of that tree*)
(* at the height of a piece, or the root when the file is no larger.       *)
(***************************************************************************)
FileTreeNodes(data) ==
    LET blocks == BlockCount(Len(data))
        Leaf(b) == IF b <= blocks THEN LeafHashes(data)[b] ELSE ZeroHash
        whole == NextPowerOfTwo(blocks)
        height == Lesser(whole, BlocksPerPiece)
        node[size \in {2 ^ k: k \in 0 .. blocks}, first \in 1 .. 2 * whole] ==
            IF size = 1
            THEN Leaf(first)
            ELSE CombinePair(node[size \div 2, first], node[size \div 2, first + size \div 2])
    IN  [n \in 1 .. PieceCount(Len(data)) |-> node[height, (n - 1) * BlocksPerPiece + 1]]
=============================================================================
