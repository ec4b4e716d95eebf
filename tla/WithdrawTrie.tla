---------------------------- MODULE WithdrawTrie ----------------------------
(***************************************************************************)
(* The append-only Merkle tree of withdrawals, three times: as the         *)
(* contract L2MessageQueue keeps it, as the contract on layer 1 verifies a *)
(* proof against its root, and as bridge-history-api rebuilds it from the  *)
(* last proof it stored.                                                   *)
(*                                                                         *)
(* Hashes are terms: <<>> is the zero hash, <<m>> the hash of message m,   *)
(* and Keccak2 pairs two hashes.  branches[h] is the subtree at height h.  *)
(***************************************************************************)
EXTENDS Integers, Sequences

CONSTANT MaxHeight      \* the height of the arrays; 40 in the code

Keccak2(a, b) == <<a, b>>

Heights == 0 .. MaxHeight - 1

Zeroes[h \in Heights] == IF h = 0 THEN <<>> ELSE Keccak2(Zeroes[h - 1], Zeroes[h - 1])

\* the index of the node at height h above leaf index
Above(index, h) == index \div 2 ^ h
IsLeft(index, h) == Above(index, h) % 2 = 0
Sibling(i) == IF i % 2 = 0 THEN i + 1 ELSE i - 1

\* the number of levels over a leaf, in a tree that ends with it
LevelsOf(index) == CHOOSE h \in Heights :
                      Above(index, h) = 0 /\ (h = 0 \/ Above(index, h - 1) > 0)

\* the nodes on the path from the last leaf to the root, given its siblings
PathOf(index, leaf, siblings) ==
    LET path[h \in 0 .. LevelsOf(index)] ==
            IF h = 0 THEN leaf
            ELSE IF IsLeft(index, h - 1) THEN Keccak2(path[h - 1], siblings[h - 1])
            ELSE Keccak2(siblings[h - 1], path[h - 1])
    IN  path

-----------------------------------------------------------------------------
(* The contracts *)

EmptyBranches == [h \in Heights |-> <<>>]

\* of the branches, those that the next leaf will need, and the root
StoredBranches(index, path, branches) ==
    [h \in Heights |-> IF h = LevelsOf(index) \/ (h < LevelsOf(index) /\ IsLeft(index, h))
                       THEN path[h] ELSE branches[h]]

\* _appendMessageHash
AppendMessageHash(tree, leaf) ==
    LET index == tree.nextMessageIndex
        path  == PathOf(index, leaf,
                    [h \in Heights |-> IF IsLeft(index, h) THEN Zeroes[h] ELSE tree.branches[h]])
    IN  [nextMessageIndex |-> index + 1,
         branches         |-> StoredBranches(index, path, tree.branches),
         messageRoot      |-> path[LevelsOf(index)]]

\* the root after the messages 0 .. n - 1
MessageRoot(n) ==
    LET tree[k \in 0 .. n] ==
            IF k = 0 THEN [nextMessageIndex |-> 0, branches |-> EmptyBranches, messageRoot |-> <<>>]
            ELSE AppendMessageHash(tree[k - 1], <<k - 1>>)
    IN  tree[n].messageRoot

VerifyMerkleProof(root, leaf, nonce, proof) ==
    LET hash[i \in 0 .. Len(proof)] ==
            IF i = 0 THEN leaf
            ELSE IF IsLeft(nonce, i - 1) THEN Keccak2(hash[i - 1], proof[i])
            ELSE Keccak2(proof[i], hash[i - 1])
    IN  hash[Len(proof)] = root

-----------------------------------------------------------------------------
(* bridge-history-api *)

NewWithdrawTrie == [NextMessageNonce |-> 0, height |-> -1, branches |-> EmptyBranches]

\* variant: the sibling on the left is not kept
ForgetfulBranch(proof, index, leaf) ==
    LET path == PathOf(index, leaf, [h \in 0 .. LevelsOf(index) - 1 |-> proof[h + 1]])
    IN  StoredBranches(index, path, EmptyBranches)

RecoverBranchFromProof(proof, index, leaf) ==
    LET siblings == [h \in Heights |-> IF h < LevelsOf(index) THEN proof[h + 1] ELSE <<>>]
    IN  StoredBranches(index, PathOf(index, leaf, siblings), siblings)

\* a trie whose last message is known together with its proof
Initialize(nonce, leaf, proof) ==
    [NextMessageNonce |-> nonce + 1, height |-> Len(proof),
     branches |-> RecoverBranchFromProof(proof, nonce, leaf)]

\* the nodes AppendMessages has in its cache: stored branches on the left of
\* the new leaves, zero hashes on their right, and what it computed
RECURSIVE CachedNode(_, _, _, _)
CachedNode(trie, leaves, h, i) ==
    LET minIndex == Above(trie.NextMessageNonce, h)
        maxIndex == Above(trie.NextMessageNonce + Len(leaves) - 1, h)
    IN  CASE i > maxIndex -> Zeroes[h]
          [] i < minIndex -> IF h <= trie.height THEN trie.branches[h] ELSE <<>>
          [] OTHER -> IF h = 0 THEN leaves[i - trie.NextMessageNonce + 1]
                      ELSE Keccak2(CachedNode(trie, leaves, h - 1, 2 * i),
                                   CachedNode(trie, leaves, h - 1, 2 * i + 1))

\* the proofs of the new messages in the tree after all of them
AppendMessages(trie, leaves) ==
    LET last == trie.NextMessageNonce + Len(leaves) - 1
    IN  [k \in 1 .. Len(leaves) |->
            [h \in 1 .. LevelsOf(last) |->
                CachedNode(trie, leaves, h - 1,
                           Sibling(Above(trie.NextMessageNonce + k - 1, h - 1)))]]
=============================================================================
