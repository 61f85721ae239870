--------------------------- MODULE BlockchainProofs ---------------------------
(***************************************************************************)
(* Proofs about Blockchain, for any number of gossipers, any peers, any    *)
(* names and contents and any bound on what is mined.                      *)
(*                                                                         *)
(* A mined block never changes: it is one deeper than its parent and its   *)
(* chain is its parent's with itself, so the tree below a tail can be read *)
(* off the blocks alone.  A received block moves the tail nowhere or one   *)
(* level deeper.  Where the loop variable of InitFromSlice is a new one in *)
(* every iteration, the blocks of a chain share no name with each other    *)
(* and none with what is pending above it: what a roll-back returns was on *)
(* the old chain only.                                                     *)
(***************************************************************************)
EXTENDS Blockchain, FiniteSetTheorems, SequenceTheorems, WellFoundedInduction, TLAPS

\* What the fields of a mined block say of the blocks before it.  Name may be
\* infinite: that the names are few is what makes SliceCopies a set of slices.
NodeOK(b) ==
  /\ PrevHash(b) \in 0..(b - 1)
  /\ mined[b].depth = Depth(PrevHash(b)) + 1
  /\ mined[b].chain = Chain(PrevHash(b)) \cup {b}
  /\ mined[b].chain \subseteq 1..b
  /\ IsFiniteSet(NamesIn(mined[b].chain))

Nodes == \A b \in Hash : NodeOK(b)

BlocksExist == \A m \in net : m.kind = "block" => m.block \in Hash

FewPending == \A g \in Gossiper : IsFiniteSet(Names(pendingTx[g]))

IInv == TypeOK /\ Nodes /\ BlocksExist /\ FewPending /\ TailEndsLongestChain

\* Any two blocks of one chain, not only its last block and another.
BranchNames ==
  \A b \in Hash : \A c, d \in Chain(b) :
     c # d => Registered(c) \cap Registered(d) = {}

BlockNames ==
  \A b \in Hash : \A i, j \in DOMAIN mined[b].txs :
     mined[b].txs[i].name = mined[b].txs[j].name => i = j

NamesInv == PendingUnderOwnName /\ PendingIsUnregistered /\ BranchNames /\ BlockNames

OwnNames(ts) == \A n \in Names(ts) : ts[n].name = n

NewBlock == Len(mined) + 1

\* What the three ways to append a block have in common: g's tail becomes t.
MovesTo(g, t) ==
  /\ tail' = [tail EXCEPT ![g] = t]
  /\ pendingTx' = [pendingTx EXCEPT ![g] =
                     Subtract(RollBack(@, Chain(tail[g]) \ Chain(t)),
                              NamesIn(Chain(t) \ Chain(tail[g])))]

-----------------------------------------------------------------------------
\* Least elements

(***************************************************************************)
(* A set of natural numbers that is not empty has a least element. (The    *)
(* induction theorems take an operator, which no prover here can           *)
(* instantiate; that < on Nat is well-founded is stated without one.)      *)
(***************************************************************************)
LEMMA LeastNat ==
  ASSUME NEW S \in SUBSET Nat, S # {}
  PROVE  \E m \in S : \A n \in S : m <= n
<1> DEFINE R == {p \in Nat \X Nat : p[1] < p[2]}
<1>1. R = OpToRel(<, Nat)
  BY DEF OpToRel
<1>2. IsWellFoundedOn(R, Nat)
  BY <1>1, NatLessThanWellFounded
<1> HIDE DEF R
<1>3. \A m, n \in Nat : n < m => <<n, m>> \in R
  BY DEF R
<1>4. PICK m \in S : \A n \in S : ~(<<n, m>> \in R)
  BY <1>2, WFMin
<1>5. ASSUME NEW n \in S PROVE m <= n
  <2>1. m \in Nat /\ n \in Nat /\ ~(n < m)
    BY <1>3, <1>4
  <2> QED BY <2>1
<1> QED BY <1>5

(***************************************************************************)
(* Among some blocks one is the shallowest: the CHOOSE of RollBack has     *)
(* something to choose.                                                    *)
(***************************************************************************)
LEMMA Shallowest ==
  ASSUME NEW bs, bs # {}, \A b \in bs : Depth(b) \in Nat
  PROVE  \E b \in bs : \A c \in bs : Depth(b) <= Depth(c)
<1> DEFINE S == {Depth(b) : b \in bs}
<1>1. S \in SUBSET Nat /\ S # {}
  OBVIOUS
<1>2. PICK m \in S : \A n \in S : m <= n
  BY <1>1, LeastNat
<1>3. PICK b \in bs : Depth(b) = m
  BY <1>2
<1>4. \A c \in bs : Depth(c) \in S
  OBVIOUS
<1> HIDE DEF S
<1> QED BY <1>2, <1>3, <1>4

-----------------------------------------------------------------------------
\* Sets of transactions

(***************************************************************************)
(* InitFromSlice makes a set of transactions whose names are those of the  *)
(* slice; with a new loop variable in every iteration each entry stands    *)
(* under its own name.                                                     *)
(***************************************************************************)
LEMMA SetOfSlice ==
  ASSUME NEW txs \in Seq(Tx)
  PROVE  /\ InitFromSlice(txs) \in TransactionsSet
         /\ Names(InitFromSlice(txs)) = {txs[i].name : i \in DOMAIN txs}
         /\ FreshLoopVar => OwnNames(InitFromSlice(txs))
<1> DEFINE with(n) == {i \in DOMAIN txs : txs[i].name = n}
           first(n) == CHOOSE i \in DOMAIN txs :
                     /\ txs[i].name = n
                     /\ \A j \in DOMAIN txs : txs[j].name = n => i <= j
           ts == InitFromSlice(txs)
<1>1. Len(txs) \in Nat /\ DOMAIN txs = 1..Len(txs) /\ \A i \in DOMAIN txs : txs[i] \in Tx
  BY LenProperties, ElementOfSeq
<1>2. \A t \in Tx : t.name \in Name /\ t # NoTx
  BY NoTxAssumption DEF Tx
<1>3. ASSUME NEW n \in Name, NEW k \in DOMAIN txs, txs[k].name = n
      PROVE  first(n) \in DOMAIN txs /\ txs[first(n)].name = n
  <2>1. with(n) \in SUBSET Nat /\ with(n) # {}
    BY <1>1, <1>3
  <2>2. \E i \in with(n) : \A j \in with(n) : i <= j
    BY <2>1, LeastNat
  <2>3. \E i \in DOMAIN txs : /\ txs[i].name = n
                              /\ \A j \in DOMAIN txs : txs[j].name = n => i <= j
    BY <2>2
  <2> QED BY <2>3
<1>4. ASSUME NEW n \in Name, NEW k \in DOMAIN txs, txs[k].name = n
      PROVE  ts[n] \in Tx /\ (FreshLoopVar => ts[n].name = n)
  <2>1. ts[n] = IF FreshLoopVar THEN txs[first(n)] ELSE txs[Len(txs)]
    BY <1>4 DEF InitFromSlice
  <2>2. Len(txs) \in DOMAIN txs
    BY <1>1
  <2> HIDE DEF ts, first
  <2> QED BY <1>1, <1>3, <1>4, <2>1, <2>2
<1>5. ASSUME NEW n \in Name, ~ \E k \in DOMAIN txs : txs[k].name = n
      PROVE  ts[n] = NoTx
  BY <1>5 DEF InitFromSlice
<1>6. ts = [n \in Name |-> ts[n]]
  BY DEF InitFromSlice
<1> HIDE DEF ts
<1>7. ts \in TransactionsSet
  BY <1>4, <1>5, <1>6 DEF TransactionsSet
<1>8. Names(ts) = {txs[i].name : i \in DOMAIN txs}
  BY <1>1, <1>2, <1>4, <1>5 DEF Names
<1>9. FreshLoopVar => OwnNames(ts)
  BY <1>1, <1>2, <1>4, <1>5 DEF Names, OwnNames
<1> QED BY <1>7, <1>8, <1>9 DEF ts

(***************************************************************************)
(* Subtract takes away exactly the names it is given.                      *)
(***************************************************************************)
LEMMA Subtracted ==
  ASSUME NEW ts \in TransactionsSet, NEW names
  PROVE  /\ Subtract(ts, names) \in TransactionsSet
         /\ Names(Subtract(ts, names)) = Names(ts) \ names
         /\ OwnNames(ts) => OwnNames(Subtract(ts, names))
         /\ names = {} => Subtract(ts, names) = ts
BY DEF Subtract, TransactionsSet, Names, OwnNames

(***************************************************************************)
(* A mined block is a node with a slice of transactions and a depth.       *)
(***************************************************************************)
LEMMA NodeFields ==
  ASSUME TypeOK, NEW b \in Hash
  PROVE  /\ Len(mined) \in Nat
         /\ mined[b] \in Node
         /\ mined[b].txs \in Seq(Tx)
         /\ mined[b].depth \in Nat
<1>1. mined \in Seq(Node)
  BY DEF TypeOK
<1>2. Len(mined) \in Nat /\ b \in 1..Len(mined)
  BY <1>1, LenProperties DEF Hash
<1>3. mined[b] \in Node
  BY <1>1, <1>2, ElementOfSeq
<1> QED BY <1>2, <1>3 DEF Node

(***************************************************************************)
(* Rolling back blocks adds exactly their names, each with a transaction   *)
(* of one of them: under its own name, if the loop variable is new in      *)
(* every iteration.                                                        *)
(***************************************************************************)
LEMMA RolledBack ==
  ASSUME TypeOK, NEW ts \in TransactionsSet, NEW bs \in SUBSET Hash,
         \A b \in bs : Depth(b) \in Nat
  PROVE  /\ RollBack(ts, bs) \in TransactionsSet
         /\ Names(RollBack(ts, bs)) = Names(ts) \cup NamesIn(bs)
         /\ FreshLoopVar /\ OwnNames(ts) => OwnNames(RollBack(ts, bs))
         /\ bs = {} => RollBack(ts, bs) = ts
<1> DEFINE with(n) == {b \in bs : n \in Registered(b)}
           top(n) == CHOOSE b \in with(n) : \A c \in with(n) : Depth(b) <= Depth(c)
           new == RollBack(ts, bs)
<1>1. \A n \in Name : new[n] = IF with(n) = {} THEN ts[n] ELSE TxSet(top(n))[n]
  BY DEF RollBack
<1>2. new = [n \in Name |-> new[n]]
  BY DEF RollBack
<1>3. ASSUME NEW n \in Name, with(n) # {}
      PROVE  top(n) \in with(n)
  <2>1. \E b \in with(n) : \A c \in with(n) : Depth(b) <= Depth(c)
    BY <1>3, Shallowest
  <2> QED BY <2>1
<1>4. ASSUME NEW b \in bs
      PROVE  /\ TxSet(b) \in TransactionsSet /\ Names(TxSet(b)) = Registered(b)
             /\ FreshLoopVar => OwnNames(TxSet(b))
  <2>1. mined[b].txs \in Seq(Tx)
    BY NodeFields
  <2> QED BY <2>1, SetOfSlice DEF TxSet, Registered
<1> HIDE DEF new, top
<1>5. ASSUME NEW n \in Name, with(n) # {}
      PROVE  new[n] \in Tx /\ new[n] # NoTx /\ (FreshLoopVar => new[n].name = n)
  <2>1. top(n) \in bs /\ n \in Registered(top(n))
    BY <1>3, <1>5
  <2>2. n \in Names(TxSet(top(n)))
    BY <1>4, <2>1
  <2>3. new[n] = TxSet(top(n))[n]
    BY <1>1, <1>5
  <2> QED BY <1>4, <2>1, <2>2, <2>3 DEF TransactionsSet, Names, OwnNames
<1>6. ASSUME NEW n \in Name PROVE with(n) # {} <=> n \in NamesIn(bs)
  BY DEF NamesIn
<1>7. ASSUME NEW n \in Name, with(n) = {} PROVE new[n] = ts[n]
  BY <1>1, <1>7
<1>8. NamesIn(bs) \subseteq Name
  <2>1. \A b \in bs : Registered(b) \subseteq Name
    BY <1>4 DEF Names
  <2> QED BY <2>1 DEF NamesIn
<1> HIDE DEF with
<1>9. new \in TransactionsSet
  BY <1>2, <1>5, <1>7 DEF TransactionsSet
<1>10. Names(new) = Names(ts) \cup NamesIn(bs)
  BY <1>5, <1>6, <1>7, <1>8 DEF Names
<1>11. FreshLoopVar /\ OwnNames(ts) => OwnNames(new)
  BY <1>5, <1>7 DEF OwnNames, Names
<1>12. bs = {} => new = ts
  <2> HAVE bs = {}
  <2>1. \A n \in Name : new[n] = ts[n]
    BY <1>6, <1>7 DEF NamesIn
  <2> QED BY <1>2, <2>1 DEF TransactionsSet
<1> QED BY <1>9, <1>10, <1>11, <1>12 DEF new

-----------------------------------------------------------------------------
\* The tree

(***************************************************************************)
(* What the fields of the nodes amount to: parents come before their       *)
(* children and are one less deep, and a chain is made of mined blocks,    *)
(* the last one being new to it.                                           *)
(***************************************************************************)
LEMMA TreeFacts ==
  ASSUME TypeOK, Nodes
  PROVE  /\ Len(mined) \in Nat
         /\ \A b \in Hash \cup {0} :
              /\ b \in Nat /\ Depth(b) \in Nat
              /\ Chain(b) \subseteq Hash /\ Chain(b) \subseteq 1..b
              /\ IsFiniteSet(NamesIn(Chain(b)))
         /\ \A b \in Hash :
              /\ b \in Nat /\ b # 0
              /\ PrevHash(b) \in Hash \cup {0} /\ PrevHash(b) < b
              /\ Depth(b) = Depth(PrevHash(b)) + 1
              /\ Chain(b) = Chain(PrevHash(b)) \cup {b}
              /\ b \notin Chain(PrevHash(b))
<1>1. Len(mined) \in Nat
  BY LenProperties DEF TypeOK
<1>2. \A b \in Hash : b \in Nat /\ b # 0 /\ b <= Len(mined)
  BY <1>1 DEF Hash
<1>3. Depth(0) = 0 /\ Chain(0) = {} /\ IsFiniteSet(NamesIn(Chain(0)))
  <2>1. NamesIn({}) = {}
    BY DEF NamesIn
  <2> QED BY <2>1, FS_EmptySet DEF Depth, Chain
<1>4. ASSUME NEW b \in Hash
      PROVE  /\ Depth(b) = mined[b].depth /\ Chain(b) = mined[b].chain
             /\ Depth(b) \in Nat
             /\ Chain(b) \subseteq Hash /\ Chain(b) \subseteq 1..b
             /\ IsFiniteSet(NamesIn(Chain(b)))
             /\ PrevHash(b) \in Hash \cup {0} /\ PrevHash(b) < b
             /\ Depth(b) = Depth(PrevHash(b)) + 1
             /\ Chain(b) = Chain(PrevHash(b)) \cup {b}
  <2>1. NodeOK(b)
    BY DEF Nodes
  <2>2. Depth(b) = mined[b].depth /\ Chain(b) = mined[b].chain
    BY <1>2 DEF Depth, Chain
  <2>3. mined[b].depth \in Nat
    BY NodeFields
  <2>4. /\ PrevHash(b) \in 0..(b - 1) /\ mined[b].depth = Depth(PrevHash(b)) + 1
        /\ mined[b].chain = Chain(PrevHash(b)) \cup {b}
        /\ mined[b].chain \subseteq 1..b
        /\ IsFiniteSet(NamesIn(mined[b].chain))
    BY <2>1 DEF NodeOK
  <2>5. PrevHash(b) \in Hash \cup {0} /\ PrevHash(b) < b
    BY <1>1, <1>2, <2>4 DEF Hash
  <2>6. 1..b \subseteq Hash
    BY <1>1, <1>2 DEF Hash
  <2> QED BY <2>2, <2>3, <2>4, <2>5, <2>6
<1>5. \A b \in Hash \cup {0} :
              /\ b \in Nat /\ Depth(b) \in Nat
              /\ Chain(b) \subseteq Hash /\ Chain(b) \subseteq 1..b
              /\ IsFiniteSet(NamesIn(Chain(b)))
  BY <1>2, <1>3, <1>4
<1>6. \A b \in Hash : b \notin Chain(PrevHash(b))
  <2> SUFFICES ASSUME NEW b \in Hash PROVE b \notin Chain(PrevHash(b))
    OBVIOUS
  <2>1. /\ Chain(PrevHash(b)) \subseteq 1..PrevHash(b)
        /\ PrevHash(b) \in Nat /\ b \in Nat /\ PrevHash(b) < b
    BY <1>2, <1>4, <1>5
  <2> QED BY <2>1
<1> QED BY <1>1, <1>2, <1>4, <1>5, <1>6

(***************************************************************************)
(* A step that mines nothing changes nothing in any block (blocks are      *)
(* immutable; only BlockchainManager's maps change).                       *)
(***************************************************************************)
LEMMA NodesStay ==
  ASSUME mined' = mined
  PROVE  /\ Hash' = Hash
         /\ \A b : /\ Depth(b)' = Depth(b) /\ Chain(b)' = Chain(b)
                   /\ PrevHash(b)' = PrevHash(b) /\ Registered(b)' = Registered(b)
         /\ \A bs : NamesIn(bs)' = NamesIn(bs)
         /\ Nodes => Nodes'
         /\ BranchNames => BranchNames'
         /\ BlockNames => BlockNames'
<1>1. Hash' = Hash
  BY DEF Hash
<1>2. \A b : /\ Depth(b)' = Depth(b) /\ Chain(b)' = Chain(b)
             /\ PrevHash(b)' = PrevHash(b) /\ Registered(b)' = Registered(b)
  BY DEF Depth, Chain, PrevHash, Registered
<1>3. \A bs : NamesIn(bs)' = NamesIn(bs)
  BY <1>2 DEF NamesIn
<1>4. Nodes => Nodes'
  BY <1>1, <1>2, <1>3 DEF Nodes, NodeOK
<1>5. BranchNames => BranchNames'
  BY <1>1, <1>2 DEF BranchNames
<1>6. BlockNames => BlockNames'
  BY <1>1 DEF BlockNames
<1> QED BY <1>1, <1>2, <1>3, <1>4, <1>5, <1>6

-----------------------------------------------------------------------------
\* Blocks received

(***************************************************************************)
(* A received block leaves the tail where it is, because it is no deeper,  *)
(* or becomes the tail itself, one level deeper: appendToTheTree's         *)
(* comparison of depths, which prolonging, a short chain and a fork share. *)
(***************************************************************************)
LEMMA BlockMovesTail ==
  ASSUME IInv, NEW g \in Gossiper, NEW m \in net, ReceiveBlockPublish(g, m)
  PROVE  /\ m.block \in Hash
         /\ \E t \in {tail[g], m.block} :
              /\ MovesTo(g, t)
              /\ t = tail[g] => Depth(m.block) <= Depth(tail[g])
              /\ t # tail[g] => Depth(t) = Depth(tail[g]) + 1
<1> DEFINE b == m.block
<1>1. b \in Hash /\ b \notin blocks[g] /\ PrevHash(b) \in blocks[g]
  BY DEF IInv, BlocksExist, ReceiveBlockPublish
<1>2. /\ tail[g] \in Hash \cup {0} /\ tail[g] \in blocks[g]
      /\ pendingTx[g] \in TransactionsSet
      /\ tail \in [Gossiper -> Hash \cup {0}]
      /\ pendingTx \in [Gossiper -> TransactionsSet]
      /\ \A c \in blocks[g] : Depth(c) <= Depth(tail[g]) /\ Chain(c) \subseteq blocks[g]
  BY DEF IInv, TypeOK, TailEndsLongestChain
<1>3. /\ Depth(b) = Depth(PrevHash(b)) + 1 /\ Depth(PrevHash(b)) \in Nat
      /\ Depth(tail[g]) \in Nat
      /\ Chain(b) = Chain(PrevHash(b)) \cup {b}
      /\ b \notin Chain(PrevHash(b))
  BY <1>1, <1>2, TreeFacts DEF IInv
<1>4. TypeOK
  BY DEF IInv
<1>5. RollBack(pendingTx[g], {}) = pendingTx[g]
  BY <1>2, <1>4, RolledBack
<1>6. Subtract(pendingTx[g], {}) = pendingTx[g]
  BY <1>2, Subtracted
<1>7. NamesIn({}) = {}
  BY DEF NamesIn
<1> HIDE DEF b
<1>8. CASE ProlongLongestChain(g, b)
  <2>1. PrevHash(b) = tail[g] /\ tail' = [tail EXCEPT ![g] = b]
        /\ pendingTx' = [pendingTx EXCEPT ![g] = Subtract(@, NamesIn({b}))]
    BY <1>8 DEF ProlongLongestChain
  <2>2. Chain(tail[g]) \ Chain(b) = {} /\ Chain(b) \ Chain(tail[g]) = {b}
    BY <1>3, <2>1
  <2>3. MovesTo(g, b)
    BY <1>2, <1>5, <2>1, <2>2 DEF MovesTo
  <2>4. b # tail[g] /\ Depth(b) = Depth(tail[g]) + 1
    BY <1>1, <1>2, <1>3, <2>1
  <2> QED BY <1>1, <2>3, <2>4 DEF b
<1>9. CASE ProlongShortChain(g, b)
  <2>1. tail' = tail /\ pendingTx' = pendingTx /\ Depth(PrevHash(b)) < Depth(tail[g])
    BY <1>9 DEF ProlongShortChain
  <2>2. Chain(tail[g]) \ Chain(tail[g]) = {}
    OBVIOUS
  <2>3. MovesTo(g, tail[g])
    BY <1>2, <1>5, <1>6, <1>7, <2>1, <2>2 DEF MovesTo
  <2>4. Depth(b) <= Depth(tail[g])
    BY <1>3, <2>1
  <2> QED BY <1>1, <2>3, <2>4 DEF b
<1>10. CASE ForkLonger(g, b)
  <2>1. MovesTo(g, b) /\ Depth(PrevHash(b)) >= Depth(tail[g])
    BY <1>10 DEF ForkLonger, MovesTo
  <2>2. Depth(PrevHash(b)) <= Depth(tail[g])
    BY <1>1, <1>2
  <2>3. Depth(b) = Depth(tail[g]) + 1 /\ b # tail[g]
    BY <1>1, <1>2, <1>3, <2>1, <2>2
  <2> QED BY <1>1, <2>1, <2>3 DEF b
<1> QED BY <1>8, <1>9, <1>10 DEF ReceiveBlockPublish, b

(***************************************************************************)
(* What is pending after the tail has moved: the names of the blocks       *)
(* undone are added, those of the blocks applied taken away.               *)
(***************************************************************************)
LEMMA MovedPending ==
  ASSUME TypeOK, Nodes, NEW g \in Gossiper, NEW t \in Hash \cup {0}, MovesTo(g, t)
  PROVE  /\ pendingTx' \in [Gossiper -> TransactionsSet]
         /\ Names(pendingTx'[g])
              = (Names(pendingTx[g]) \cup NamesIn(Chain(tail[g]) \ Chain(t)))
                  \ NamesIn(Chain(t) \ Chain(tail[g]))
         /\ FreshLoopVar /\ OwnNames(pendingTx[g]) => OwnNames(pendingTx'[g])
         /\ \A h \in Gossiper \ {g} : pendingTx'[h] = pendingTx[h]
<1> DEFINE undone == Chain(tail[g]) \ Chain(t)
           applied == Chain(t) \ Chain(tail[g])
           ts == RollBack(pendingTx[g], undone)
<1>1. /\ tail[g] \in Hash \cup {0} /\ pendingTx[g] \in TransactionsSet
      /\ pendingTx \in [Gossiper -> TransactionsSet]
  BY DEF TypeOK
<1>2. undone \in SUBSET Hash /\ \A b \in undone : Depth(b) \in Nat
  BY <1>1, TreeFacts
<1>3. pendingTx' = [pendingTx EXCEPT ![g] = Subtract(ts, NamesIn(applied))]
  BY DEF MovesTo
<1> HIDE DEF undone, applied
<1>4. /\ ts \in TransactionsSet
      /\ Names(ts) = Names(pendingTx[g]) \cup NamesIn(undone)
      /\ FreshLoopVar /\ OwnNames(pendingTx[g]) => OwnNames(ts)
  BY <1>1, <1>2, RolledBack
<1> HIDE DEF ts
<1>5. /\ Subtract(ts, NamesIn(applied)) \in TransactionsSet
      /\ Names(Subtract(ts, NamesIn(applied))) = Names(ts) \ NamesIn(applied)
      /\ OwnNames(ts) => OwnNames(Subtract(ts, NamesIn(applied)))
  BY <1>4, Subtracted
<1>6. /\ pendingTx'[g] = Subtract(ts, NamesIn(applied))
      /\ \A h \in Gossiper \ {g} : pendingTx'[h] = pendingTx[h]
  BY <1>1, <1>3
<1> QED BY <1>1, <1>3, <1>4, <1>5, <1>6 DEF undone, applied

-----------------------------------------------------------------------------
\* Blocks mined

(***************************************************************************)
(* The slice a miner takes from its pending set has the names of the set,  *)
(* each once, if the entries stand under their own names.                  *)
(***************************************************************************)
LEMMA SliceNames ==
  ASSUME NEW ts \in TransactionsSet, IsFiniteSet(Names(ts)), NEW txs \in SliceCopies(ts)
  PROVE  /\ txs \in Seq(Tx)
         /\ IsFiniteSet({txs[i].name : i \in DOMAIN txs})
         /\ OwnNames(ts) =>
              /\ {txs[i].name : i \in DOMAIN txs} = Names(ts)
              /\ \A i, j \in DOMAIN txs : txs[i].name = txs[j].name => i = j
<1> DEFINE size == Cardinality(Names(ts))
<1>1. size \in Nat
  BY FS_CardinalityType
<1>2. PICK order \in [1..size -> Names(ts)] :
        /\ \A i, j \in 1..size : order[i] = order[j] => i = j
        /\ txs = [i \in 1..size |-> ts[order[i]]]
  BY DEF SliceCopies
<1> HIDE DEF size
<1>3. \A n \in Names(ts) : ts[n] \in Tx /\ ts[n].name \in Name
  BY DEF TransactionsSet, Names, Tx
<1>4. /\ DOMAIN txs = 1..size
      /\ \A i \in 1..size : order[i] \in Names(ts) /\ txs[i] = ts[order[i]] /\ txs[i] \in Tx
  BY <1>2, <1>3
<1>5. txs \in Seq(Tx)
  <2>1. txs = [i \in 1..size |-> txs[i]]
    BY <1>2
  <2> QED BY <1>1, <1>4, <2>1, IsASeq
<1>6. IsFiniteSet({txs[i].name : i \in DOMAIN txs})
  <2> DEFINE T == {txs[i].name : i \in 1..size}
             f == [i \in 1..size |-> txs[i].name]
  <2>1. f \in Surjection(1..size, T)
    BY DEF Surjection
  <2>2. IsFiniteSet(1..size)
    BY <1>1, FS_Interval
  <2> QED BY <1>4, <2>1, <2>2, FS_Surjection
<1>7. ASSUME OwnNames(ts)
      PROVE  /\ {txs[i].name : i \in DOMAIN txs} = Names(ts)
             /\ \A i, j \in DOMAIN txs : txs[i].name = txs[j].name => i = j
  <2>1. \A i \in 1..size : txs[i].name = order[i]
    BY <1>4, <1>7 DEF OwnNames
  <2>2. order \in Injection(1..size, Names(ts))
    BY <1>2 DEF Injection, IsInjective
  <2>3. Cardinality(1..size) = size
    BY <1>1, FS_Interval
  <2>4. order \in Surjection(1..size, Names(ts))
    BY <2>2, <2>3, FS_Injection DEF size
  <2>5. \A n \in Names(ts) : \E i \in 1..size : order[i] = n
    BY <2>4 DEF Surjection
  <2>6. {txs[i].name : i \in DOMAIN txs} = Names(ts)
    BY <1>4, <2>1, <2>5
  <2> QED BY <1>2, <1>4, <2>1, <2>6
<1> QED BY <1>5, <1>6, <1>7

(***************************************************************************)
(* DoMining appends one block on top of its miner's chain and leaves all   *)
(* others alone; the block registers what was pending.                     *)
(***************************************************************************)
LEMMA MinedBlock ==
  ASSUME IInv, NEW g \in Gossiper, DoMining(g), NEW b, b = NewBlock
  PROVE  /\ b \in Nat /\ b \notin Hash /\ b # 0
         /\ Hash' = Hash \cup {b}
         /\ mined' \in Seq(Node)
         /\ \A c \in Hash \cup {0} : /\ Depth(c)' = Depth(c) /\ Chain(c)' = Chain(c)
         /\ \A c \in Hash : /\ PrevHash(c)' = PrevHash(c)
                            /\ Registered(c)' = Registered(c)
                            /\ mined'[c] = mined[c]
         /\ PrevHash(b)' = tail[g]
         /\ Depth(b)' = Depth(tail[g]) + 1
         /\ Chain(b)' = Chain(tail[g]) \cup {b}
         /\ IsFiniteSet(Registered(b)')
         /\ OwnNames(pendingTx[g]) =>
              /\ Registered(b)' = Names(pendingTx[g])
              /\ \A i, j \in DOMAIN mined'[b].txs :
                   mined'[b].txs[i].name = mined'[b].txs[j].name => i = j
<1>1. PICK txs \in SliceCopies(pendingTx[g]) :
        mined' = Append(mined, [prev  |-> tail[g],
                                txs   |-> txs,
                                depth |-> Depth(tail[g]) + 1,
                                chain |-> Chain(tail[g]) \cup {b}])
  BY DEF DoMining, NewBlock
<1> DEFINE node == [prev  |-> tail[g], txs |-> txs, depth |-> Depth(tail[g]) + 1,
                    chain |-> Chain(tail[g]) \cup {b}]
<1>2. /\ TypeOK /\ Nodes /\ mined \in Seq(Node) /\ tail[g] \in Hash \cup {0}
      /\ pendingTx[g] \in TransactionsSet /\ IsFiniteSet(Names(pendingTx[g]))
  BY DEF IInv, TypeOK, FewPending
<1>3. /\ txs \in Seq(Tx)
      /\ IsFiniteSet({txs[i].name : i \in DOMAIN txs})
      /\ OwnNames(pendingTx[g]) =>
           /\ {txs[i].name : i \in DOMAIN txs} = Names(pendingTx[g])
           /\ \A i, j \in DOMAIN txs : txs[i].name = txs[j].name => i = j
  BY <1>2, SliceNames
<1>4. /\ Len(mined) \in Nat /\ tail[g] \in Nat /\ Depth(tail[g]) \in Nat
      /\ Chain(tail[g]) \subseteq Hash
  BY <1>2, TreeFacts
<1>5. b \in Nat /\ b \notin Hash /\ b # 0 /\ Hash \subseteq Nat \ {0}
  BY <1>4 DEF Hash, NewBlock
<1>6. node \in Node
  <2>1. Chain(tail[g]) \cup {b} \in SUBSET Nat
    <3>1. Hash \subseteq Nat
      BY <1>5
    <3> QED BY <1>4, <1>5, <3>1, Zenon
  <2>2. Depth(tail[g]) + 1 \in Nat
    BY <1>4
  <2> QED BY <1>3, <1>4, <2>1, <2>2 DEF Node
<1>7. mined' = Append(mined, node)
  BY <1>1
<1>8. node.prev = tail[g] /\ node.txs = txs /\ node.depth = Depth(tail[g]) + 1
      /\ node.chain = Chain(tail[g]) \cup {b}
  OBVIOUS
<1> HIDE DEF node
<1>9. /\ mined' \in Seq(Node) /\ Len(mined') = b
      /\ mined'[b] = node
      /\ \A c \in 1..Len(mined) : mined'[c] = mined[c]
  BY <1>2, <1>6, <1>7, AppendProperties DEF NewBlock
<1>10. Hash' = Hash \cup {b}
  <2>1. Hash' = 1..b /\ Hash = 1..Len(mined) /\ b = Len(mined) + 1
    BY <1>9 DEF Hash, NewBlock
  <2> QED BY <1>4, <2>1
<1>11. \A c \in Hash : mined'[c] = mined[c]
  BY <1>9 DEF Hash
<1>12. \A c \in Hash : PrevHash(c)' = PrevHash(c) /\ Registered(c)' = Registered(c)
  BY <1>11 DEF PrevHash, Registered
<1>13. \A c \in Hash \cup {0} : Depth(c)' = Depth(c) /\ Chain(c)' = Chain(c)
  BY <1>11 DEF Depth, Chain
<1>14. /\ PrevHash(b)' = tail[g] /\ Depth(b)' = Depth(tail[g]) + 1
       /\ Chain(b)' = Chain(tail[g]) \cup {b}
       /\ Registered(b)' = {txs[i].name : i \in DOMAIN txs}
       /\ mined'[b].txs = txs
  BY <1>5, <1>8, <1>9 DEF PrevHash, Depth, Chain, Registered
<1> QED BY <1>3, <1>5, <1>9, <1>10, <1>11, <1>12, <1>13, <1>14

(***************************************************************************)
(* The miner's tail is its new block, which it has to publish yet, and     *)
(* nothing is pending any more.                                            *)
(***************************************************************************)
LEMMA MinedState ==
  ASSUME IInv, NEW g \in Gossiper, DoMining(g)
  PROVE  /\ tail' = [tail EXCEPT ![g] = NewBlock]
         /\ blocks' = [blocks EXCEPT ![g] = @ \cup {NewBlock}]
         /\ unpublished' = [unpublished EXCEPT ![g] = NewBlock]
         /\ pendingTx' = [pendingTx EXCEPT ![g] = InitEmpty]
         /\ noParentBlocks' = noParentBlocks /\ net' = net
         /\ InitEmpty \in TransactionsSet /\ Names(InitEmpty) = {}
BY DEF DoMining, NewBlock, InitEmpty, TransactionsSet, Names

-----------------------------------------------------------------------------
\* Every step keeps the invariant

(***************************************************************************)
(* What the fields of a packet are.                                        *)
(***************************************************************************)
LEMMA PacketFields ==
  ASSUME NEW m \in Packet
  PROVE  /\ m.dst \in Gossiper /\ m.hops \in Nat
         /\ m.kind = "tx" => m.tx \in Tx
         /\ m.kind = "block" => m.block \in Nat
BY DEF Packet

(***************************************************************************)
(* What is sent on is well formed: the hop limit was not 0, so it can be   *)
(* lowered, and a block sent on is the one received.                       *)
(***************************************************************************)
LEMMA SentOn ==
  ASSUME TypeOK, NEW g \in Gossiper, NEW m \in net
  PROVE  /\ m.kind = "tx" =>
              /\ Forwarded(m, TxToAll(g, m.tx, m.hops - 1)) \subseteq Packet
              /\ \A p \in Forwarded(m, TxToAll(g, m.tx, m.hops - 1)) : p.kind # "block"
         /\ m.kind = "block" =>
              /\ Forwarded(m, BlockToAll(g, m.block, m.hops - 1)) \subseteq Packet
              /\ \A p \in Forwarded(m, BlockToAll(g, m.block, m.hops - 1)) :
                    p.block = m.block
<1>1. m \in Packet
  BY DEF TypeOK
<1>2. Peers[g] \subseteq Gossiper
  BY PeersAssumption
<1>3. m.hops # 0 => m.hops - 1 \in Nat
  BY <1>1, PacketFields
<1>4. \A tx \in Tx : \A h \in Nat : /\ TxToAll(g, tx, h) \subseteq Packet
                                    /\ \A p \in TxToAll(g, tx, h) : p.kind # "block"
  BY <1>2 DEF TxToAll, Packet
<1>5. \A b \in Nat : \A h \in Nat : /\ BlockToAll(g, b, h) \subseteq Packet
                                    /\ \A p \in BlockToAll(g, b, h) : p.block = b
  BY <1>2 DEF BlockToAll, Packet
<1> QED BY <1>1, <1>3, <1>4, <1>5, PacketFields DEF Forwarded

(***************************************************************************)
(* AddTransaction makes one name pending, under itself.                    *)
(***************************************************************************)
LEMMA TxPending ==
  ASSUME TypeOK, NEW g \in Gossiper, NEW tx \in Tx, AddTransaction(g, tx)
  PROVE  /\ pendingTx' \in [Gossiper -> TransactionsSet]
         /\ Names(pendingTx'[g]) = Names(pendingTx[g]) \cup {tx.name}
         /\ OwnNames(pendingTx[g]) => OwnNames(pendingTx'[g])
         /\ \A h \in Gossiper \ {g} : pendingTx'[h] = pendingTx[h]
<1>1. /\ pendingTx \in [Gossiper -> TransactionsSet]
      /\ pendingTx[g] \in [Name -> Tx \cup {NoTx}]
      /\ tx.name \in Name /\ tx # NoTx
  BY NoTxAssumption DEF TypeOK, TransactionsSet, Tx
<1>2. pendingTx' = [pendingTx EXCEPT ![g] = [pendingTx[g] EXCEPT ![tx.name] = tx]]
  BY DEF AddTransaction
<1>3. [pendingTx[g] EXCEPT ![tx.name] = tx] \in TransactionsSet
  BY <1>1 DEF TransactionsSet
<1>4. /\ pendingTx'[g] = [pendingTx[g] EXCEPT ![tx.name] = tx]
      /\ \A h \in Gossiper \ {g} : pendingTx'[h] = pendingTx[h]
  BY <1>1, <1>2
<1>5. pendingTx' \in [Gossiper -> TransactionsSet]
  BY <1>1, <1>2, <1>3
<1> QED BY <1>1, <1>4, <1>5 DEF Names, OwnNames

(***************************************************************************)
(* A transaction added, from a client or from a peer, keeps the invariant. *)
(***************************************************************************)
LEMMA TxAdded ==
  ASSUME IInv, NEW g \in Gossiper, NEW tx \in Tx, AddTransaction(g, tx),
         NEW ps \in SUBSET Packet, \A p \in ps : p.kind # "block", net' = net \cup ps,
         UNCHANGED <<mined, blocks, tail, noParentBlocks, unpublished>>
  PROVE  IInv'
<1>1. TypeOK
  BY DEF IInv
<1>2. /\ pendingTx' \in [Gossiper -> TransactionsSet]
      /\ Names(pendingTx'[g]) = Names(pendingTx[g]) \cup {tx.name}
      /\ \A h \in Gossiper \ {g} : pendingTx'[h] = pendingTx[h]
  BY <1>1, TxPending
<1>3. Hash' = Hash
  BY DEF Hash
<1>4. TypeOK'
  BY <1>1, <1>2, <1>3 DEF TypeOK
<1>5. Nodes'
  BY NodesStay DEF IInv
<1>6. BlocksExist'
  BY <1>3 DEF IInv, BlocksExist
<1>7. FewPending'
  BY <1>2, FS_AddElement DEF IInv, FewPending
<1>8. TailEndsLongestChain'
  BY NodesStay DEF IInv, TailEndsLongestChain
<1> QED BY <1>4, <1>5, <1>6, <1>7, <1>8 DEF IInv

(***************************************************************************)
(* A block received and put into the tree keeps the invariant: the tree    *)
(* still has all of each chain, and the tail is still as deep as any block *)
(* in it.                                                                  *)
(***************************************************************************)
LEMMA BlockReceived ==
  ASSUME IInv, NEW g \in Gossiper, NEW m \in net, ReceiveBlockPublish(g, m)
  PROVE  IInv'
<1> DEFINE b == m.block
<1>1. TypeOK /\ Nodes /\ TailEndsLongestChain
  BY DEF IInv
<1>2. PICK t \in {tail[g], b} :
        /\ b \in Hash
        /\ MovesTo(g, t)
        /\ t = tail[g] => Depth(b) <= Depth(tail[g])
        /\ t # tail[g] => Depth(t) = Depth(tail[g]) + 1
  BY BlockMovesTail
<1>3. /\ m.kind = "block" /\ b \notin blocks[g] /\ PrevHash(b) \in blocks[g]
      /\ blocks' = [blocks EXCEPT ![g] = @ \cup {b}]
      /\ noParentBlocks' = [noParentBlocks EXCEPT ![g] = @ \ blocks'[g]]
      /\ net' = net \cup Forwarded(m, BlockToAll(g, b, m.hops - 1))
      /\ mined' = mined /\ unpublished' = unpublished
  BY DEF ReceiveBlockPublish, CheckPendingBlocks
<1> HIDE DEF b
<1>4. Hash' = Hash /\ Nodes' /\ \A c : Depth(c)' = Depth(c) /\ Chain(c)' = Chain(c)
  BY <1>1, <1>3, NodesStay
<1>5. tail[g] \in Hash \cup {0} /\ t \in Hash \cup {0}
  BY <1>1, <1>2 DEF TypeOK
<1>6. /\ pendingTx' \in [Gossiper -> TransactionsSet]
      /\ Names(pendingTx'[g])
           = (Names(pendingTx[g]) \cup NamesIn(Chain(tail[g]) \ Chain(t)))
               \ NamesIn(Chain(t) \ Chain(tail[g]))
      /\ \A h \in Gossiper \ {g} : pendingTx'[h] = pendingTx[h]
  BY <1>1, <1>2, <1>5, MovedPending
<1>7. /\ Forwarded(m, BlockToAll(g, b, m.hops - 1)) \subseteq Packet
      /\ \A p \in Forwarded(m, BlockToAll(g, b, m.hops - 1)) : p.block = b
  BY <1>1, <1>3, SentOn DEF b
<1>8. tail' = [tail EXCEPT ![g] = t]
  BY <1>2 DEF MovesTo
<1>9. TypeOK'
  <2>1. blocks' \in [Gossiper -> SUBSET (Hash \cup {0})]
    BY <1>1, <1>2, <1>3 DEF TypeOK
  <2>2. tail' \in [Gossiper -> Hash \cup {0}]
    BY <1>1, <1>5, <1>8 DEF TypeOK
  <2>3. noParentBlocks' \in [Gossiper -> SUBSET Hash]
    BY <1>1, <1>3 DEF TypeOK
  <2>4. net' \subseteq Packet
    BY <1>1, <1>3, <1>7 DEF TypeOK
  <2> QED BY <1>1, <1>3, <1>4, <1>6, <2>1, <2>2, <2>3, <2>4 DEF TypeOK
<1>10. BlocksExist'
  BY <1>2, <1>3, <1>4, <1>7 DEF IInv, BlocksExist
<1>11. FewPending'
  <2>1. NamesIn(Chain(tail[g]) \ Chain(t)) \subseteq NamesIn(Chain(tail[g]))
    BY DEF NamesIn
  <2>2. IsFiniteSet(NamesIn(Chain(tail[g])))
    BY <1>1, <1>5, TreeFacts
  <2>3. IsFiniteSet(NamesIn(Chain(tail[g]) \ Chain(t)))
    BY <2>1, <2>2, FS_Subset
  <2>4. IsFiniteSet(Names(pendingTx[g]))
    BY DEF IInv, FewPending
  <2>5. IsFiniteSet(Names(pendingTx[g]) \cup NamesIn(Chain(tail[g]) \ Chain(t)))
    BY <2>3, <2>4, FS_Union
  <2>6. IsFiniteSet(Names(pendingTx'[g]))
    BY <1>6, <2>5, FS_Difference
  <2> QED BY <1>6, <2>6 DEF IInv, FewPending
<1>12. TailEndsLongestChain'
  <2>1. \A h \in Gossiper : /\ tail[h] \in blocks[h]
                            /\ \A c \in blocks[h] : /\ Depth(c) <= Depth(tail[h])
                                                    /\ Chain(c) \subseteq blocks[h]
    BY <1>1 DEF TailEndsLongestChain
  <2>2. /\ blocks'[g] = blocks[g] \cup {b} /\ tail'[g] = t
        /\ \A h \in Gossiper \ {g} : blocks'[h] = blocks[h] /\ tail'[h] = tail[h]
    BY <1>1, <1>3, <1>8 DEF TypeOK
  <2>3. Chain(b) = Chain(PrevHash(b)) \cup {b}
    BY <1>1, <1>2, TreeFacts
  <2>4. \A c \in blocks[g] \cup {b} : Chain(c) \subseteq blocks[g] \cup {b}
    BY <1>3, <2>1, <2>3
  <2>5. \A c \in blocks[g] \cup {b} : Depth(c) <= Depth(t)
    <3>1. \A c \in blocks[g] \cup {b, t} : Depth(c) \in Nat
      BY <1>1, <1>2, <1>5, TreeFacts DEF TypeOK
    <3>2. Depth(tail[g]) \in Nat
      BY <1>1, <1>5, TreeFacts
    <3>3. CASE t = tail[g]
      BY <1>2, <2>1, <3>3
    <3>4. CASE t # tail[g]
      <4>1. t = b /\ Depth(t) = Depth(tail[g]) + 1
        BY <1>2, <3>4
      <4>2. \A c \in blocks[g] : Depth(c) <= Depth(tail[g])
        BY <2>1
      <4> QED BY <3>1, <3>2, <4>1, <4>2
    <3> QED BY <3>3, <3>4
  <2>6. t \in blocks[g] \cup {b}
    BY <1>2, <2>1
  <2>7. ASSUME NEW h \in Gossiper
        PROVE  /\ tail'[h] \in blocks'[h]
               /\ \A c \in blocks'[h] : /\ Depth(c) <= Depth(tail'[h])
                                        /\ Chain(c) \subseteq blocks'[h]
    BY <2>1, <2>2, <2>4, <2>5, <2>6
  <2>8. \A h \in Gossiper : Depth(tail[h])' = Depth(tail'[h])
    BY <1>3 DEF Depth
  <2> QED BY <1>4, <2>7, <2>8 DEF TailEndsLongestChain
<1> QED BY <1>4, <1>9, <1>10, <1>11, <1>12 DEF IInv

(***************************************************************************)
(* A block mined keeps the invariant: the new node sits on the miner's     *)
(* chain, and the miner's tree gets a deepest block that is its tail.      *)
(***************************************************************************)
LEMMA BlockMined ==
  ASSUME IInv, NEW g \in Gossiper, DoMining(g)
  PROVE  IInv'
<1> DEFINE b == NewBlock
<1>1. TypeOK /\ Nodes /\ TailEndsLongestChain /\ BlocksExist /\ FewPending
  BY DEF IInv
<1>2. /\ tail' = [tail EXCEPT ![g] = b]
      /\ blocks' = [blocks EXCEPT ![g] = @ \cup {b}]
      /\ unpublished' = [unpublished EXCEPT ![g] = b]
      /\ pendingTx' = [pendingTx EXCEPT ![g] = InitEmpty]
      /\ noParentBlocks' = noParentBlocks /\ net' = net
      /\ InitEmpty \in TransactionsSet /\ Names(InitEmpty) = {}
  BY MinedState
<1> SUFFICES ASSUME NEW c, c = b PROVE IInv'
  OBVIOUS
<1>3. /\ c \in Nat /\ c \notin Hash /\ c # 0
      /\ Hash' = Hash \cup {c}
      /\ mined' \in Seq(Node)
      /\ \A d \in Hash \cup {0} : Depth(d)' = Depth(d) /\ Chain(d)' = Chain(d)
      /\ \A d \in Hash : /\ PrevHash(d)' = PrevHash(d)
                         /\ Registered(d)' = Registered(d)
                         /\ mined'[d] = mined[d]
      /\ PrevHash(c)' = tail[g]
      /\ Depth(c)' = Depth(tail[g]) + 1
      /\ Chain(c)' = Chain(tail[g]) \cup {c}
      /\ IsFiniteSet(Registered(c)')
  BY MinedBlock
<1>4. /\ tail' = [tail EXCEPT ![g] = c]
      /\ blocks' = [blocks EXCEPT ![g] = @ \cup {c}]
      /\ unpublished' = [unpublished EXCEPT ![g] = c]
  BY <1>2
<1>5. tail[g] \in Hash \cup {0} /\ c = Len(mined) + 1
  BY <1>1 DEF TypeOK, NewBlock
<1> HIDE DEF b
<1>6. /\ Len(mined) \in Nat
      /\ \A d \in Hash \cup {0} : /\ d \in Nat /\ Depth(d) \in Nat
                                  /\ Chain(d) \subseteq Hash /\ Chain(d) \subseteq 1..d
                                  /\ IsFiniteSet(NamesIn(Chain(d)))
      /\ \A d \in Hash : PrevHash(d) \in Hash \cup {0}
  BY <1>1, TreeFacts
<1>7. TypeOK'
  <2>1. blocks' \in [Gossiper -> SUBSET (Hash' \cup {0})]
    BY <1>1, <1>3, <1>4 DEF TypeOK
  <2>2. tail' \in [Gossiper -> Hash' \cup {0}] /\ unpublished' \in [Gossiper -> Hash' \cup {0}]
    BY <1>1, <1>3, <1>4 DEF TypeOK
  <2>3. pendingTx' \in [Gossiper -> TransactionsSet]
    BY <1>1, <1>2 DEF TypeOK
  <2>4. noParentBlocks' \in [Gossiper -> SUBSET Hash']
    BY <1>1, <1>2, <1>3 DEF TypeOK
  <2> QED BY <1>1, <1>2, <1>3, <2>1, <2>2, <2>3, <2>4 DEF TypeOK
<1>8. \A bs \in SUBSET Hash : NamesIn(bs)' = NamesIn(bs)
  BY <1>3 DEF NamesIn
<1>9. Nodes'
  <2>1. ASSUME NEW d \in Hash PROVE NodeOK(d)'
    <3>1. NodeOK(d)
      BY <1>1 DEF Nodes
    <3>2. PrevHash(d) \in Hash \cup {0} /\ Chain(d) \in SUBSET Hash
      BY <1>6
    <3>3. d # 0
      BY <1>6 DEF Hash
    <3>4. mined[d].chain = Chain(d)
      BY <3>3 DEF Chain
    <3>5. NamesIn(mined[d].chain)' = NamesIn(mined[d].chain)
      BY <1>3, <1>8, <3>2, <3>4
    <3>6. /\ PrevHash(d)' = PrevHash(d) /\ mined'[d] = mined[d]
          /\ Depth(PrevHash(d))' = Depth(PrevHash(d))
          /\ Chain(PrevHash(d))' = Chain(PrevHash(d))
      BY <1>3, <3>2
    <3> QED BY <3>1, <3>5, <3>6 DEF NodeOK
  <2>2. NodeOK(c)'
    <3>1. /\ Depth(c)' = mined'[c].depth /\ Chain(c)' = mined'[c].chain
      BY <1>3 DEF Depth, Chain
    <3>2. /\ Depth(PrevHash(c))' = Depth(tail[g]) /\ Chain(PrevHash(c))' = Chain(tail[g])
      BY <1>3, <1>5
    <3>3. tail[g] \in 0..(c - 1)
      BY <1>5, <1>6 DEF Hash
    <3>4. Chain(tail[g]) \cup {c} \subseteq 1..c
      <4>1. Chain(tail[g]) \subseteq 1..tail[g] /\ tail[g] \in Nat
        BY <1>5, <1>6
      <4> QED BY <1>3, <3>3, <4>1
    <3>5. IsFiniteSet(NamesIn(Chain(c))')
      <4>1. PICK bs : bs = Chain(tail[g])
        OBVIOUS
      <4>2. /\ Chain(c)' = bs \cup {c} /\ NamesIn(bs)' = NamesIn(bs)
            /\ IsFiniteSet(NamesIn(bs))
        BY <1>3, <1>5, <1>6, <1>8, <4>1
      <4>3. NamesIn(Chain(c))' = NamesIn(bs)' \cup Registered(c)'
        BY <4>2 DEF NamesIn
      <4>4. IsFiniteSet(NamesIn(bs) \cup Registered(c)')
        BY <1>3, <4>2, FS_Union
      <4> QED BY <4>2, <4>3, <4>4
    <3> QED BY <1>3, <3>1, <3>2, <3>3, <3>4, <3>5 DEF NodeOK
  <2> QED BY <1>3, <2>1, <2>2 DEF Nodes
<1>10. BlocksExist'
  BY <1>1, <1>2, <1>3 DEF BlocksExist
<1>11. FewPending'
  <2>1. \A h \in Gossiper : pendingTx'[h] = IF h = g THEN InitEmpty ELSE pendingTx[h]
    BY <1>1, <1>2 DEF TypeOK
  <2> QED BY <1>1, <1>2, <2>1, FS_EmptySet DEF FewPending
<1>12. TailEndsLongestChain'
  <2>1. /\ blocks'[g] = blocks[g] \cup {c} /\ tail'[g] = c
        /\ \A h \in Gossiper \ {g} : blocks'[h] = blocks[h] /\ tail'[h] = tail[h]
    BY <1>1, <1>4 DEF TypeOK
  <2>2. \A h \in Gossiper : blocks[h] \subseteq Hash \cup {0} /\ tail[h] \in Hash \cup {0}
    BY <1>1 DEF TypeOK
  <2>3. \A h \in Gossiper : /\ tail[h] \in blocks[h]
                            /\ \A d \in blocks[h] : /\ Depth(d) <= Depth(tail[h])
                                                    /\ Chain(d) \subseteq blocks[h]
    BY <1>1 DEF TailEndsLongestChain
  <2>4. ASSUME NEW h \in Gossiper, h # g
        PROVE  (/\ tail[h] \in blocks[h]
                /\ \A d \in blocks[h] : /\ Depth(d) <= Depth(tail[h])
                                        /\ Chain(d) \subseteq blocks[h])'
    <3>1. blocks'[h] = blocks[h] /\ tail'[h] = tail[h]
      BY <2>1, <2>4
    <3>2. Depth(tail[h])' = Depth(tail[h])
      BY <1>3, <2>2, <3>1
    <3>3. \A d \in blocks[h] : Depth(d)' = Depth(d) /\ Chain(d)' = Chain(d)
      BY <1>3, <2>2
    <3> QED BY <2>3, <3>1, <3>2, <3>3
  <2>5. (/\ tail[g] \in blocks[g]
         /\ \A d \in blocks[g] : Depth(d) <= Depth(tail[g]) /\ Chain(d) \subseteq blocks[g])'
    <3>1. Depth(tail[g])' = Depth(c)'
      BY <2>1
    <3>2. ASSUME NEW d \in blocks[g]
          PROVE  Depth(d)' <= Depth(c)' /\ Chain(d)' \subseteq blocks[g] \cup {c}
      <4>1. Depth(d)' = Depth(d) /\ Chain(d)' = Chain(d) /\ Depth(d) \in Nat
        BY <1>3, <1>6, <2>2
      <4>2. Depth(d) <= Depth(tail[g]) /\ Chain(d) \subseteq blocks[g] /\ Depth(tail[g]) \in Nat
        BY <1>6, <2>2, <2>3
      <4> QED BY <1>3, <4>1, <4>2
    <3>3. Depth(c)' <= Depth(c)' /\ Chain(c)' \subseteq blocks[g] \cup {c}
      <4>1. Chain(tail[g]) \subseteq blocks[g] /\ Depth(tail[g]) \in Nat
        BY <1>6, <2>2, <2>3
      <4> QED BY <1>3, <4>1
    <3> QED BY <2>1, <3>1, <3>2, <3>3
  <2> QED BY <2>4, <2>5 DEF TailEndsLongestChain
<1> QED BY <1>7, <1>9, <1>10, <1>11, <1>12 DEF IInv

(***************************************************************************)
(* A block that waits for its parent keeps the invariant.                  *)
(***************************************************************************)
LEMMA OrphanReceived ==
  ASSUME IInv, NEW g \in Gossiper, NEW m \in net, ReceiveOrphan(g, m)
  PROVE  IInv'
<1>1. /\ m.block \in Hash
      /\ noParentBlocks' = [noParentBlocks EXCEPT ![g] = @ \cup {m.block}]
      /\ UNCHANGED <<mined, blocks, tail, pendingTx, unpublished, net>>
  BY DEF IInv, BlocksExist, ReceiveOrphan
<1>2. Hash' = Hash
  BY <1>1 DEF Hash
<1>3. TypeOK'
  BY <1>1, <1>2 DEF IInv, TypeOK
<1>4. Nodes' /\ TailEndsLongestChain'
  BY <1>1, NodesStay DEF IInv, TailEndsLongestChain
<1>5. BlocksExist' /\ FewPending'
  BY <1>1, <1>2 DEF IInv, BlocksExist, FewPending
<1> QED BY <1>3, <1>4, <1>5 DEF IInv

(***************************************************************************)
(* The block that the mining thread publishes has been mined.              *)
(***************************************************************************)
LEMMA BlockPublished ==
  ASSUME IInv, NEW g \in Gossiper, PublishMined(g)
  PROVE  IInv'
<1>1. /\ unpublished[g] \in Hash /\ unpublished[g] \in Nat
      /\ net' = net \cup BlockToAll(g, unpublished[g], BlockHopLimit)
      /\ unpublished' = [unpublished EXCEPT ![g] = 0]
      /\ UNCHANGED <<mined, blocks, tail, pendingTx, noParentBlocks>>
  BY DEF IInv, TypeOK, PublishMined, Hash
<1>2. Hash' = Hash
  BY <1>1 DEF Hash
<1>3. /\ BlockToAll(g, unpublished[g], BlockHopLimit) \subseteq Packet
      /\ \A p \in BlockToAll(g, unpublished[g], BlockHopLimit) : p.block = unpublished[g]
  BY <1>1, PeersAssumption, LimitsAssumption DEF BlockToAll, Packet
<1>4. TypeOK'
  BY <1>1, <1>2, <1>3 DEF IInv, TypeOK
<1>5. Nodes' /\ TailEndsLongestChain'
  BY <1>1, NodesStay DEF IInv, TailEndsLongestChain
<1>6. BlocksExist'
  BY <1>1, <1>2, <1>3 DEF IInv, BlocksExist
<1>7. FewPending'
  BY <1>1 DEF IInv, FewPending
<1> QED BY <1>4, <1>5, <1>6, <1>7 DEF IInv

(***************************************************************************)
(* A client's transaction keeps the invariant.                             *)
(***************************************************************************)
LEMMA TxShared ==
  ASSUME IInv, NEW g \in Gossiper, NEW tx \in Tx, ClientToShare(g, tx)
  PROVE  IInv'
<1>1. /\ TxToAll(g, tx, TxHopLimit) \subseteq Packet
      /\ \A p \in TxToAll(g, tx, TxHopLimit) : p.kind # "block"
  BY PeersAssumption, LimitsAssumption DEF TxToAll, Packet
<1> QED BY <1>1, TxAdded DEF ClientToShare

(***************************************************************************)
(* A peer's transaction keeps the invariant.                               *)
(***************************************************************************)
LEMMA TxReceived ==
  ASSUME IInv, NEW g \in Gossiper, NEW m \in net, ReceiveTxPublish(g, m)
  PROVE  IInv'
<1>1. m \in Packet /\ m.kind = "tx" /\ TypeOK
  BY DEF IInv, TypeOK, ReceiveTxPublish
<1>2. m.tx \in Tx
  BY <1>1, PacketFields
<1>3. /\ Forwarded(m, TxToAll(g, m.tx, m.hops - 1)) \subseteq Packet
      /\ \A p \in Forwarded(m, TxToAll(g, m.tx, m.hops - 1)) : p.kind # "block"
  BY <1>1, SentOn
<1> QED BY <1>2, <1>3, TxAdded DEF ReceiveTxPublish

(***************************************************************************)
(* Every gossiper starts with the fake block and nothing pending.          *)
(***************************************************************************)
LEMMA InitOK == Init => IInv
<1> SUFFICES ASSUME Init PROVE IInv
  OBVIOUS
<1>1. mined = << >> /\ Len(mined) = 0 /\ mined \in Seq(Node)
  BY EmptySeq DEF Init
<1>2. Hash = {}
  BY <1>1 DEF Hash
<1>3. InitEmpty \in TransactionsSet /\ Names(InitEmpty) = {}
  BY DEF InitEmpty, TransactionsSet, Names
<1>4. TypeOK
  BY <1>1, <1>2, <1>3 DEF Init, TypeOK
<1>5. Nodes /\ BlocksExist
  BY <1>2 DEF Init, Nodes, BlocksExist
<1>6. FewPending
  BY <1>3, FS_EmptySet DEF Init, FewPending
<1>7. TailEndsLongestChain
  BY DEF Init, TailEndsLongestChain, Depth, Chain
<1> QED BY <1>4, <1>5, <1>6, <1>7 DEF IInv

(***************************************************************************)
(* Every step of Next keeps the invariant.                                 *)
(***************************************************************************)
LEMMA StepOK == IInv /\ [Next]_vars => IInv'
<1> SUFFICES ASSUME IInv, [Next]_vars PROVE IInv'
  OBVIOUS
<1>1. CASE UNCHANGED vars
  <2>1. UNCHANGED <<mined, blocks, tail, pendingTx, noParentBlocks, unpublished, net>>
    BY <1>1 DEF vars
  <2>2. Hash' = Hash /\ Nodes' /\ TailEndsLongestChain'
    BY <2>1, NodesStay DEF IInv, TailEndsLongestChain
  <2>3. TypeOK' /\ BlocksExist' /\ FewPending'
    BY <2>1, <2>2 DEF IInv, TypeOK, BlocksExist, FewPending
  <2> QED BY <2>2, <2>3 DEF IInv
<1>2. CASE \E g \in Gossiper : \E tx \in Tx : ClientToShare(g, tx)
  BY <1>2, TxShared
<1>3. CASE \E g \in Gossiper : \E m \in net : ReceiveTxPublish(g, m)
  BY <1>3, TxReceived
<1>4. CASE \E g \in Gossiper : \E m \in net : ReceiveBlockPublish(g, m)
  BY <1>4, BlockReceived
<1>5. CASE \E g \in Gossiper : \E m \in net : ReceiveOrphan(g, m)
  BY <1>5, OrphanReceived
<1>6. CASE \E g \in Gossiper : DoMining(g)
  BY <1>6, BlockMined
<1>7. CASE \E g \in Gossiper : PublishMined(g)
  BY <1>7, BlockPublished
<1> QED BY <1>1, <1>2, <1>3, <1>4, <1>5, <1>6, <1>7 DEF Next

(***************************************************************************)
(* The invariant holds in every state of every behaviour.                  *)
(***************************************************************************)
LEMMA Invariance == Spec => []IInv
BY InitOK, StepOK, PTL DEF Spec

(***************************************************************************)
(* Every variable keeps its type: in particular every tail, every block of *)
(* a tree, every orphan and every block that waits to be published has     *)
(* been mined.                                                             *)
(***************************************************************************)
THEOREM TypeCorrect == Spec => []TypeOK
<1>1. IInv => TypeOK
  BY DEF IInv
<1> QED BY <1>1, Invariance, PTL

(***************************************************************************)
(* BlockchainManager.tail is the tail of the longest chain in the tree,    *)
(* and the tree hangs together, through any forks, roll-backs, orphans and *)
(* blocks mined meanwhile.                                                 *)
(***************************************************************************)
THEOREM TailIsLongest == Spec => []TailEndsLongestChain
<1>1. IInv => TailEndsLongestChain
  BY DEF IInv
<1> QED BY <1>1, Invariance, PTL

-----------------------------------------------------------------------------
\* Chains only grow

(***************************************************************************)
(* A step that changes a gossiper's tail makes its chain longer, whether a *)
(* peer's block or a block of its own does it.                             *)
(***************************************************************************)
LEMMA TailRises ==
  ASSUME IInv, Next, NEW g \in Gossiper, tail'[g] # tail[g]
  PROVE  Depth(tail[g])' > Depth(tail[g])
<1>1. /\ TypeOK /\ Nodes /\ tail \in [Gossiper -> Hash \cup {0}]
      /\ \A b \in Hash \cup {0} : Depth(b) \in Nat
  BY TreeFacts DEF IInv, TypeOK
<1>2. CASE \E h \in Gossiper : \E m \in net : ReceiveBlockPublish(h, m)
  <2>1. PICK h \in Gossiper, m \in net : ReceiveBlockPublish(h, m)
    BY <1>2
  <2>2. PICK t \in {tail[h], m.block} :
          /\ MovesTo(h, t)
          /\ t # tail[h] => Depth(t) = Depth(tail[h]) + 1
    BY <2>1, BlockMovesTail
  <2>3. h = g /\ tail'[g] = t /\ t # tail[g]
    BY <1>1, <2>2 DEF MovesTo
  <2>4. Depth(tail[g])' = Depth(t)
    <3>1. mined' = mined
      BY <2>1 DEF ReceiveBlockPublish
    <3> QED BY <2>3, <3>1 DEF Depth
  <2> QED BY <1>1, <2>2, <2>3, <2>4
<1>3. CASE \E h \in Gossiper : DoMining(h)
  <2>1. PICK h \in Gossiper : DoMining(h)
    BY <1>3
  <2>2. PICK b : b = NewBlock
    OBVIOUS
  <2>3. tail' = [tail EXCEPT ![h] = b]
    BY <2>1, <2>2, MinedState
  <2>4. h = g /\ tail'[g] = b
    BY <1>1, <2>3
  <2>5. Depth(b)' = Depth(tail[g]) + 1
    BY <2>1, <2>2, <2>4, MinedBlock
  <2>6. Depth(tail[g])' = Depth(b)'
    BY <2>4
  <2> QED BY <1>1, <2>5, <2>6
<1>4. ASSUME NEW h \in Gossiper,
             \/ \E tx \in Tx : ClientToShare(h, tx)
             \/ \E m \in net : ReceiveTxPublish(h, m) \/ ReceiveOrphan(h, m)
             \/ PublishMined(h)
      PROVE  FALSE
  BY <1>4 DEF ClientToShare, ReceiveTxPublish, ReceiveOrphan, PublishMined
<1> QED BY <1>2, <1>3, <1>4 DEF Next

(***************************************************************************)
(* A gossiper leaves its chain only for a longer one: a fork of the same   *)
(* length never wins (appendToTheTree).                                    *)
(***************************************************************************)
THEOREM ChainGrows == Spec => ChainOnlyGrows
<1>1. IInv /\ [Next]_vars =>
        [\A g \in Gossiper : tail'[g] # tail[g] => Depth(tail[g])' > Depth(tail[g])]_vars
  BY TailRises
<1> QED BY <1>1, Invariance, PTL DEF Spec, ChainOnlyGrows

-----------------------------------------------------------------------------
\* Names

(***************************************************************************)
(* NamesIn is the union of what the blocks register.                       *)
(***************************************************************************)
LEMMA NamesOfUnion ==
  ASSUME NEW A, NEW B
  PROVE  /\ NamesIn(A \cup B) = NamesIn(A) \cup NamesIn(B)
         /\ \A b \in A : Registered(b) \subseteq NamesIn(A)
         /\ \A n \in NamesIn(A) : \E b \in A : n \in Registered(b)
BY DEF NamesIn

(***************************************************************************)
(* AddTransaction refuses a name that its history has, so the new pending  *)
(* name is not registered.                                                 *)
(***************************************************************************)
LEMMA NamesTxAdded ==
  ASSUME IInv, NamesInv, NEW g \in Gossiper, NEW tx \in Tx,
         IsNewTransaction(g, tx), AddTransaction(g, tx), mined' = mined, tail' = tail
  PROVE  NamesInv' /\ \A h \in Gossiper : KnownNames(h) \subseteq KnownNames(h)'
<1>1. /\ Names(pendingTx'[g]) = Names(pendingTx[g]) \cup {tx.name}
      /\ OwnNames(pendingTx[g]) => OwnNames(pendingTx'[g])
      /\ \A h \in Gossiper \ {g} : pendingTx'[h] = pendingTx[h]
  BY TxPending DEF IInv
<1>2. BranchNames' /\ BlockNames'
  BY NodesStay DEF NamesInv
<1>3. PendingUnderOwnName'
  BY <1>1 DEF NamesInv, PendingUnderOwnName, OwnNames
<1>4. \A h \in Gossiper : NamesIn(Chain(tail[h]))' = NamesIn(Chain(tail[h]))
  BY DEF NamesIn, Registered, Chain
<1>5. tx.name \notin NamesIn(Chain(tail[g]))
  BY DEF IsNewTransaction
<1>6. PendingIsUnregistered'
  BY <1>1, <1>4, <1>5 DEF NamesInv, PendingIsUnregistered
<1>7. \A h \in Gossiper : KnownNames(h) \subseteq KnownNames(h)'
  <2>1. \A h \in Gossiper : Names(pendingTx[h]) \subseteq Names(pendingTx'[h])
    BY <1>1
  <2> QED BY <1>4, <2>1 DEF KnownNames
<1> QED BY <1>2, <1>3, <1>6, <1>7 DEF NamesInv

(***************************************************************************)
(* A received block keeps the names apart: after a fork a pending name was *)
(* pending before, or in an undone block, and is in no applied one; two    *)
(* blocks of the old chain shared none.                                    *)
(***************************************************************************)
LEMMA NamesBlockReceived ==
  ASSUME FreshLoopVar, IInv, NamesInv, NEW g \in Gossiper, NEW m \in net,
         ReceiveBlockPublish(g, m)
  PROVE  NamesInv' /\ \A h \in Gossiper : KnownNames(h) \subseteq KnownNames(h)'
<1>1. TypeOK /\ Nodes /\ mined' = mined
  BY DEF IInv, ReceiveBlockPublish
<1>2. PICK t \in {tail[g], m.block} : m.block \in Hash /\ MovesTo(g, t)
  BY BlockMovesTail
<1>3. tail[g] \in Hash \cup {0} /\ t \in Hash \cup {0} /\ tail \in [Gossiper -> Hash \cup {0}]
  BY <1>1, <1>2 DEF TypeOK
<1>4. /\ Names(pendingTx'[g])
           = (Names(pendingTx[g]) \cup NamesIn(Chain(tail[g]) \ Chain(t)))
               \ NamesIn(Chain(t) \ Chain(tail[g]))
      /\ OwnNames(pendingTx[g]) => OwnNames(pendingTx'[g])
      /\ \A h \in Gossiper \ {g} : pendingTx'[h] = pendingTx[h]
  BY <1>1, <1>2, <1>3, MovedPending
<1>5. tail'[g] = t /\ \A h \in Gossiper \ {g} : tail'[h] = tail[h]
  BY <1>2, <1>3 DEF MovesTo
<1>6. BranchNames' /\ BlockNames'
  BY <1>1, NodesStay DEF NamesInv
<1>7. PendingUnderOwnName'
  BY <1>4 DEF NamesInv, PendingUnderOwnName, OwnNames
<1>8. /\ NamesIn(Chain(tail[g]))' = NamesIn(Chain(t))
      /\ \A h \in Gossiper \ {g} : NamesIn(Chain(tail[h]))' = NamesIn(Chain(tail[h]))
  BY <1>1, <1>5 DEF NamesIn, Registered, Chain
<1>9. Names(pendingTx'[g]) \cap NamesIn(Chain(t)) = {}
  <2> SUFFICES ASSUME NEW n \in Names(pendingTx'[g]), n \in NamesIn(Chain(t)) PROVE FALSE
    OBVIOUS
  <2>1. PICK b \in Chain(t) : n \in Registered(b)
    BY NamesOfUnion
  <2>2. b \in Chain(tail[g])
    BY <1>4, <2>1, NamesOfUnion
  <2>3. n \notin Names(pendingTx[g])
    BY <2>1, <2>2, NamesOfUnion DEF NamesInv, PendingIsUnregistered
  <2>4. PICK c \in Chain(tail[g]) \ Chain(t) : n \in Registered(c)
    BY <1>4, <2>3, NamesOfUnion
  <2>5. tail[g] \in Hash
    BY <1>3, <2>2 DEF Chain
  <2> QED BY <2>1, <2>2, <2>4, <2>5 DEF NamesInv, BranchNames
<1>10. PendingIsUnregistered'
  BY <1>4, <1>8, <1>9 DEF NamesInv, PendingIsUnregistered
<1>11. KnownNames(g) \subseteq KnownNames(g)'
  <2>1. Names(pendingTx[g]) \subseteq Names(pendingTx'[g]) \cup NamesIn(Chain(t))
    BY <1>4 DEF NamesIn
  <2>2. NamesIn(Chain(tail[g])) \subseteq Names(pendingTx'[g]) \cup NamesIn(Chain(t))
    <3> SUFFICES ASSUME NEW n \in NamesIn(Chain(tail[g])), n \notin NamesIn(Chain(t))
                 PROVE  n \in Names(pendingTx'[g])
      OBVIOUS
    <3>1. n \in NamesIn(Chain(tail[g]) \ Chain(t))
      BY DEF NamesIn
    <3>2. n \notin NamesIn(Chain(t) \ Chain(tail[g]))
      BY DEF NamesIn
    <3> QED BY <1>4, <3>1, <3>2
  <2> QED BY <1>8, <2>1, <2>2 DEF KnownNames
<1>12. ASSUME NEW h \in Gossiper \ {g} PROVE KnownNames(h) \subseteq KnownNames(h)'
  BY <1>4, <1>8 DEF KnownNames
<1> QED BY <1>6, <1>7, <1>10, <1>11, <1>12 DEF NamesInv

(***************************************************************************)
(* A mined block registers exactly what was pending, and none of it was on *)
(* its chain.                                                              *)
(***************************************************************************)
LEMMA NamesBlockMined ==
  ASSUME IInv, NamesInv, NEW g \in Gossiper, DoMining(g)
  PROVE  NamesInv' /\ \A h \in Gossiper : KnownNames(h) \subseteq KnownNames(h)'
<1>1. PICK b : b = NewBlock
  OBVIOUS
<1>2. /\ tail' = [tail EXCEPT ![g] = b]
      /\ pendingTx' = [pendingTx EXCEPT ![g] = InitEmpty]
      /\ Names(InitEmpty) = {}
  BY <1>1, MinedState
<1>3. /\ TypeOK /\ Nodes
      /\ tail \in [Gossiper -> Hash \cup {0}]
      /\ pendingTx \in [Gossiper -> TransactionsSet]
      /\ OwnNames(pendingTx[g])
  BY DEF IInv, TypeOK, NamesInv, PendingUnderOwnName, OwnNames
<1>4. /\ b \notin Hash /\ b # 0
      /\ Hash' = Hash \cup {b}
      /\ \A c \in Hash \cup {0} : Chain(c)' = Chain(c)
      /\ \A c \in Hash : Registered(c)' = Registered(c) /\ mined'[c] = mined[c]
      /\ Chain(b)' = Chain(tail[g]) \cup {b}
      /\ Registered(b)' = Names(pendingTx[g])
      /\ \A i, j \in DOMAIN mined'[b].txs :
           mined'[b].txs[i].name = mined'[b].txs[j].name => i = j
  BY <1>1, <1>3, MinedBlock
<1>5. \A c \in Hash \cup {0} : Chain(c) \subseteq Hash
  BY <1>3, TreeFacts
<1>6. /\ tail'[g] = b /\ Names(pendingTx'[g]) = {}
      /\ \A h \in Gossiper \ {g} : tail'[h] = tail[h] /\ pendingTx'[h] = pendingTx[h]
  BY <1>2, <1>3
<1>7. \A bs \in SUBSET Hash : NamesIn(bs)' = NamesIn(bs)
  BY <1>4 DEF NamesIn
<1>8. \A h \in Gossiper : Chain(tail[h]) \in SUBSET Hash
  BY <1>3, <1>5
<1>9. \A h \in Gossiper \ {g} : NamesIn(Chain(tail[h]))' = NamesIn(Chain(tail[h]))
  <2> SUFFICES ASSUME NEW h \in Gossiper \ {g}
               PROVE  NamesIn(Chain(tail[h]))' = NamesIn(Chain(tail[h]))
    OBVIOUS
  <2>1. PICK bs : bs = Chain(tail[h])
    OBVIOUS
  <2>2. Chain(tail[h])' = bs /\ bs \in SUBSET Hash
    BY <1>3, <1>4, <1>6, <1>8, <2>1
  <2>3. NamesIn(Chain(tail[h]))' = NamesIn(bs)'
    BY <2>2 DEF NamesIn
  <2> QED BY <1>7, <2>1, <2>2, <2>3
<1>10. BlockNames'
  BY <1>4 DEF NamesInv, BlockNames
<1>11. PendingUnderOwnName'
  <2>1. \A n \in Names(pendingTx'[g]) : pendingTx'[g][n].name = n
    BY <1>6
  <2> QED BY <1>6, <2>1 DEF NamesInv, PendingUnderOwnName
<1>12. PendingIsUnregistered'
  <2>1. ASSUME NEW h \in Gossiper
        PROVE  (Names(pendingTx[h]) \cap NamesIn(Chain(tail[h])) = {})'
    <3>1. CASE h = g
      BY <1>6, <3>1
    <3>2. CASE h # g
      BY <1>6, <1>9, <3>2 DEF NamesInv, PendingIsUnregistered
    <3> QED BY <3>1, <3>2
  <2> QED BY <2>1 DEF PendingIsUnregistered
<1>13. BranchNames'
  <2>1. ASSUME NEW c \in Hash, NEW d \in Chain(c), NEW e \in Chain(c), d # e
        PROVE  Registered(d)' \cap Registered(e)' = {}
    <3>1. d \in Hash /\ e \in Hash /\ Registered(d) \cap Registered(e) = {}
      BY <1>5, <2>1 DEF NamesInv, BranchNames
    <3> QED BY <1>4, <3>1
  <2>2. \A d \in Chain(tail[g]) : Registered(d)' \cap Registered(b)' = {}
    <3>1. \A d \in Chain(tail[g]) : Registered(d) \subseteq NamesIn(Chain(tail[g]))
      BY NamesOfUnion
    <3>2. Names(pendingTx[g]) \cap NamesIn(Chain(tail[g])) = {}
      BY DEF NamesInv, PendingIsUnregistered
    <3>3. \A d \in Chain(tail[g]) : Registered(d)' = Registered(d)
      BY <1>4, <1>8
    <3> QED BY <1>4, <3>1, <3>2, <3>3
  <2>3. ASSUME NEW d \in Chain(tail[g]), NEW e \in Chain(tail[g]), d # e
        PROVE  Registered(d)' \cap Registered(e)' = {}
    <3>1. tail[g] \in Hash
      BY <1>3, <2>3 DEF Chain
    <3> QED BY <2>1, <2>3, <3>1
  <2>4. ASSUME NEW d \in Chain(b)', NEW e \in Chain(b)', d # e
        PROVE  Registered(d)' \cap Registered(e)' = {}
    <3>1. d \in Chain(tail[g]) \cup {b} /\ e \in Chain(tail[g]) \cup {b}
      BY <1>4
    <3>2. CASE d = b
      <4>1. e \in Chain(tail[g])
        BY <2>4, <3>1, <3>2
      <4>2. Registered(e)' \cap Registered(b)' = {}
        BY <2>2, <4>1
      <4> QED BY <3>2, <4>2
    <3>3. CASE e = b
      <4>1. d \in Chain(tail[g])
        BY <2>4, <3>1, <3>3
      <4>2. Registered(d)' \cap Registered(b)' = {}
        BY <2>2, <4>1
      <4> QED BY <3>3, <4>2
    <3>4. CASE d # b /\ e # b
      BY <2>3, <2>4, <3>1, <3>4
    <3> QED BY <3>2, <3>3, <3>4
  <2>5. ASSUME NEW c \in Hash'
        PROVE  \A d, e \in Chain(c)' : d # e => Registered(d)' \cap Registered(e)' = {}
    <3>1. CASE c = b
      BY <2>4, <3>1
    <3>2. CASE c \in Hash
      <4>1. Chain(c)' = Chain(c)
        BY <1>4, <3>2
      <4> QED BY <2>1, <3>2, <4>1
    <3> QED BY <1>4, <3>1, <3>2
  <2> QED BY <2>5 DEF BranchNames
<1>14. KnownNames(g) \subseteq KnownNames(g)'
  <2>1. PICK bs : bs = Chain(tail[g])
    OBVIOUS
  <2>2. Chain(tail[g])' = bs \cup {b} /\ NamesIn(bs)' = NamesIn(bs)
    BY <1>4, <1>6, <1>7, <1>8, <2>1
  <2>3. NamesIn(Chain(tail[g]))' = NamesIn(bs)' \cup Registered(b)'
    BY <2>2 DEF NamesIn
  <2> QED BY <1>4, <2>1, <2>2, <2>3 DEF KnownNames
<1>15. ASSUME NEW h \in Gossiper \ {g} PROVE KnownNames(h) \subseteq KnownNames(h)'
  BY <1>6, <1>9 DEF KnownNames
<1> QED BY <1>10, <1>11, <1>12, <1>13, <1>14, <1>15 DEF NamesInv

(***************************************************************************)
(* A step that changes no chain and no pending set keeps the names.        *)
(***************************************************************************)
LEMMA NamesStay ==
  ASSUME NamesInv, mined' = mined, tail' = tail, pendingTx' = pendingTx
  PROVE  NamesInv' /\ \A g \in Gossiper : KnownNames(g) \subseteq KnownNames(g)'
<1>1. \A g \in Gossiper : /\ NamesIn(Chain(tail[g]))' = NamesIn(Chain(tail[g]))
                          /\ Names(pendingTx[g])' = Names(pendingTx[g])
  BY DEF NamesIn, Registered, Chain, Names
<1>2. BranchNames' /\ BlockNames'
  BY NodesStay DEF NamesInv
<1>3. PendingUnderOwnName' /\ PendingIsUnregistered'
  BY <1>1 DEF NamesInv, PendingUnderOwnName, PendingIsUnregistered
<1> QED BY <1>1, <1>2, <1>3 DEF NamesInv, KnownNames

(***************************************************************************)
(* With a loop variable that is new in every iteration every step keeps    *)
(* the names apart, and forgets none.                                      *)
(***************************************************************************)
LEMMA NamesStep ==
  ASSUME FreshLoopVar, IInv, NamesInv, [Next]_vars
  PROVE  NamesInv' /\ \A g \in Gossiper : KnownNames(g) \subseteq KnownNames(g)'
<1>1. CASE UNCHANGED vars
  BY <1>1, NamesStay DEF vars
<1>2. CASE \E g \in Gossiper : \E tx \in Tx : ClientToShare(g, tx)
  BY <1>2, NamesTxAdded DEF ClientToShare
<1>3. CASE \E g \in Gossiper : \E m \in net : ReceiveTxPublish(g, m)
  <2>1. PICK g \in Gossiper, m \in net : ReceiveTxPublish(g, m)
    BY <1>3
  <2>2. m.tx \in Tx
    BY <2>1, PacketFields DEF IInv, TypeOK, ReceiveTxPublish
  <2> QED BY <2>1, <2>2, NamesTxAdded DEF ReceiveTxPublish
<1>4. CASE \E g \in Gossiper : \E m \in net : ReceiveBlockPublish(g, m)
  BY <1>4, NamesBlockReceived
<1>5. CASE \E g \in Gossiper : \E m \in net : ReceiveOrphan(g, m)
  BY <1>5, NamesStay DEF ReceiveOrphan
<1>6. CASE \E g \in Gossiper : DoMining(g)
  BY <1>6, NamesBlockMined
<1>7. CASE \E g \in Gossiper : PublishMined(g)
  BY <1>7, NamesStay DEF PublishMined
<1> QED BY <1>1, <1>2, <1>3, <1>4, <1>5, <1>6, <1>7 DEF Next

(***************************************************************************)
(* No names to begin with.                                                 *)
(***************************************************************************)
LEMMA NamesInit == Init => NamesInv
<1> SUFFICES ASSUME Init PROVE NamesInv
  OBVIOUS
<1>1. Hash = {} /\ \A g \in Gossiper : Names(pendingTx[g]) = {}
  BY EmptySeq DEF Init, Hash, Names, InitEmpty
<1> QED
  BY <1>1 DEF NamesInv, PendingUnderOwnName, PendingIsUnregistered, BranchNames, BlockNames

(***************************************************************************)
(* Blocks of one chain that share no name, with slices that repeat none: a *)
(* name is registered once on a branch.                                    *)
(***************************************************************************)
LEMMA RegisteredOnce ==
  ASSUME IInv, NamesInv
  PROVE  NamesRegisteredOnce
<1> SUFFICES ASSUME NEW b \in Hash
             PROVE  /\ Cardinality(Registered(b)) = Len(mined[b].txs)
                    /\ \A c \in Chain(b) \ {b} : Registered(b) \cap Registered(c) = {}
  BY DEF NamesRegisteredOnce
<1>1. TypeOK /\ Nodes
  BY DEF IInv
<1>2. mined[b].txs \in Seq(Tx)
  BY <1>1, NodeFields
<1> DEFINE txs == mined[b].txs
           nameOf == [i \in 1..Len(txs) |-> txs[i].name]
<1>3. Len(txs) \in Nat /\ DOMAIN txs = 1..Len(txs)
  BY <1>2, LenProperties
<1>4. Cardinality(Registered(b)) = Len(txs)
  <2>1. nameOf \in Surjection(1..Len(txs), Registered(b))
    BY <1>3 DEF Surjection, Registered
  <2>2. nameOf \in Injection(1..Len(txs), Registered(b))
    BY <1>3, <2>1 DEF Surjection, Injection, IsInjective, NamesInv, BlockNames
  <2>3. IsFiniteSet(1..Len(txs)) /\ Cardinality(1..Len(txs)) = Len(txs)
    BY <1>3, FS_Interval
  <2> QED BY <2>1, <2>2, <2>3, FS_Surjection
<1>5. b \in Chain(b)
  BY <1>1, TreeFacts
<1> QED BY <1>4, <1>5 DEF NamesInv, BranchNames

(***************************************************************************)
(* Both invariants hold in every state, if the loop variable is new in     *)
(* every iteration.                                                        *)
(***************************************************************************)
LEMMA NamesInvariance ==
  ASSUME FreshLoopVar
  PROVE  Spec => [](IInv /\ NamesInv)
<1>1. Init => NamesInv
  BY NamesInit
<1>2. IInv /\ NamesInv /\ [Next]_vars => NamesInv'
  BY NamesStep
<1> QED BY <1>1, <1>2, Invariance, PTL DEF Spec

(***************************************************************************)
(* Built with Go 1.22 or later, the program registers a name at most once  *)
(* on any branch, through any forks and roll-backs and however blocks and  *)
(* transactions are delayed.                                               *)
(***************************************************************************)
THEOREM RegisteredAtMostOnce ==
  ASSUME FreshLoopVar
  PROVE  Spec => []NamesRegisteredOnce
BY RegisteredOnce, NamesInvariance, PTL

(***************************************************************************)
(* Built with Go 1.22 or later, no gossiper has a name pending that its    *)
(* longest chain has already.                                              *)
(***************************************************************************)
THEOREM PendingNotRegistered ==
  ASSUME FreshLoopVar
  PROVE  Spec => []PendingIsUnregistered
<1>1. NamesInv => PendingIsUnregistered
  BY DEF NamesInv
<1> QED BY <1>1, NamesInvariance, PTL

(***************************************************************************)
(* Built with Go 1.22 or later, a name once seen by a gossiper is never    *)
(* forgotten: it stays pending or in its longest chain, whatever fork      *)
(* wins.                                                                   *)
(***************************************************************************)
THEOREM NamesKept ==
  ASSUME FreshLoopVar
  PROVE  Spec => NamesAreKept
<1>1. IInv /\ NamesInv /\ [Next]_vars =>
        [\A g \in Gossiper : KnownNames(g) \subseteq KnownNames(g)']_vars
  BY NamesStep
<1> QED BY <1>1, NamesInvariance, PTL DEF Spec, NamesAreKept
===============================================================================
