------------------------------ MODULE Blockchain ------------------------------
(***************************************************************************)
(* The chain in which gossipers register the names of their files          *)
(* (models/blockchain, and the transaction and block handlers and the      *)
(* mining thread of gossiper/Gossiper.go).                                 *)
(*                                                                         *)
(* A gossiper that shares a file publishes a transaction for its name;     *)
(* every gossiper mines its pending transactions into blocks and publishes *)
(* them after a delay.  A block is known by its place in `mined', which    *)
(* stands for its hash; 0 is the fake block every chain starts from.  Each *)
(* method of BlockchainManager runs under bm.m, so each is one step.       *)
(***************************************************************************)
EXTENDS Naturals, Sequences, FiniteSets

CONSTANTS Gossiper,
          Peers,          \* the neighbours of each gossiper
          Name,           \* file names
          Content,        \* metafile hashes
          NoTx,           \* an absent entry of a TransactionsSet
          FreshLoopVar,   \* whether `tx' in InitFromSlice is a new variable in
                          \* every iteration (Go 1.22 on) or one for all
          TxHopLimit,     \* BlockchainTxHopLimit
          BlockHopLimit,  \* BlockchainBlockPublishHopLimit
          MaxMined        \* bound: blocks mined by all gossipers together

Tx == [name : Name, file : Content]

ASSUME PeersAssumption == Peers \in [Gossiper -> SUBSET Gossiper]
ASSUME NoTxAssumption == NoTx \notin Tx
ASSUME LoopVarAssumption == FreshLoopVar \in BOOLEAN
ASSUME LimitsAssumption == TxHopLimit \in Nat /\ BlockHopLimit \in Nat /\ MaxMined \in Nat

VARIABLES mined,           \* all blocks ever mined, in the order of mining
          blocks,          \* BlockchainManager.blocks: the blocks in the tree
          tail,            \* the last block of the longest chain
          pendingTx,       \* filename -> transaction
          noParentBlocks,  \* blocks received before their parent
          unpublished,     \* the mining thread's new block while it sleeps
          net              \* packets written; any may be lost, late or doubled

vars == <<mined, blocks, tail, pendingTx, noParentBlocks, unpublished, net>>

\* A blockNode: its depth, the blocks that its parent pointers lead through down
\* to and without the fake block (itself included), and its block's fields.
Node == [prev : Nat, txs : Seq(Tx), depth : Nat, chain : SUBSET Nat]

TransactionsSet == [Name -> Tx \cup {NoTx}]

Packet == [kind : {"tx"}, dst : Gossiper, hops : Nat, tx : Tx]
            \cup [kind : {"block"}, dst : Gossiper, hops : Nat, block : Nat]

Hash == 1..Len(mined)

TypeOK ==
  /\ mined \in Seq(Node)
  /\ blocks \in [Gossiper -> SUBSET (Hash \cup {0})]
  /\ tail \in [Gossiper -> Hash \cup {0}]
  /\ pendingTx \in [Gossiper -> TransactionsSet]
  /\ noParentBlocks \in [Gossiper -> SUBSET Hash]
  /\ unpublished \in [Gossiper -> Hash \cup {0}]
  /\ net \subseteq Packet

-----------------------------------------------------------------------------
\* TransactionsSet

InitEmpty == [n \in Name |-> NoTx]

Names(ts) == {n \in Name : ts[n] # NoTx}

\* With one variable for all iterations every entry points to the last transaction.
InitFromSlice(txs) ==
  [n \in Name |->
     IF \E i \in DOMAIN txs : txs[i].name = n
     THEN IF FreshLoopVar
          THEN txs[CHOOSE i \in DOMAIN txs :
                     /\ txs[i].name = n
                     /\ \A j \in DOMAIN txs : txs[j].name = n => i <= j]
          ELSE txs[Len(txs)]
     ELSE NoTx]

Subtract(ts, names) == [n \in Name |-> IF n \in names THEN NoTx ELSE ts[n]]

\* The entries in the order in which ranging over the map yields them.
SliceCopies(ts) ==
  LET size == Cardinality(Names(ts))
  IN  {[i \in 1..size |-> ts[order[i]]] :
         order \in {f \in [1..size -> Names(ts)] :
                      \A i, j \in 1..size : f[i] = f[j] => i = j}}

-----------------------------------------------------------------------------
\* Nodes of the tree

PrevHash(b) == mined[b].prev
Depth(b) == IF b = 0 THEN 0 ELSE mined[b].depth
Chain(b) == IF b = 0 THEN {} ELSE mined[b].chain
TxSet(b) == InitFromSlice(mined[b].txs)

\* The names in a block: the keys of its set, whatever the entries point to
Registered(b) == {mined[b].txs[i].name : i \in DOMAIN mined[b].txs}

NamesIn(bs) == UNION {Registered(b) : b \in bs}

\* Mutated: the undone history is not given back.
RollBackNothing(ts, bs) == ts

\* Puts the transactions of the blocks bs, the deepest first, into ts (`union'
\* overwrites): where two blocks have a name, the entry of the shallower stays.
RollBack(ts, bs) ==
  [n \in Name |->
     LET with == {b \in bs : n \in Registered(b)}
     IN  IF with = {} THEN ts[n]
         ELSE TxSet(CHOOSE b \in with : \A c \in with : Depth(b) <= Depth(c))[n]]

Init ==
  /\ mined = <<>>
  /\ blocks = [g \in Gossiper |-> {0}]
  /\ tail = [g \in Gossiper |-> 0]
  /\ pendingTx = [g \in Gossiper |-> InitEmpty]
  /\ noParentBlocks = [g \in Gossiper |-> {}]
  /\ unpublished = [g \in Gossiper |-> 0]
  /\ net = {}

-----------------------------------------------------------------------------
\* Transactions

\* Mutated: a packet is sent on with no regard to its hop limit.
ForwardedAlways(m, packets) == packets

\* Nothing is sent on once the hop limit is reached.
Forwarded(m, packets) == IF m.hops = 0 THEN {} ELSE packets

\* sendAllPeers
TxToAll(g, tx, hops) == {[kind |-> "tx", dst |-> p, hops |-> hops, tx |-> tx] : p \in Peers[g]}
BlockToAll(g, b, hops) ==
  {[kind |-> "block", dst |-> p, hops |-> hops, block |-> b] : p \in Peers[g]}

\* Mutated: the history is not consulted.
IsNotPending(g, tx) == tx.name \notin Names(pendingTx[g])

\* AddTransaction takes a transaction whose name is neither pending nor in the
\* longest chain.
IsNewTransaction(g, tx) ==
  /\ tx.name \notin Names(pendingTx[g])
  /\ tx.name \notin NamesIn(Chain(tail[g]))

AddTransaction(g, tx) == pendingTx' = [pendingTx EXCEPT ![g][tx.name] = tx]

\* A client shares a file.
ClientToShare(g, tx) ==
  /\ IsNewTransaction(g, tx)
  /\ AddTransaction(g, tx)
  /\ net' = net \cup TxToAll(g, tx, TxHopLimit)
  /\ UNCHANGED <<mined, blocks, tail, noParentBlocks, unpublished>>

ReceiveTxPublish(g, m) ==
  /\ m.kind = "tx" /\ m.dst = g
  /\ IsNewTransaction(g, m.tx)
  /\ AddTransaction(g, m.tx)
  /\ net' = net \cup Forwarded(m, TxToAll(g, m.tx, m.hops - 1))
  /\ UNCHANGED <<mined, blocks, tail, noParentBlocks, unpublished>>

-----------------------------------------------------------------------------
\* Blocks

\* checkPendingBlocks looks for the block itself, not for its parent, in the
\* tree.  What it finds there is appended once more: the parent is not as deep
\* as the tail, so only the node of the block is replaced.  (A fork above that
\* block may then end getLSA below it, which undoes and applies it as well.)
CheckPendingBlocks(g) ==
  noParentBlocks' = [noParentBlocks EXCEPT ![g] = @ \ blocks'[g]]

\* Mutated: the transactions of the new tail stay pending.
ProlongKeepingPending(g, b) ==
  /\ PrevHash(b) = tail[g]
  /\ tail' = [tail EXCEPT ![g] = b]
  /\ UNCHANGED pendingTx

\* appendToTheTree: getLSA ends where the two chains part.
ProlongLongestChain(g, b) ==
  /\ PrevHash(b) = tail[g]
  /\ tail' = [tail EXCEPT ![g] = b]
  /\ pendingTx' = [pendingTx EXCEPT ![g] = Subtract(@, NamesIn({b}))]

\* Mutated: a chain that becomes the longest by one block is still called short.
ProlongShortOrEqual(g, b) ==
  /\ PrevHash(b) # tail[g]
  /\ Depth(PrevHash(b)) <= Depth(tail[g])
  /\ UNCHANGED <<tail, pendingTx>>

ProlongShortChain(g, b) ==
  /\ PrevHash(b) # tail[g]
  /\ Depth(PrevHash(b)) < Depth(tail[g])
  /\ UNCHANGED <<tail, pendingTx>>

\* Mutated: an equally long chain wins, too.
ForkAsLong(g, b) ==
  /\ PrevHash(b) # tail[g]
  /\ Depth(b) >= Depth(tail[g])
  /\ LET undone  == Chain(tail[g]) \ Chain(b)
         applied == Chain(b) \ Chain(tail[g])
     IN  pendingTx' = [pendingTx EXCEPT ![g] =
                         Subtract(RollBack(@, undone), NamesIn(applied))]
  /\ tail' = [tail EXCEPT ![g] = b]

ForkLonger(g, b) ==
  /\ PrevHash(b) # tail[g]
  /\ Depth(PrevHash(b)) >= Depth(tail[g])
  /\ LET undone  == Chain(tail[g]) \ Chain(b)
         applied == Chain(b) \ Chain(tail[g])
     IN  pendingTx' = [pendingTx EXCEPT ![g] =
                         Subtract(RollBack(@, undone), NamesIn(applied))]
  /\ tail' = [tail EXCEPT ![g] = b]

\* A new block whose parent is known goes into the tree and to all peers.
ReceiveBlockPublish(g, m) ==
  /\ m.kind = "block" /\ m.dst = g
  /\ m.block \notin blocks[g]
  /\ PrevHash(m.block) \in blocks[g]
  /\ blocks' = [blocks EXCEPT ![g] = @ \cup {m.block}]
  /\ \/ ProlongLongestChain(g, m.block)
     \/ ProlongShortChain(g, m.block)
     \/ ForkLonger(g, m.block)
  /\ CheckPendingBlocks(g)
  /\ net' = net \cup Forwarded(m, BlockToAll(g, m.block, m.hops - 1))
  /\ UNCHANGED <<mined, unpublished>>

\* One whose parent is not known waits, and goes to nobody.
ReceiveOrphan(g, m) ==
  /\ m.kind = "block" /\ m.dst = g
  /\ m.block \notin blocks[g]
  /\ PrevHash(m.block) \notin blocks[g]
  /\ noParentBlocks' = [noParentBlocks EXCEPT ![g] = @ \cup {m.block}]
  /\ UNCHANGED <<mined, blocks, tail, pendingTx, unpublished, net>>

-----------------------------------------------------------------------------
\* Mining thread

\* DoMining: what counts is what it reads again once it holds the lock.
DoMining(g) ==
  /\ Len(mined) < MaxMined
  /\ unpublished[g] = 0
  /\ Names(pendingTx[g]) # {}
  /\ LET b == Len(mined) + 1
     IN  /\ \E txs \in SliceCopies(pendingTx[g]) :
              mined' = Append(mined, [prev  |-> tail[g],
                                      txs   |-> txs,
                                      depth |-> Depth(tail[g]) + 1,
                                      chain |-> Chain(tail[g]) \cup {b}])
         /\ tail' = [tail EXCEPT ![g] = b]
         /\ blocks' = [blocks EXCEPT ![g] = @ \cup {b}]
         /\ unpublished' = [unpublished EXCEPT ![g] = b]
  /\ pendingTx' = [pendingTx EXCEPT ![g] = InitEmpty]
  /\ UNCHANGED <<noParentBlocks, net>>

\* The thread wakes up, publishes its block and mines on.
PublishMined(g) ==
  /\ unpublished[g] # 0
  /\ net' = net \cup BlockToAll(g, unpublished[g], BlockHopLimit)
  /\ unpublished' = [unpublished EXCEPT ![g] = 0]
  /\ UNCHANGED <<mined, blocks, tail, pendingTx, noParentBlocks>>

Next ==
  \E g \in Gossiper :
    \/ \E tx \in Tx : ClientToShare(g, tx)
    \/ \E m \in net : \/ ReceiveTxPublish(g, m)
                      \/ ReceiveBlockPublish(g, m)
                      \/ ReceiveOrphan(g, m)
    \/ DoMining(g)
    \/ PublishMined(g)

Spec == Init /\ [][Next]_vars

-----------------------------------------------------------------------------
(***************************************************************************)
(* A name is registered at most once on any branch: no block repeats a     *)
(* name of a block before it or has two transactions for one name          *)
(* (AddTransaction, DoMining, the pending set after a fork).               *)
(***************************************************************************)
NamesRegisteredOnce ==
  \A b \in Hash :
    /\ Cardinality(Registered(b)) = Len(mined[b].txs)
    /\ \A c \in Chain(b) \ {b} : Registered(b) \cap Registered(c) = {}

(***************************************************************************)
(* A gossiper does not mine what its chain has already: no pending name is *)
(* registered in its longest chain, through every fork and roll-back.      *)
(***************************************************************************)
PendingIsUnregistered ==
  \A g \in Gossiper : Names(pendingTx[g]) \cap NamesIn(Chain(tail[g])) = {}

(***************************************************************************)
(* BlockchainManager.tail is "tail of the longest chain in the tree", and  *)
(* the tree hangs together: the parent of each of its blocks is in it.     *)
(***************************************************************************)
TailEndsLongestChain ==
  \A g \in Gossiper :
    /\ tail[g] \in blocks[g]
    /\ \A b \in blocks[g] : Depth(b) <= Depth(tail[g]) /\ Chain(b) \subseteq blocks[g]

(***************************************************************************)
(* A gossiper leaves its chain only for a longer one: of two chains of the *)
(* same length the one it had first stays (appendToTheTree).               *)
(***************************************************************************)
ChainOnlyGrows ==
  [][\A g \in Gossiper : tail'[g] # tail[g] => Depth(tail[g])' > Depth(tail[g])]_vars

(***************************************************************************)
(* A name a gossiper has seen, pending or registered, is never forgotten:  *)
(* a roll-back returns it to the pending set unless the new chain has it.  *)
(***************************************************************************)
KnownNames(g) == Names(pendingTx[g]) \cup NamesIn(Chain(tail[g]))

NamesAreKept == [][\A g \in Gossiper : KnownNames(g) \subseteq KnownNames(g)']_vars

(***************************************************************************)
(* TransactionsSet.go:7 says of its map "filename -> tx": a pending        *)
(* transaction is found under its own name.  InitFromSlice keeps addresses *)
(* of its loop variable; with one variable for all iterations the entries  *)
(* of a block's set are all its last transaction, which shows when a       *)
(* roll-back makes them pending.                                           *)
(***************************************************************************)
PendingUnderOwnName ==
  \A g \in Gossiper : \A n \in Names(pendingTx[g]) : pendingTx[g][n].name = n

(***************************************************************************)
(* BlockchainManager.go:19 says of noParentBlocks "blocks here are waiting *)
(* for parent to arrive": a block waits there only while its parent is     *)
(* missing.                                                                *)
(***************************************************************************)
OrphansWaitForParent ==
  \A g \in Gossiper : \A b \in noParentBlocks[g] : PrevHash(b) \notin blocks[g]

===============================================================================
