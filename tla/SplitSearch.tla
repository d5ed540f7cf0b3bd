----------------------------- MODULE SplitSearch -----------------------------
(***************************************************************************)
(* Sub-root splitting: the workers of one root-split depth share out the    *)
(* children of the nodes below it (NodeSplit, SplitRegistry, run_child,     *)
(* help_splits in prove.h, prove_defender_split in rootsplit.h).            *)
(*                                                                          *)
(* A game tree of attacker (OR) and defender (AND) nodes is given; `value'  *)
(* is the truth about each node.  A worker is a stack of loops, helped      *)
(* children and splits it owns.  Every step that holds the registry's mutex *)
(* is one action, and so is each access to the demand counters; the root    *)
(* protocol, modelled access by access in RootSplit, is coarser here.       *)
(***************************************************************************)
EXTENDS Integers, Sequences, FiniteSets

CONSTANTS
    NumWorkers,
    N,               \* root moves
    Kids,            \* [Nodes -> Seq(Nodes)], <<>> for a leaf
    RootNode,        \* [0 .. N-1 -> AND nodes]: the positions after the root moves
    OrNodes,
    MaySplit,        \* attacker nodes within or_split_plies of the root
    LeafCases,       \* what the leaves may turn out to be, SUBSET [Leaves -> Values]
    ReplySplit,      \* reply_split: the replies to a root move are published
    MinProved,       \* reply_split_min_proved
    YbwFirst,        \* children searched before the others are shared out
    OwnerHelps,      \* owner_helps
    Limits           \* interruptions that may happen

Nodes   == DOMAIN Kids
Workers == 1 .. NumWorkers
Roots   == 0 .. N - 1
Values  == {"mate", "proved", "failed", "refuted"}
Leaves  == {n \in Nodes : Kids[n] = <<>>}
NoNode  == "none"

ASSUME TreeAssumption ==
    /\ Kids \in [Nodes -> Seq(Nodes)] /\ NoNode \notin Nodes
    /\ OrNodes \subseteq Nodes /\ MaySplit \subseteq OrNodes
    /\ \A i \in Roots : RootNode[i] \in Nodes \ OrNodes
    /\ \A n \in Nodes : \A i \in DOMAIN Kids[n] : Kids[n][i] \in OrNodes <=> n \notin OrNodes
\* A node is reached one way only: it stands for the line of moves that leads to it.
ASSUME LinesAssumption ==
    \A n \in Nodes : \A j \in DOMAIN Kids[n] :
        /\ \A i \in Roots : Kids[n][j] # RootNode[i]
        /\ \A m \in Nodes : \A k \in DOMAIN Kids[m] : Kids[m][k] = Kids[n][j] => m = n /\ k = j
ASSUME WorkersAssumption == NumWorkers \in Nat \ {0} /\ N \in Nat
ASSUME SettingsAssumption ==
    /\ LeafCases \subseteq [Leaves -> Values]
    /\ \A c \in LeafCases : \A n \in Leaves \cap OrNodes : c[n] # "mate"
    /\ YbwFirst \in Nat \ {0} /\ MinProved \in Nat
    /\ {ReplySplit, OwnerHelps} \subseteq BOOLEAN /\ Limits \subseteq {"external", "limit"}

VARIABLES
    value,           \* the truth; "mate" marks a move that wins at once
    nextIndex, best, \* next_index, best_index
    proved,          \* root moves recorded in `results'
    current, cancel, \* the worker's slot: current_root and cancel
    liveRoots, idle, openCount, nextSeq,     \* the registry's counters
    slot,            \* open_splits: the split a worker's slot shows
    split,           \* the NodeSplit of each node
    pc, stack, at,   \* the loops of each worker, and the node it enters
    ret,             \* the Proof it carries back
    aborted, timedOut, maxOwned,
    happened         \* what may end the whole depth: lane cancelled, limits in reach

registry == <<liveRoots, idle, openCount, nextSeq, slot, split>>
root     == <<nextIndex, best, proved, current, cancel>>
thread   == <<pc, stack, at, ret, aborted, timedOut, maxOwned>>
vars     == <<value, root, registry, thread, happened>>

-----------------------------------------------------------------------------
(* The truth of the tree, and the shapes of the records. *)

Wins(n) == value[n] \in {"proved", "mate"}
KidSet(n) == {Kids[n][i] : i \in DOMAIN Kids[n]}

Composed(n) ==
    LET some(v) == \E k \in KidSet(n) : value[k] \in v
        all(v)  == \A k \in KidSet(n) : value[k] \in v
        wins    == {"proved", "mate"}
    IN  IF n \in OrNodes
        THEN IF some(wins) THEN "proved" ELSE IF all({"refuted"}) THEN "refuted" ELSE "failed"
        ELSE IF all(wins) THEN "proved" ELSE IF some({"refuted"}) THEN "refuted" ELSE "failed"

Nothing == [ok |-> FALSE, refuted |-> FALSE]
Verdict(n) == [ok |-> Wins(n), refuted |-> value[n] = "refuted"]

\* A frame: a sequential loop at a node, a split owned there, a child being run
\* (run_child), or the root move at the bottom.
Frame(kind, n, i, open, seq) ==
    [kind |-> kind, node |-> n, i |-> i, hopeless |-> open, saved |-> seq]

NoSplit == [open |-> FALSE, next |-> 1, active |-> 0, settledAt |-> 0,
            settleRefuted |-> FALSE, seq |-> 0, first |-> 1, owner |-> 0,
            state |-> <<>>]

\* The root move a node lies under: the priority of its split.
Below[n \in Nodes] == {n} \cup UNION {Below[k] : k \in KidSet(n)}
Priority == [n \in Nodes |-> CHOOSE i \in Roots : n \in Below[RootNode[i]]]

\* Every node lies under one root move.
ASSUME RootsAssumption ==
    /\ Priority \in [Nodes -> Roots]
    /\ \A i \in Roots : Priority[RootNode[i]] = i

Init ==
    /\ \E c \in LeafCases, v \in [Nodes \ Leaves -> Values] :
         value = [n \in Nodes |-> IF n \in Leaves THEN c[n] ELSE v[n]]
    /\ \A n \in Nodes \ Leaves : value[n] = Composed(n)
    /\ nextIndex = 0 /\ best = N /\ proved = {}
    /\ current = [w \in Workers |-> N] /\ cancel = [w \in Workers |-> FALSE]
    /\ liveRoots = 0 /\ idle = 0 /\ openCount = 0 /\ nextSeq = 1
    /\ slot = [w \in Workers |-> NoNode] /\ split = [n \in Nodes |-> NoSplit]
    /\ pc = [w \in Workers |-> "claim"] /\ stack = [w \in Workers |-> <<>>]
    /\ at = [w \in Workers |-> NoNode] /\ ret = [w \in Workers |-> Nothing]
    /\ aborted = [w \in Workers |-> FALSE] /\ timedOut = [w \in Workers |-> FALSE]
    /\ maxOwned = [w \in Workers |-> 0] /\ happened = {}

-----------------------------------------------------------------------------
(* A worker's stack. *)

Top(w)  == Head(stack[w])
Rest(w) == Tail(stack[w])

Push(w, f)    == stack' = [stack EXCEPT ![w] = <<f>> \o @]
Retop(w, f)   == stack' = [stack EXCEPT ![w] = <<f>> \o Tail(@)]
Pop(w)        == stack' = [stack EXCEPT ![w] = Tail(@)]
Goto(w, l)    == pc' = [pc EXCEPT ![w] = l]
Enter(w, n)   == Goto(w, "enter") /\ at' = [at EXCEPT ![w] = n]
Return(w, n, v) == Goto(w, "ret") /\ at' = [at EXCEPT ![w] = n] /\ ret' = [ret EXCEPT ![w] = v]

Mut_LastMoveIsLeft(w) ==
    /\ pc[w] = "claim"
    /\ nextIndex' = nextIndex + 1
    /\ IF nextIndex >= N - 1
       THEN /\ Goto(w, "help") /\ idle' = idle + 1
            /\ UNCHANGED <<at, current>>
       ELSE IF nextIndex > best \/ "external" \in happened
       THEN /\ Goto(w, "done") /\ current' = [current EXCEPT ![w] = N]
            /\ UNCHANGED <<at, idle>>
       ELSE /\ Goto(w, "publish") /\ at' = [at EXCEPT ![w] = RootNode[nextIndex]]
            /\ UNCHANGED <<idle, current>>
    /\ UNCHANGED <<value, best, proved, cancel, liveRoots, openCount, nextSeq, slot, split,
                   stack, ret, aborted, timedOut, maxOwned, happened>>

\* run_root_split_depth's workers take root moves in order.
RootClaim(w) ==
    /\ pc[w] = "claim"
    /\ nextIndex' = nextIndex + 1
    /\ IF nextIndex >= N
       THEN /\ Goto(w, "help") /\ idle' = idle + 1
            /\ UNCHANGED <<at, current>>
       ELSE IF nextIndex > best \/ "external" \in happened
       THEN /\ Goto(w, "done") /\ current' = [current EXCEPT ![w] = N]
            /\ UNCHANGED <<at, idle>>
       ELSE /\ Goto(w, "publish") /\ at' = [at EXCEPT ![w] = RootNode[nextIndex]]
            /\ UNCHANGED <<idle, current>>
    /\ UNCHANGED <<value, best, proved, cancel, liveRoots, openCount, nextSeq, slot, split,
                   stack, ret, aborted, timedOut, maxOwned, happened>>

\* current_root is stored, cancel and s.aborted are cleared.
Announce(w, i) ==
    /\ current' = [current EXCEPT ![w] = i]
    /\ cancel' = [cancel EXCEPT ![w] = FALSE]
    /\ aborted' = [aborted EXCEPT ![w] = FALSE]

RootPublish(w) ==
    /\ pc[w] = "publish"
    /\ Announce(w, Priority[at[w]])
    /\ Goto(w, "recheck")
    /\ UNCHANGED <<value, nextIndex, best, proved, registry, stack, at, ret, timedOut,
                   maxOwned, happened>>

Mut_LiveRootLeaks(w) ==
    /\ pc[w] = "recheck"
    /\ liveRoots' = liveRoots + 1
    /\ IF Priority[at[w]] > best
       THEN Goto(w, "claim") /\ UNCHANGED stack
       ELSE /\ Goto(w, "enter")
            /\ Push(w, Frame("root", at[w], Priority[at[w]], FALSE, 0))
    /\ UNCHANGED <<value, root, idle, openCount, nextSeq, slot, split, at, ret, aborted,
                   timedOut, maxOwned, happened>>

\* The re-check closes the window; the guard counts the worker in.
RootRecheck(w) ==
    /\ pc[w] = "recheck"
    /\ IF Priority[at[w]] > best
       THEN Goto(w, "claim") /\ UNCHANGED <<stack, liveRoots>>
       ELSE /\ Goto(w, "enter") /\ liveRoots' = liveRoots + 1
            /\ Push(w, Frame("root", at[w], Priority[at[w]], FALSE, 0))
    /\ UNCHANGED <<value, root, idle, openCount, nextSeq, slot, split, at, ret, aborted,
                   timedOut, maxOwned, happened>>

\* The verdict on a root move; a proof cancels whoever serves a later one.
RootDone(w) ==
    /\ pc[w] = "ret" /\ Top(w).kind = "root"
    /\ LET won == ret[w].ok /\ ~aborted[w]
           i   == Top(w).i
           low == IF i < best THEN i ELSE best
       IN  IF won
           THEN /\ proved' = proved \cup {i} /\ best' = low
                /\ cancel' = [v \in Workers |-> cancel[v] \/ current[v] > low]
           ELSE UNCHANGED <<proved, best, cancel>>
    /\ Goto(w, "claim") /\ Pop(w) /\ liveRoots' = liveRoots - 1
    /\ UNCHANGED <<value, nextIndex, current, idle, openCount, nextSeq, slot, split, at, ret,
                   aborted, timedOut, maxOwned, happened>>

-----------------------------------------------------------------------------
(* The search of a node, prove_attacker and prove_defender. *)

\* search_cancelled: a cancellation is seen by everyone; a limit, once it may be
\* met, by each worker at its own node count or poll, and it marks the worker as
\* timed out.
Stopped(w) == aborted[w] \/ cancel[w] \/ "external" \in happened

GiveUp(w) ==
    /\ pc[w] = "enter"
    /\ \/ Stopped(w) /\ UNCHANGED timedOut
       \/ /\ ~aborted[w] /\ "limit" \in happened
          /\ timedOut' = [timedOut EXCEPT ![w] = TRUE]
    /\ aborted' = [aborted EXCEPT ![w] = TRUE]
    /\ Return(w, at[w], Nothing)
    /\ UNCHANGED <<value, root, registry, stack, maxOwned, happened>>

Searching(w) == pc[w] = "enter" /\ ~Stopped(w)

SearchLeaf(w) ==
    /\ Searching(w) /\ at[w] \in Leaves
    /\ Return(w, at[w], Verdict(at[w]))
    /\ UNCHANGED <<value, root, registry, stack, aborted, timedOut, maxOwned, happened>>

\* With reply_split the replies to a root move are published at once, with no
\* sequence number (prove_defender_split).
RepliesArePublished(w) == ReplySplit /\ Top(w).kind = "root"

OpenNode(w) ==
    /\ Searching(w) /\ at[w] \notin Leaves /\ ~RepliesArePublished(w)
    /\ Push(w, Frame("loop", at[w], 1, at[w] \in OrNodes, 0))
    /\ Goto(w, "loop")
    /\ UNCHANGED <<value, root, registry, at, ret, aborted, timedOut, maxOwned, happened>>

Published(n, from, seq, w) ==
    LET won == {i \in from .. Len(Kids[n]) : n \in OrNodes /\ value[Kids[n][i]] = "mate"}
        j   == IF won = {} THEN 0 ELSE CHOOSE i \in won : \A k \in won : i <= k
    IN  [NoSplit EXCEPT !.open = TRUE, !.next = from, !.first = from, !.settledAt = j,
           !.seq = seq, !.owner = w,
           !.state = [i \in 1 .. Len(Kids[n]) |-> IF i = j THEN "immediate" ELSE "unresolved"]]

PublishReplies(w) ==
    /\ Searching(w) /\ at[w] \notin Leaves /\ RepliesArePublished(w)
    /\ split' = [split EXCEPT ![at[w]] = Published(at[w], 1, 0, w)]
    /\ slot' = [slot EXCEPT ![w] = at[w]]
    /\ Push(w, Frame("own", at[w], 1, FALSE, maxOwned[w]))
    /\ Goto(w, "own")
    /\ UNCHANGED <<value, root, liveRoots, idle, openCount, nextSeq, at, ret, aborted,
                   timedOut, maxOwned, happened>>

InLoop(w, l) == pc[w] = l /\ Top(w).kind = "loop"
Kid(w)       == Kids[Top(w).node][Top(w).i]
HasKid(w)    == Top(w).i <= Len(Kids[Top(w).node])
Wanted(w)    == Top(w).node \in MaySplit /\ Top(w).i > YbwFirst /\ idle > openCount

\* A move that mates, or the end of the loop, settles the node.
LoopEnds(w) ==
    /\ InLoop(w, "loop")
    /\ LET or == Top(w).node \in OrNodes IN
       \/ HasKid(w) /\ or /\ ~Wanted(w) /\ value[Kid(w)] = "mate"
          /\ Return(w, Top(w).node, [ok |-> TRUE, refuted |-> FALSE])
       \/ ~HasKid(w) /\ Return(w, Top(w).node, [ok |-> ~or, refuted |-> or /\ Top(w).hopeless])
    /\ Pop(w)
    /\ UNCHANGED <<value, root, registry, aborted, timedOut, maxOwned, happened>>

NextKid(w) ==
    /\ InLoop(w, "loop") /\ HasKid(w) /\ ~Wanted(w)
    /\ ~(Top(w).node \in OrNodes /\ value[Kid(w)] = "mate")
    /\ Enter(w, Kid(w))
    /\ Retop(w, [Top(w) EXCEPT !.i = @ + 1])
    /\ UNCHANGED <<value, root, registry, ret, aborted, timedOut, maxOwned, happened>>

\* OR: one proof wins, all refuted refutes.  AND: one failure refutes.
BackInLoop(w) ==
    /\ InLoop(w, "ret")
    /\ LET or == Top(w).node \in OrNodes IN
       IF aborted[w] THEN Pop(w) /\ Return(w, Top(w).node, Nothing)
       ELSE IF ret[w].ok = or
       THEN /\ Pop(w)
            /\ Return(w, Top(w).node, [ok |-> or, refuted |-> ~or /\ ret[w].refuted])
       ELSE /\ Retop(w, [Top(w) EXCEPT !.hopeless = @ /\ ret[w].refuted])
            /\ Goto(w, "loop") /\ UNCHANGED <<at, ret>>
    /\ UNCHANGED <<value, root, registry, aborted, timedOut, maxOwned, happened>>

-----------------------------------------------------------------------------
(* Owning a split. *)

\* The demand was read before the lock is taken.
SeeDemand(w) ==
    /\ InLoop(w, "loop") /\ HasKid(w) /\ Wanted(w)
    /\ Goto(w, "share")
    /\ UNCHANGED <<value, root, registry, stack, at, ret, aborted, timedOut, maxOwned,
                   happened>>

Share(w) ==
    /\ InLoop(w, "share")
    /\ LET n == Top(w).node IN
       /\ split' = [split EXCEPT ![n] = Published(n, Top(w).i, nextSeq, w)]
       /\ slot' = [slot EXCEPT ![w] = n]
       /\ Retop(w, Frame("own", n, Top(w).i, Top(w).hopeless, maxOwned[w]))
    /\ nextSeq' = nextSeq + 1 /\ openCount' = openCount + 1
    /\ maxOwned' = [maxOwned EXCEPT ![w] = nextSeq]
    /\ Goto(w, "own")
    /\ UNCHANGED <<value, root, liveRoots, idle, at, ret, aborted, timedOut, happened>>

\* A child worth taking: above the settling one it can no longer be preferred.
Offers(sp) ==
    /\ sp.open /\ sp.next <= Len(sp.state)
    /\ sp.settledAt > 0 => sp.next < sp.settledAt

Taken(sp) == [sp EXCEPT !.next = @ + 1, !.active = @ + 1]

\* run_child begins.
Run(w, n) ==
    /\ split' = [split EXCEPT ![n] = Taken(@)]
    /\ Push(w, Frame("run", n, split[n].next, FALSE, 0))
    /\ at' = [at EXCEPT ![w] = Kids[n][split[n].next]]

Owning(w, l) == pc[w] = l /\ Top(w).kind = "own"

OwnerClaims(w) ==
    /\ Owning(w, "own") /\ Offers(split[Top(w).node])
    /\ Run(w, Top(w).node) /\ Goto(w, "enter")
    /\ UNCHANGED <<value, root, liveRoots, idle, openCount, nextSeq, slot, ret, aborted,
                   timedOut, maxOwned, happened>>

OwnerIsDone(w) ==
    /\ Owning(w, "own") /\ ~Offers(split[Top(w).node])
    /\ Goto(w, "withdraw")
    /\ UNCHANGED <<value, root, registry, stack, at, ret, aborted, timedOut, maxOwned,
                   happened>>

\* Withdraw before waiting: no further claim can be made.
Mut_StaysOpen(w) ==
    /\ Owning(w, "withdraw")
    /\ openCount' = openCount - (IF Top(w).node \in OrNodes THEN 1 ELSE 0)
    /\ Goto(w, "wait")
    /\ UNCHANGED <<value, root, liveRoots, idle, nextSeq, split, slot, stack, at, ret, aborted,
                   timedOut, maxOwned, happened>>

Withdraw(w) ==
    /\ Owning(w, "withdraw")
    /\ split' = [split EXCEPT ![Top(w).node].open = FALSE]
    /\ slot' = [slot EXCEPT ![w] = NoNode]
    /\ openCount' = openCount - (IF Top(w).node \in OrNodes THEN 1 ELSE 0)
    /\ Goto(w, "wait")
    /\ UNCHANGED <<value, root, liveRoots, idle, nextSeq, stack, at, ret, aborted,
                   timedOut, maxOwned, happened>>

\* The owner of an attacker node waits by working, the other just waits.
Busy(w)     == split[Top(w).node].active > 0
MayHelp(w)  == Top(w).node \in OrNodes /\ OwnerHelps /\ ~aborted[w]

LooksForWork(w) ==
    /\ Owning(w, "wait") /\ Busy(w) /\ MayHelp(w)
    /\ Goto(w, "seek")
    /\ UNCHANGED <<value, root, registry, stack, at, ret, aborted, timedOut, maxOwned,
                   happened>>

\* claim_any_child: the lowest root move that still offers a child, published
\* after anything the caller owns.
Open(min) ==
    {v \in Workers :
       /\ slot[v] # NoNode
       /\ LET sp == split[slot[v]] IN
          /\ Offers(sp) /\ Priority[slot[v]] <= best
          /\ slot[v] \notin OrNodes => sp.next - sp.first >= MinProved
          /\ sp.seq > min}

Chosen(min) ==
    slot[CHOOSE v \in Open(min) :
           \A u \in Open(min) : \/ Priority[slot[v]] < Priority[slot[u]]
                                \/ Priority[slot[v]] = Priority[slot[u]] /\ v <= u]

OwnerHelpsOther(w) ==
    /\ Owning(w, "seek") /\ Open(maxOwned[w]) # {}
    /\ Run(w, Chosen(maxOwned[w])) /\ Goto(w, "enter")
    /\ UNCHANGED <<value, root, liveRoots, idle, openCount, nextSeq, slot, ret, aborted,
                   timedOut, maxOwned, happened>>

FindsNoWork(w) ==
    /\ Owning(w, "seek") /\ Open(maxOwned[w]) = {}
    /\ Goto(w, "wait")
    /\ UNCHANGED <<value, root, registry, stack, at, ret, aborted, timedOut, maxOwned,
                   happened>>

\* What the children that were published came to.
Children(sp) == {sp.state[j] : j \in sp.first .. Len(sp.state)}
Unfinished   == {"unresolved", "abandoned"}

Composes(w, or) ==
    /\ Owning(w, "wait") /\ ~Busy(w) /\ (Top(w).node \in OrNodes) = or
    /\ maxOwned' = [maxOwned EXCEPT ![w] = Top(w).saved]
    /\ Pop(w)
    /\ UNCHANGED <<value, root, registry, timedOut, happened>>

\* A child was given up, so there is no verdict here at all.
NoVerdict(w) ==
    /\ Return(w, Top(w).node, Nothing)
    /\ aborted' = [aborted EXCEPT ![w] = TRUE]

\* The settling move wins; without one, every move must have come back.
Mut_AbandonedIsFailed(w) ==
    /\ Composes(w, TRUE) /\ UNCHANGED aborted
    /\ LET sp == split[Top(w).node]
       IN  Return(w, Top(w).node,
                  [ok |-> sp.settledAt > 0,
                   refuted |-> sp.settledAt = 0 /\ Top(w).hopeless /\ Children(sp) \subseteq {"refuted"}])

ComposeMoves(w) ==
    /\ Composes(w, TRUE)
    /\ LET sp == split[Top(w).node]
       IN  IF sp.settledAt = 0 /\ Children(sp) \cap Unfinished # {}
           THEN NoVerdict(w)
           ELSE /\ Return(w, Top(w).node,
                          [ok |-> sp.settledAt > 0,
                           refuted |-> sp.settledAt = 0 /\ Top(w).hopeless
                                         /\ Children(sp) \subseteq {"refuted"}])
                /\ UNCHANGED aborted

\* The settling reply refutes; without one, every reply must have been answered.
ComposeReplies(w) ==
    /\ Composes(w, FALSE)
    /\ LET sp == split[Top(w).node]
       IN  IF sp.settledAt = 0 /\ Children(sp) \cap Unfinished # {}
           THEN NoVerdict(w)
           ELSE /\ Return(w, Top(w).node,
                          [ok |-> sp.settledAt = 0,
                           refuted |-> sp.settledAt > 0 /\ sp.settleRefuted])
                /\ UNCHANGED aborted

-----------------------------------------------------------------------------
(* Ending a child, and the helpers' loop. *)

Outcome(w) == IF aborted[w] THEN "abandoned"
              ELSE IF ret[w].ok THEN "proved"
              ELSE IF ret[w].refuted THEN "refuted" ELSE "failed"

\* run_child's last critical section.
Settled(sp, j, st, or) ==
    LET settles == IF or THEN st = "proved" ELSE st \in {"failed", "refuted"}
        first   == settles /\ (sp.settledAt = 0 \/ j < sp.settledAt)
    IN  [sp EXCEPT !.state[j] = st, !.active = @ - 1,
                   !.settledAt = IF first THEN j ELSE @,
                   !.settleRefuted = IF first THEN st = "refuted" ELSE @]

\* A helper goes back to its loop, an owner to its own children, and an owner
\* that lent a hand back to waiting, without the abort that was not its own.
ChildReturns(w) ==
    /\ pc[w] = "ret" /\ Top(w).kind = "run"
    /\ LET n == Top(w).node IN
       /\ split' = [split EXCEPT ![n] = Settled(@, Top(w).i, Outcome(w), n \in OrNodes)]
       /\ IF Rest(w) = <<>>
          THEN /\ Goto(w, "help") /\ idle' = idle + 1
               /\ current' = [current EXCEPT ![w] = N] /\ UNCHANGED aborted
          ELSE IF Head(Rest(w)).node = n
          THEN /\ Goto(w, IF aborted[w] THEN "withdraw" ELSE "own")
               /\ UNCHANGED <<idle, current, aborted>>
          ELSE /\ Goto(w, "wait") /\ aborted' = [aborted EXCEPT ![w] = FALSE]
               /\ UNCHANGED <<idle, current>>
    /\ Pop(w)
    /\ UNCHANGED <<value, nextIndex, best, proved, cancel, liveRoots, openCount, nextSeq,
                   slot, at, ret, timedOut, maxOwned, happened>>

Leaving(w) == timedOut[w] \/ "external" \in happened

HelperClaims(w) ==
    /\ pc[w] = "help" /\ ~Leaving(w) /\ Open(maxOwned[w]) # {}
    /\ Run(w, Chosen(maxOwned[w])) /\ Goto(w, "announce")
    /\ UNCHANGED <<value, root, liveRoots, idle, openCount, nextSeq, slot, ret, aborted,
                   timedOut, maxOwned, happened>>

\* There is no re-check here.
HelperAnnounces(w) ==
    /\ pc[w] = "announce"
    /\ Announce(w, Priority[Top(w).node])
    /\ idle' = idle - 1
    /\ Goto(w, "enter")
    /\ UNCHANGED <<value, nextIndex, best, proved, liveRoots, openCount, nextSeq, slot, split,
                   stack, at, ret, timedOut, maxOwned, happened>>

HelperLeaves(w) ==
    /\ pc[w] = "help"
    /\ Leaving(w) \/ (Open(maxOwned[w]) = {} /\ liveRoots = 0)
    /\ idle' = idle - 1
    /\ current' = [current EXCEPT ![w] = N]
    /\ Goto(w, "done")
    /\ UNCHANGED <<value, nextIndex, best, proved, cancel, liveRoots, openCount, nextSeq, slot,
                   split, stack, at, ret, aborted, timedOut, maxOwned, happened>>

\* The lane is cancelled, or a limit passes.
Interrupt(e) ==
    /\ e \in Limits \ happened
    /\ \E w \in Workers : pc[w] # "done"
    /\ happened' = happened \cup {e}
    /\ UNCHANGED <<value, root, registry, thread>>

WorkerStep(w) ==
    \/ RootClaim(w) \/ RootPublish(w) \/ RootRecheck(w) \/ RootDone(w)
    \/ GiveUp(w) \/ SearchLeaf(w) \/ OpenNode(w) \/ PublishReplies(w)
    \/ LoopEnds(w) \/ NextKid(w) \/ BackInLoop(w)
    \/ SeeDemand(w) \/ Share(w) \/ OwnerClaims(w) \/ OwnerIsDone(w) \/ Withdraw(w)
    \/ LooksForWork(w) \/ OwnerHelpsOther(w) \/ FindsNoWork(w)
    \/ ComposeMoves(w) \/ ComposeReplies(w)
    \/ ChildReturns(w) \/ HelperClaims(w) \/ HelperAnnounces(w) \/ HelperLeaves(w)

Finished == \A w \in Workers : pc[w] = "done"

\* A parked helper wakes every two milliseconds to look again.
AtRest == (Finished \/ \E w \in Workers : pc[w] = "help") /\ UNCHANGED vars

Next == (\E w \in Workers : WorkerStep(w)) \/ (\E e \in Limits : Interrupt(e)) \/ AtRest

Spec == Init /\ [][Next]_vars

\* Threads run.
FairSpec == Spec /\ \A w \in Workers : WF_vars(WorkerStep(w))

-----------------------------------------------------------------------------
Range1(q) == {q[i] : i \in DOMAIN q}
Frames(w) == Range1(stack[w])

\* The workers running children of the split at n, and what they run.
Runs(n) == {r \in Workers \X (1 .. Len(Kids[n])) :
              \E f \in Frames(r[1]) : f.kind = "run" /\ f.node = n /\ f.i = r[2]}

\* "Reading its empty result as a verdict is the single mistake that would turn
\* this machinery into a forged proof": whatever was abandoned, withdrawn or
\* cancelled, a verdict that is returned, recorded or kept in a split is true.
VerdictsAreTrue ==
    /\ \A w \in Workers :
         pc[w] = "ret" /\ ~aborted[w] =>
           /\ ret[w].ok = Wins(at[w])
           /\ ret[w].refuted => value[at[w]] = "refuted"
    /\ \A n \in Nodes : \A j \in DOMAIN split[n].state :
         LET st == split[n].state[j]
             k  == Kids[n][j]
         IN  /\ st \in {"proved", "immediate"} => Wins(k)
             /\ st \in {"failed", "refuted"} => ~Wins(k)
             /\ st = "refuted" => value[k] = "refuted"
    /\ \A i \in proved : Wins(RootNode[i])

\* No child is run twice, none is written after its split was composed, and
\* `active' is what the owner waits for.
ChildrenAreRunOnce ==
    \A n \in Nodes :
        /\ Cardinality(Runs(n)) = split[n].active
        /\ \A r \in Runs(n) : /\ split[n].state[r[2]] = "unresolved"
                              /\ r[2] < split[n].next
                              /\ \A q \in Runs(n) : q[2] = r[2] => q = r
                              /\ \E f \in Frames(split[n].owner) : f.kind = "own" /\ f.node = n

\* Searching a depth with helpers keeps the promise of searching a depth.
Depth == INSTANCE DepthSearch WITH
           good        <- {i \in Roots : Wins(RootNode[i])},
           answered    <- Finished,
           key         <- IF Finished THEN best ELSE N,
           interrupted <- happened # {}

ImplementsDepth == Depth!Spec

\* Nobody waits for ever: owners, helpers and parked workers all come home.
Termination == <>Finished
=============================================================================
