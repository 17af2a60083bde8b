----------------------------- MODULE DeltaList -----------------------------
(***************************************************************************)
(* The delta list behind ProcessManager.sleep_queue (src/process.rs).      *)
(* A node holds a pid and its delay RELATIVE to the node before it, so     *)
(* that a timer tick only has to touch the front node.  The operators here *)
(* are the list half of sleep() and of wakeup(); who is put in the list,   *)
(* and what becomes of the expired pids, is up to the module that uses     *)
(* them.                                                                   *)
(*                                                                         *)
(* Nothing is recursive except the prefix sums, which are a recursive      *)
(* function, so that the operators can be reasoned about in proofs.        *)
(***************************************************************************)
EXTENDS Integers, Sequences, FiniteSets

\* ProcessDelay::new: one node of the list.
ProcessDelay(pid, delay) == [pid |-> pid, delay |-> delay]

\* The pids that have a node in the list q.
PidsOf(q) == {q[j].pid : j \in DOMAIN q}

\* delay_sum after the cursor of sleep() has passed the first i nodes of q.
DelaySums(q) ==
    LET sum[i \in 0 .. Len(q)] == IF i = 0 THEN 0 ELSE sum[i - 1] + q[i].delay
    IN  sum

\* No node has a negative delay: in the code a subtraction has underflowed.
NonNegative(q) == \A j \in DOMAIN q : q[j].delay >= 0

\* Mutation of Passed: the cursor goes one tick too far.
Passed_TooFar(q, delay) ==
    {j \in 1 .. Len(q) : \A k \in 1 .. j : DelaySums(q)[k] <= delay + 1}

(***************************************************************************)
(* sleep(): the nodes its loop moves past are those before the first node  *)
(* whose absolute delay exceeds the new one.                               *)
(***************************************************************************)
Passed(q, delay) ==
    {j \in 1 .. Len(q) : \A k \in 1 .. j : DelaySums(q)[k] <= delay}

\* Mutation of InsertAt: the next node keeps its delay.
InsertAt_NotRelative(q, i, pid, relative_delay) ==
    [j \in 1 .. Len(q) + 1 |->
        IF j < i THEN q[j] ELSE IF j = i THEN ProcessDelay(pid, relative_delay) ELSE q[j - 1]]

\* insert_node.insert_before: the new node goes in front of the node the
\* loop stopped at, and that node's delay is made relative to the new one.
InsertAt(q, i, pid, relative_delay) ==
    [j \in 1 .. Len(q) + 1 |->
        IF j < i THEN q[j]
        ELSE IF j = i THEN ProcessDelay(pid, relative_delay)
        ELSE IF j = i + 1 THEN ProcessDelay(q[i].pid, q[i].delay - relative_delay)
        ELSE q[j - 1]]

\* The list half of sleep(pid, delay).
Insert(q, pid, delay) ==
    LET n == Cardinality(Passed(q, delay))
    IN  InsertAt(q, n + 1, pid, delay - DelaySums(q)[n])

\* Mutation of Decrement: the last tick of the front node is never counted.
Decrement_KeepsLast(q) ==
    IF q = << >> THEN q
    ELSE [q EXCEPT ![1] = ProcessDelay(@.pid, IF @.delay > 1 THEN @.delay - 1 ELSE @.delay)]

(***************************************************************************)
(* wakeup(): the front node loses one tick unless it has none left, then   *)
(* every leading node with no delay left is removed.                       *)
(***************************************************************************)
Decrement(q) ==
    IF q = << >> THEN q
    ELSE [q EXCEPT ![1] = ProcessDelay(@.pid, IF @.delay >= 1 THEN @.delay - 1 ELSE @.delay)]

\* The nodes the cursor loop of wakeup() removes.
Expired(q) == {j \in 1 .. Len(q) : \A k \in 1 .. j : q[k].delay = 0}

\* Mutation of Due: only the front pid is collected, though all are removed.
Due_FirstOnly(q) == LET d == Decrement(q) IN {d[j].pid : j \in Expired(d) \cap {1}}

\* The pids one call of wakeup() takes off the list, and the list it leaves.
Due(q) == LET d == Decrement(q) IN {d[j].pid : j \in Expired(d)}
Tick(q) ==
    LET d == Decrement(q)
        n == Cardinality(Expired(d))
    IN  [j \in 1 .. Len(d) - n |-> d[j + n]]
=============================================================================
