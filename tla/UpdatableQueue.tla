--------------------------- MODULE UpdatableQueue ---------------------------
(***************************************************************************)
(* The template UpdatableQueue<K,V> of util/updatable_queue.h: a FIFO      *)
(* whose elements carry a key.  Enqueueing a key that is already waiting   *)
(* replaces the value and leaves the element at its place in the queue.    *)
(* A queue is a sequence of records [key, val], oldest element first (the  *)
(* code pushes at the front of a std::list and pops at the back).          *)
(***************************************************************************)
EXTENDS Naturals, Sequences, FiniteSets

\* The queue q holds a value for the key k.
Waiting(q, k) == \E i \in DOMAIN q : q[i].key = k

\* The queue q with the value of every key of K that is waiting set to v.
Replace(q, K, v) ==
    [i \in DOMAIN q |-> IF q[i].key \in K THEN [q[i] EXCEPT !.val = v] ELSE q[i]]

Enqueue(q, k, v) ==
    IF Waiting(q, k) THEN Replace(q, {k}, v) ELSE Append(q, [key |-> k, val |-> v])

\* The orders in which the elements of a set can be enqueued.
Orders(S) ==
    {o \in [1 .. Cardinality(S) -> S] : \A i, j \in DOMAIN o : o[i] = o[j] => i = j}

\* The value v enqueued for every key of K, where `order' lists those of K
\* that are not waiting yet: a call of Enqueue for each key, in that order.
EnqueueAll(q, K, order, v) ==
    Replace(q, K, v) \o [i \in DOMAIN order |-> [key |-> order[i], val |-> v]]

\* The queue left by n calls of dequeue(), which returned its first n values.
Dequeue(q, n) == SubSeq(q, n + 1, Len(q))

=============================================================================
