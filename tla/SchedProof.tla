----------------------------- MODULE SchedProof -----------------------------
(***************************************************************************)
(* What the operators of Sched do to a scheduler state, for every set of   *)
(* threads and every number of priorities: they keep its type, and they    *)
(* keep the run queues exact as long as the thread that is taken off a run *)
(* queue is its head.  Then what thread_add_to_list() and list_remove() do *)
(* to a list of waiting threads, and the invariant of the scheduler with   *)
(* the steps that keep it.  The proofs of the modules above cite these     *)
(* lemmas and never look into a run queue themselves.                      *)
(***************************************************************************)
EXTENDS Sched, WellFoundedInduction, TLAPS

-----------------------------------------------------------------------------
(* Queues *)

Occurs(q, x) == \E i \in DOMAIN q : q[i] = x
NoDup(q) == \A i, j \in DOMAIN q : q[i] = q[j] => i = j

\* t is the first thread of the run queue of its priority.
IsHead(s, t) ==
    /\ s.runqueues[s.priority[t]] # << >>
    /\ Head(s.runqueues[s.priority[t]]) = t

\* clist_rpush() adds the element and nothing else, behind the others.
LEMMA AppendQueue ==
    ASSUME NEW S, NEW q \in Seq(S), NEW t \in S
    PROVE  /\ Append(q, t) \in Seq(S)
           /\ Append(q, t) # << >>
           /\ \A x : Occurs(Append(q, t), x) <=> Occurs(q, x) \/ x = t
           /\ NoDup(q) /\ ~Occurs(q, t) => NoDup(Append(q, t))
           /\ q # << >> => Head(Append(q, t)) = Head(q)
           /\ q = << >> => Head(Append(q, t)) = t
<1>1. /\ Append(q, t) \in Seq(S)
      /\ Len(Append(q, t)) = Len(q) + 1
      /\ \A i \in 1 .. Len(q) : Append(q, t)[i] = q[i]
      /\ Append(q, t)[Len(q) + 1] = t
      /\ DOMAIN Append(q, t) = 1 .. Len(q) + 1
      /\ DOMAIN q = 1 .. Len(q)
      /\ Len(q) \in Nat
  OBVIOUS
<1>2. Append(q, t) # << >>
  BY <1>1
<1>3. ASSUME NEW x PROVE Occurs(Append(q, t), x) <=> Occurs(q, x) \/ x = t
  BY <1>1 DEF Occurs
<1>4. NoDup(q) /\ ~Occurs(q, t) => NoDup(Append(q, t))
  BY <1>1 DEF Occurs, NoDup
<1>5. /\ q # << >> => Head(Append(q, t)) = Head(q)
      /\ q = << >> => Head(Append(q, t)) = t
  BY <1>1
<1> QED
  BY <1>1, <1>2, <1>3, <1>4, <1>5

\* clist_lpop() removes the head and nothing else, ...
LEMMA TailMembers ==
    ASSUME NEW S, NEW q \in Seq(S), q # << >>
    PROVE  /\ Tail(q) \in Seq(S)
           /\ Head(q) \in S
           /\ \A x : Occurs(q, x) <=> x = Head(q) \/ Occurs(Tail(q), x)
           /\ NoDup(q) => NoDup(Tail(q)) /\ ~Occurs(Tail(q), Head(q))
<1>1. /\ Tail(q) \in Seq(S)
      /\ Head(q) = q[1]
      /\ Len(q) \in Nat \ {0}
      /\ DOMAIN q = 1 .. Len(q)
      /\ Len(Tail(q)) = Len(q) - 1
      /\ DOMAIN Tail(q) = 1 .. Len(q) - 1
      /\ \A i \in 1 .. Len(q) - 1 : Tail(q)[i] = q[i + 1]
  OBVIOUS
<1>2. Head(q) \in S /\ Occurs(q, Head(q))
  BY <1>1 DEF Occurs
<1>3. ASSUME NEW x, Occurs(Tail(q), x) PROVE Occurs(q, x)
  BY <1>1, <1>3 DEF Occurs
<1>4. ASSUME NEW x, Occurs(q, x), x # Head(q) PROVE Occurs(Tail(q), x)
  <2>1. PICK i \in 1 .. Len(q) : q[i] = x
    BY <1>1, <1>4 DEF Occurs
  <2>2. i # 1 /\ i - 1 \in 1 .. Len(q) - 1
    BY <1>1, <1>4, <2>1
  <2>3. Tail(q)[i - 1] = x
    BY <1>1, <2>1, <2>2
  <2> QED
    BY <1>1, <2>2, <2>3 DEF Occurs
<1>5. NoDup(q) => NoDup(Tail(q)) /\ ~Occurs(Tail(q), Head(q))
  BY <1>1 DEF NoDup, Occurs
<1> QED
  BY <1>1, <1>2, <1>3, <1>4, <1>5

\* ... which is not in the rest of a queue without duplicates.
LEMMA TailQueue ==
    ASSUME NEW S, NEW q \in Seq(S), q # << >>, NoDup(q)
    PROVE  /\ Tail(q) \in Seq(S)
           /\ Head(q) \in S
           /\ Occurs(q, Head(q))
           /\ \A x : Occurs(Tail(q), x) <=> Occurs(q, x) /\ x # Head(q)
           /\ NoDup(Tail(q))
  BY TailMembers

\* clist_lpoprpush() keeps the members of the queue.
LEMMA RotateQueue ==
    ASSUME NEW S, NEW q \in Seq(S), q # << >>, NoDup(q)
    PROVE  LET r == Append(Tail(q), Head(q))
           IN  /\ r \in Seq(S)
               /\ r # << >>
               /\ \A x : Occurs(r, x) <=> Occurs(q, x)
               /\ NoDup(r)
<1> DEFINE rest == Tail(q)
           h == Head(q)
<1>1. /\ rest \in Seq(S)
      /\ h \in S
      /\ \A x : Occurs(q, x) <=> x = h \/ Occurs(rest, x)
      /\ NoDup(rest) /\ ~Occurs(rest, h)
  BY TailMembers
<1> HIDE DEF rest, h
<1>2. /\ Append(rest, h) \in Seq(S)
      /\ Append(rest, h) # << >>
      /\ \A x : Occurs(Append(rest, h), x) <=> Occurs(rest, x) \/ x = h
      /\ NoDup(Append(rest, h))
  BY <1>1, AppendQueue
<1> QED
  BY <1>1, <1>2 DEF rest, h

-----------------------------------------------------------------------------
(* The type of a scheduler state, field by field *)

\* The fields sched_set_status() leaves alone.
SameButQueues(r, s) ==
    /\ r.priority = s.priority
    /\ r.active = s.active
    /\ r.request = s.request
    /\ r.pendsv = s.pendsv
    /\ r.idle = s.idle
    /\ r.call = s.call
    /\ r.fault = s.fault

\* The kernel's globals and the control blocks each have their own type.
LEMMA SchedFields ==
    ASSUME NEW s \in SchedState
    PROVE  /\ s.status \in [Threads -> Status]
           /\ s.priority \in [Threads -> Prios]
           /\ s.runqueues \in [Prios -> Seq(Threads)]
           /\ s.bitcache \in SUBSET Prios
           /\ s.active \in Threads \cup {NoThread}
           /\ s.request \in BOOLEAN
           /\ s.pendsv \in BOOLEAN
           /\ s.idle \in BOOLEAN
           /\ s.call \in [Threads -> Calls]
           /\ s.fault \in BOOLEAN
  BY DEF SchedState

\* _runqueue_push() writes the run queue and the bit cache only.
LEMMA PushFields ==
    ASSUME NEW s \in SchedState, NEW t \in Threads, NEW p \in Prios
    PROVE  LET r == runqueue_push(s, t, p)
           IN  /\ r \in SchedState
               /\ r.status = s.status
               /\ r.runqueues = [s.runqueues EXCEPT ![p] = Append(s.runqueues[p], t)]
               /\ r.bitcache = s.bitcache \cup {p}
               /\ SameButQueues(r, s)
<1>1. s.runqueues[p] \in Seq(Threads) /\ Append(s.runqueues[p], t) \in Seq(Threads)
  BY DEF SchedState
<1> QED
  BY <1>1 DEF SchedState, runqueue_push, SameButQueues

\* _runqueue_pop() writes the run queue and the bit cache only.
LEMMA PopFields ==
    ASSUME NEW s \in SchedState, NEW t \in Threads,
           s.runqueues[s.priority[t]] # << >>
    PROVE  LET r == runqueue_pop(s, t)
               p == s.priority[t]
           IN  /\ r \in SchedState
               /\ r.status = s.status
               /\ r.runqueues = [s.runqueues EXCEPT ![p] = Tail(s.runqueues[p])]
               /\ r.bitcache = IF Tail(s.runqueues[p]) = << >>
                               THEN s.bitcache \ {p} ELSE s.bitcache
               /\ SameButQueues(r, s)
<1> DEFINE p == s.priority[t]
<1>1. p \in Prios /\ s.runqueues[p] \in Seq(Threads)
  BY SchedFields
<1>2. Tail(s.runqueues[p]) \in Seq(Threads)
  BY <1>1
<1> DEFINE rest == Tail(s.runqueues[p])
           bits == IF rest = << >> THEN s.bitcache \ {p} ELSE s.bitcache
<1>3. bits \in SUBSET Prios
  BY SchedFields
<1>4. runqueue_pop(s, t) = [s EXCEPT !.runqueues = [s.runqueues EXCEPT ![p] = rest],
                                     !.bitcache = bits]
  BY <1>1 DEF runqueue_pop
<1>5. [s.runqueues EXCEPT ![p] = rest] \in [Prios -> Seq(Threads)]
  BY <1>1, <1>2, SchedFields
<1> HIDE DEF rest, bits
<1>6. /\ runqueue_pop(s, t) \in SchedState
      /\ runqueue_pop(s, t).status = s.status
      /\ runqueue_pop(s, t).runqueues = [s.runqueues EXCEPT ![p] = rest]
      /\ runqueue_pop(s, t).bitcache = bits
      /\ SameButQueues(runqueue_pop(s, t), s)
  BY <1>3, <1>4, <1>5 DEF SchedState, SameButQueues
<1> QED
  BY <1>6 DEF rest, bits

-----------------------------------------------------------------------------
(* Exact run queues *)

\* RunqueueExact in terms of Occurs and NoDup.
LEMMA ExactRunqueues ==
    ASSUME NEW s
    PROVE  RunqueueExact(s) <=>
               /\ \A x \in Threads, p \in Prios :
                      Occurs(s.runqueues[p], x)
                          <=> on_runqueue(s, x) /\ s.priority[x] = p
               /\ \A p \in Prios : NoDup(s.runqueues[p])
               /\ s.bitcache = {p \in Prios : s.runqueues[p] # << >>}
  BY DEF RunqueueExact, InQueue, Occurs, NoDup

\* Exactness does not depend on the other fields, nor on which of the two
\* statuses of a runnable thread it has.
LEMMA ExactOnly ==
    ASSUME NEW s, NEW r, RunqueueExact(s),
           r.runqueues = s.runqueues, r.bitcache = s.bitcache,
           \A x \in Threads : on_runqueue(r, x) <=> on_runqueue(s, x),
           \A x \in Threads : on_runqueue(s, x) => r.priority[x] = s.priority[x]
    PROVE  RunqueueExact(r)
  BY DEF RunqueueExact, InQueue

\* An exact scheduler state has each runnable thread in a queue that is not
\* empty, and names the queue of every head.
LEMMA HeadOfQueue ==
    ASSUME NEW s \in SchedState, RunqueueExact(s), NEW p \in s.bitcache
    PROVE  LET h == Head(s.runqueues[p])
           IN  /\ p \in Prios
               /\ s.runqueues[p] # << >>
               /\ h \in Threads
               /\ on_runqueue(s, h)
               /\ s.priority[h] = p
<1>1. p \in Prios /\ s.runqueues[p] # << >> /\ NoDup(s.runqueues[p])
  BY ExactRunqueues
<1>2. s.runqueues[p] \in Seq(Threads)
  BY <1>1, SchedFields
<1>3. Head(s.runqueues[p]) \in Threads /\ Occurs(s.runqueues[p], Head(s.runqueues[p]))
  BY <1>1, <1>2, TailQueue
<1> QED
  BY <1>1, <1>3, ExactRunqueues

\* A runnable thread has a queue, and the bit cache names it.
LEMMA OnItsQueue ==
    ASSUME NEW s \in SchedState, RunqueueExact(s), NEW t \in Threads,
           on_runqueue(s, t)
    PROVE  /\ s.priority[t] \in s.bitcache
           /\ s.runqueues[s.priority[t]] # << >>
<1>1. s.priority[t] \in Prios /\ s.runqueues[s.priority[t]] \in Seq(Threads)
  BY SchedFields
<1>2. Occurs(s.runqueues[s.priority[t]], t)
  BY <1>1, ExactRunqueues
<1>3. s.runqueues[s.priority[t]] # << >>
  BY <1>2 DEF Occurs
<1> QED
  BY <1>1, <1>3, ExactRunqueues

-----------------------------------------------------------------------------
(* sched_set_status() *)

\* Writing thread_t::status alone.
LEMMA StatusFields ==
    ASSUME NEW s \in SchedState, NEW t \in Threads, NEW st \in Status
    PROVE  LET r == [s EXCEPT !.status[t] = st]
           IN  /\ r \in SchedState
               /\ r.status = [s.status EXCEPT ![t] = st]
               /\ r.runqueues = s.runqueues
               /\ r.bitcache = s.bitcache
               /\ SameButQueues(r, s)
<1>1. [s.status EXCEPT ![t] = st] \in [Threads -> Status]
  BY SchedFields
<1> QED
  BY <1>1 DEF SchedState, SameButQueues

\* A thread that becomes runnable joins the queue of its priority; whoever
\* is the head of a queue stays the head.
LEMMA PushStatus ==
    ASSUME NEW s \in SchedState, RunqueueExact(s), NEW t \in Threads,
           NEW st \in OnRunqueue, ~on_runqueue(s, t)
    PROVE  LET r == sched_set_status(s, t, st)
           IN  /\ r \in SchedState
               /\ RunqueueExact(r)
               /\ r.status = [s.status EXCEPT ![t] = st]
               /\ SameButQueues(r, s)
               /\ \A x \in Threads : IsHead(s, x) => IsHead(r, x)
<1> DEFINE p == s.priority[t]
           m == runqueue_push(s, t, p)
           r == sched_set_status(s, t, st)
<1>1. p \in Prios /\ s.runqueues[p] \in Seq(Threads) /\ st \in Status
  BY SchedFields DEF Status
<1>2. /\ m \in SchedState
      /\ m.status = s.status
      /\ m.runqueues = [s.runqueues EXCEPT ![p] = Append(s.runqueues[p], t)]
      /\ m.bitcache = s.bitcache \cup {p}
      /\ SameButQueues(m, s)
  BY <1>1, PushFields
<1>3. r = [m EXCEPT !.status[t] = st]
  BY DEF sched_set_status
<1> HIDE DEF m
<1>4. /\ r \in SchedState
      /\ r.status = [s.status EXCEPT ![t] = st]
      /\ r.runqueues = [s.runqueues EXCEPT ![p] = Append(s.runqueues[p], t)]
      /\ r.bitcache = s.bitcache \cup {p}
      /\ SameButQueues(r, s)
  BY <1>1, <1>2, <1>3, StatusFields DEF SameButQueues
<1> HIDE DEF r
<1>5. /\ \A x \in Threads, q \in Prios :
             Occurs(s.runqueues[q], x) <=> on_runqueue(s, x) /\ s.priority[x] = q
      /\ \A q \in Prios : NoDup(s.runqueues[q])
      /\ s.bitcache = {q \in Prios : s.runqueues[q] # << >>}
  BY ExactRunqueues
<1> DEFINE longer == Append(s.runqueues[p], t)
<1>6. /\ longer # << >>
      /\ \A x : Occurs(longer, x) <=> Occurs(s.runqueues[p], x) \/ x = t
      /\ NoDup(longer)
      /\ s.runqueues[p] # << >> => Head(longer) = Head(s.runqueues[p])
  <2>1. NoDup(s.runqueues[p]) /\ ~Occurs(s.runqueues[p], t)
    BY <1>1, <1>5
  <2> QED
    BY <1>1, <2>1, AppendQueue
<1>7. \A q \in Prios : r.runqueues[q] = IF q = p THEN longer ELSE s.runqueues[q]
  BY <1>1, <1>4, SchedFields
<1> HIDE DEF longer
<1>8. \A x \in Threads : on_runqueue(r, x) <=> on_runqueue(s, x) \/ x = t
  BY <1>1, <1>4, SchedFields DEF on_runqueue
<1>9. RunqueueExact(r)
  <2>1. ASSUME NEW x \in Threads, NEW q \in Prios
        PROVE  Occurs(r.runqueues[q], x) <=> on_runqueue(r, x) /\ r.priority[x] = q
    <3>1. r.priority = s.priority
      BY <1>4 DEF SameButQueues
    <3>2. CASE q = p
      BY <1>5, <1>6, <1>7, <1>8, <3>1, <3>2
    <3>3. CASE q # p
      BY <1>5, <1>7, <1>8, <3>1, <3>3
    <3> QED
      BY <3>2, <3>3
  <2>2. \A q \in Prios : NoDup(r.runqueues[q])
    BY <1>5, <1>6, <1>7
  <2>3. r.bitcache = {q \in Prios : r.runqueues[q] # << >>}
    <3>1. r.bitcache = s.bitcache \cup {p}
      BY <1>4
    <3>2. \A q \in Prios : r.runqueues[q] # << >> <=> q \in s.bitcache \/ q = p
      BY <1>5, <1>6, <1>7
    <3> QED
      BY <1>1, <1>5, <3>1, <3>2
  <2> QED
    BY <2>1, <2>2, <2>3, ExactRunqueues
<1>10. ASSUME NEW x \in Threads, IsHead(s, x) PROVE IsHead(r, x)
  <2>1. s.priority[x] \in Prios
    BY SchedFields
  <2>2. r.priority[x] = s.priority[x]
    BY <1>4 DEF SameButQueues
  <2>3. CASE s.priority[x] = p
    BY <1>6, <1>7, <1>10, <2>1, <2>2, <2>3 DEF IsHead
  <2>4. CASE s.priority[x] # p
    BY <1>7, <1>10, <2>1, <2>2, <2>4 DEF IsHead
  <2> QED
    BY <2>3, <2>4
<1> QED
  BY <1>4, <1>9, <1>10 DEF r

\* A run queue whose head is taken off stays exact for the others.
LEMMA PopHead ==
    ASSUME NEW s \in SchedState, RunqueueExact(s), NEW t \in Threads,
           on_runqueue(s, t), IsHead(s, t)
    PROVE  LET r == runqueue_pop(s, t)
           IN  /\ r \in SchedState
               /\ r.status = s.status
               /\ SameButQueues(r, s)
               /\ \A x \in Threads, q \in Prios :
                      Occurs(r.runqueues[q], x)
                          <=> x # t /\ on_runqueue(s, x) /\ s.priority[x] = q
               /\ \A q \in Prios : NoDup(r.runqueues[q])
               /\ r.bitcache = {q \in Prios : r.runqueues[q] # << >>}
<1> DEFINE p == s.priority[t]
           r == runqueue_pop(s, t)
<1>1. p \in Prios /\ s.runqueues[p] \in Seq(Threads)
  BY SchedFields
<1>2. s.runqueues[p] # << >> /\ Head(s.runqueues[p]) = t
  BY DEF IsHead
<1>3. /\ r \in SchedState
      /\ r.status = s.status
      /\ r.runqueues = [s.runqueues EXCEPT ![p] = Tail(s.runqueues[p])]
      /\ r.bitcache = IF Tail(s.runqueues[p]) = << >>
                      THEN s.bitcache \ {p} ELSE s.bitcache
      /\ SameButQueues(r, s)
  BY <1>2, PopFields
<1> HIDE DEF r
<1>4. /\ \A x \in Threads, q \in Prios :
             Occurs(s.runqueues[q], x) <=> on_runqueue(s, x) /\ s.priority[x] = q
      /\ \A q \in Prios : NoDup(s.runqueues[q])
      /\ s.bitcache = {q \in Prios : s.runqueues[q] # << >>}
  BY ExactRunqueues
<1>5. /\ \A x : Occurs(Tail(s.runqueues[p]), x) <=> Occurs(s.runqueues[p], x) /\ x # t
      /\ NoDup(Tail(s.runqueues[p]))
  BY <1>1, <1>2, <1>4, TailQueue
<1>6. \A q \in Prios : r.runqueues[q] = IF q = p THEN Tail(s.runqueues[p])
                                        ELSE s.runqueues[q]
  BY <1>1, <1>3, SchedFields
<1>7. ASSUME NEW x \in Threads, NEW q \in Prios
      PROVE  Occurs(r.runqueues[q], x)
                 <=> x # t /\ on_runqueue(s, x) /\ s.priority[x] = q
  BY <1>1, <1>4, <1>5, <1>6
<1>8. \A q \in Prios : NoDup(r.runqueues[q])
  BY <1>4, <1>5, <1>6
<1>9. r.bitcache = {q \in Prios : r.runqueues[q] # << >>}
  <2> DEFINE empty == Tail(s.runqueues[p]) = << >>
  <2>1. r.runqueues[p] # << >> <=> ~empty
    BY <1>1, <1>6
  <2>2. p \in s.bitcache
    BY <1>1, <1>2, <1>4
  <2>3. r.bitcache = IF empty THEN s.bitcache \ {p} ELSE s.bitcache
    BY <1>3
  <2>4. \A q \in Prios \ {p} : r.runqueues[q] = s.runqueues[q]
    BY <1>6
  <2> HIDE DEF empty
  <2>5. r.bitcache \subseteq Prios
    BY <2>3, <1>4
  <2>6. ASSUME NEW q \in Prios PROVE q \in r.bitcache <=> r.runqueues[q] # << >>
    BY <1>4, <2>1, <2>2, <2>3, <2>4
  <2> QED
    BY <2>5, <2>6
<1> QED
  BY <1>3, <1>7, <1>8, <1>9 DEF r

\* The head of a run queue may be blocked.
LEMMA PopStatus ==
    ASSUME NEW s \in SchedState, RunqueueExact(s), NEW t \in Threads,
           NEW st \in BlockedStatus, on_runqueue(s, t), IsHead(s, t)
    PROVE  LET r == sched_set_status(s, t, st)
           IN  /\ r \in SchedState
               /\ RunqueueExact(r)
               /\ r.status = [s.status EXCEPT ![t] = st]
               /\ SameButQueues(r, s)
<1> DEFINE m == runqueue_pop(s, t)
           r == sched_set_status(s, t, st)
<1>1. st \in Status /\ st \notin OnRunqueue
  BY DEF Status, BlockedStatus, OnRunqueue
<1>2. /\ m \in SchedState
      /\ m.status = s.status
      /\ SameButQueues(m, s)
      /\ \A x \in Threads, q \in Prios :
             Occurs(m.runqueues[q], x)
                 <=> x # t /\ on_runqueue(s, x) /\ s.priority[x] = q
      /\ \A q \in Prios : NoDup(m.runqueues[q])
      /\ m.bitcache = {q \in Prios : m.runqueues[q] # << >>}
  BY PopHead
<1>3. r = [m EXCEPT !.status[t] = st]
  BY <1>1 DEF sched_set_status
<1> HIDE DEF m
<1>4. /\ r \in SchedState
      /\ r.status = [s.status EXCEPT ![t] = st]
      /\ r.runqueues = m.runqueues
      /\ r.bitcache = m.bitcache
      /\ SameButQueues(r, s)
  BY <1>1, <1>2, <1>3, StatusFields DEF SameButQueues
<1> HIDE DEF r
<1>5. \A x \in Threads : on_runqueue(r, x) <=> on_runqueue(s, x) /\ x # t
  BY <1>1, <1>4, SchedFields DEF on_runqueue
<1>6. RunqueueExact(r)
  BY <1>2, <1>4, <1>5, ExactRunqueues DEF SameButQueues
<1> QED
  BY <1>4, <1>6 DEF r

\* A status that does not change whether the thread is runnable moves nothing.
LEMMA KeepStatus ==
    ASSUME NEW s \in SchedState, RunqueueExact(s), NEW t \in Threads,
           NEW st \in Status, on_runqueue(s, t) <=> st \in OnRunqueue
    PROVE  LET r == sched_set_status(s, t, st)
           IN  /\ r \in SchedState
               /\ RunqueueExact(r)
               /\ r.status = [s.status EXCEPT ![t] = st]
               /\ SameButQueues(r, s)
               /\ \A x \in Threads : IsHead(s, x) => IsHead(r, x)
<1> DEFINE r == sched_set_status(s, t, st)
<1>1. r = [s EXCEPT !.status[t] = st]
  BY DEF sched_set_status
<1>2. /\ r \in SchedState
      /\ r.status = [s.status EXCEPT ![t] = st]
      /\ r.runqueues = s.runqueues
      /\ r.bitcache = s.bitcache
      /\ SameButQueues(r, s)
  BY <1>1, StatusFields
<1> HIDE DEF r
<1>3. \A x \in Threads : on_runqueue(r, x) <=> on_runqueue(s, x)
  BY <1>2, SchedFields DEF on_runqueue
<1>4. RunqueueExact(r)
  BY <1>2, <1>3, ExactOnly DEF SameButQueues
<1> QED
  BY <1>2, <1>4 DEF r, IsHead, SameButQueues

\* What _runqueue_push() leaves alone.
LEMMA PushFrame ==
    ASSUME NEW s \in SchedState, NEW t \in Threads, NEW p \in Prios
    PROVE  LET r == runqueue_push(s, t, p)
           IN  r \in SchedState /\ r.status = s.status /\ SameButQueues(r, s)
<1>1. Append(s.runqueues[p], t) \in Seq(Threads)
  BY SchedFields
<1> QED
  BY <1>1 DEF SchedState, runqueue_push, SameButQueues

\* What _runqueue_pop() leaves alone.
LEMMA PopFrame ==
    ASSUME NEW s \in SchedState, NEW t \in Threads
    PROVE  LET r == runqueue_pop(s, t)
           IN  r \in SchedState /\ r.status = s.status /\ SameButQueues(r, s)
<1> DEFINE p == s.priority[t]
           rest == IF s.runqueues[p] = << >> THEN << >> ELSE Tail(s.runqueues[p])
           bits == IF rest = << >> THEN s.bitcache \ {p} ELSE s.bitcache
<1>1. s.runqueues[p] \in Seq(Threads) /\ p \in Prios
  BY SchedFields
<1>2. rest \in Seq(Threads) /\ bits \in SUBSET Prios
  BY <1>1, SchedFields
<1>3. runqueue_pop(s, t) = [s EXCEPT !.runqueues = [s.runqueues EXCEPT ![p] = rest],
                                     !.bitcache = bits]
  BY <1>1 DEF runqueue_pop
<1> HIDE DEF rest, bits
<1>4. [s.runqueues EXCEPT ![p] = rest] \in [Prios -> Seq(Threads)]
  BY <1>1, <1>2, SchedFields
<1> QED
  BY <1>2, <1>3, <1>4 DEF SchedState, SameButQueues

\* sched_set_status() writes the status, the run queues and the bit cache.
LEMMA SetStatusOnly ==
    ASSUME NEW s \in SchedState, NEW t \in Threads, NEW st \in Status
    PROVE  LET r == sched_set_status(s, t, st)
           IN  /\ r \in SchedState
               /\ r.status = [s.status EXCEPT ![t] = st]
               /\ SameButQueues(r, s)
<1> DEFINE moved == IF st \in OnRunqueue
                    THEN IF on_runqueue(s, t) THEN s
                         ELSE runqueue_push(s, t, s.priority[t])
                    ELSE IF on_runqueue(s, t) THEN runqueue_pop(s, t)
                         ELSE s
<1>1. sched_set_status(s, t, st) = [moved EXCEPT !.status[t] = st]
  BY DEF sched_set_status
<1>2. moved \in SchedState /\ moved.status = s.status /\ SameButQueues(moved, s)
  <2>1. CASE st \in OnRunqueue /\ ~on_runqueue(s, t)
    <3>1. PICK p \in Prios : p = s.priority[t]
      BY SchedFields
    <3>2. moved = runqueue_push(s, t, p)
      BY <2>1, <3>1
    <3> HIDE DEF moved
    <3> QED
      BY <3>2, PushFrame
  <2>2. CASE st \notin OnRunqueue /\ on_runqueue(s, t)
    <3>1. moved = runqueue_pop(s, t)
      BY <2>2
    <3> HIDE DEF moved
    <3> QED
      BY <3>1, PopFrame
  <2>3. CASE moved = s
    BY <2>3 DEF SameButQueues
  <2> QED
    BY <2>1, <2>2, <2>3
<1> HIDE DEF moved
<1>3. LET r == [moved EXCEPT !.status[t] = st]
      IN  /\ r \in SchedState
          /\ r.status = [moved.status EXCEPT ![t] = st]
          /\ SameButQueues(r, moved)
  BY <1>2, StatusFields
<1> QED
  BY <1>1, <1>2, <1>3 DEF SameButQueues

-----------------------------------------------------------------------------
(* The other operations on run queues *)

\* sched_runq_advance() reorders one queue.
LEMMA Advance ==
    ASSUME NEW s \in SchedState, RunqueueExact(s), NEW p \in Prios
    PROVE  LET r == sched_runq_advance(s, p)
           IN  /\ r \in SchedState
               /\ RunqueueExact(r)
               /\ r.status = s.status
               /\ SameButQueues(r, s)
<1> DEFINE r == sched_runq_advance(s, p)
           turned == Append(Tail(s.runqueues[p]), Head(s.runqueues[p]))
<1>1. CASE s.runqueues[p] = << >>
  BY <1>1 DEF sched_runq_advance, SameButQueues
<1>2. CASE s.runqueues[p] # << >>
  <2>1. s.runqueues[p] \in Seq(Threads)
    BY SchedFields
  <2>2. /\ \A x \in Threads, q \in Prios :
               Occurs(s.runqueues[q], x) <=> on_runqueue(s, x) /\ s.priority[x] = q
        /\ \A q \in Prios : NoDup(s.runqueues[q])
        /\ s.bitcache = {q \in Prios : s.runqueues[q] # << >>}
    BY ExactRunqueues
  <2>3. /\ turned \in Seq(Threads)
        /\ turned # << >>
        /\ \A x : Occurs(turned, x) <=> Occurs(s.runqueues[p], x)
        /\ NoDup(turned)
    BY <1>2, <2>1, <2>2, RotateQueue
  <2>4. r = [s EXCEPT !.runqueues = [s.runqueues EXCEPT ![p] = turned]]
    BY <1>2 DEF sched_runq_advance
  <2> HIDE DEF turned
  <2>5. [s.runqueues EXCEPT ![p] = turned] \in [Prios -> Seq(Threads)]
    BY <2>3, SchedFields
  <2>6. /\ r \in SchedState
        /\ r.status = s.status
        /\ r.bitcache = s.bitcache
        /\ r.runqueues = [s.runqueues EXCEPT ![p] = turned]
        /\ SameButQueues(r, s)
    BY <2>4, <2>5 DEF SchedState, SameButQueues
  <2> HIDE DEF r
  <2>7. \A q \in Prios : r.runqueues[q] = IF q = p THEN turned ELSE s.runqueues[q]
    BY <2>6, SchedFields
  <2>8. \A x \in Threads : on_runqueue(r, x) <=> on_runqueue(s, x)
    BY <2>6 DEF on_runqueue
  <2>9. r.bitcache = {q \in Prios : r.runqueues[q] # << >>}
    BY <1>2, <2>2, <2>3, <2>6, <2>7
  <2>10. RunqueueExact(r)
    <3>1. r.priority = s.priority
      BY <2>6 DEF SameButQueues
    <3>2. \A x, q : q \in Prios => (Occurs(r.runqueues[q], x) <=> Occurs(s.runqueues[q], x))
      BY <2>3, <2>7
    <3>3. \A q \in Prios : NoDup(r.runqueues[q])
      BY <2>2, <2>3, <2>7
    <3> QED
      BY <2>2, <2>8, <2>9, <3>1, <3>2, <3>3, ExactRunqueues
  <2> QED
    BY <2>6, <2>10 DEF r
<1> QED
  BY <1>1, <1>2

\* sched_change_priority() of the head of a run queue that has the CPU moves
\* it to the queue of its new priority and pends the switch.
LEMMA ChangeOfHead ==
    ASSUME NEW s \in SchedState, RunqueueExact(s), NEW t \in Threads,
           NEW p \in Prios, on_runqueue(s, t), IsHead(s, t),
           s.active = t, s.priority[t] # p
    PROVE  LET r == sched_change_priority(s, t, p)
           IN  /\ r \in SchedState
               /\ RunqueueExact(r)
               /\ r.status = s.status
               /\ r.pendsv
               /\ r.active = s.active
               /\ r.idle = s.idle
               /\ r.call = s.call
<1> DEFINE m == runqueue_pop(s, t)
           n == runqueue_push(m, t, p)
           r == sched_change_priority(s, t, p)
<1>1. /\ m \in SchedState
      /\ m.status = s.status
      /\ SameButQueues(m, s)
      /\ \A x \in Threads, q \in Prios :
             Occurs(m.runqueues[q], x)
                 <=> x # t /\ on_runqueue(s, x) /\ s.priority[x] = q
      /\ \A q \in Prios : NoDup(m.runqueues[q])
      /\ m.bitcache = {q \in Prios : m.runqueues[q] # << >>}
  BY PopHead
<1> HIDE DEF m
<1>2. /\ n \in SchedState
      /\ n.status = m.status
      /\ n.runqueues = [m.runqueues EXCEPT ![p] = Append(m.runqueues[p], t)]
      /\ n.bitcache = m.bitcache \cup {p}
      /\ SameButQueues(n, m)
  BY <1>1, PushFields
<1>3. r = [[n EXCEPT !.priority = [n.priority EXCEPT ![t] = p]] EXCEPT !.pendsv = TRUE]
  <2>1. r = LET set == [n EXCEPT !.priority[t] = p]
                yield == \/ set.active = t
                         \/ /\ set.active # NoThread
                            /\ set.priority[set.active] > p
                            /\ on_runqueue(set, t)
            IN  IF yield THEN thread_yield_higher(set) ELSE set
    BY DEF sched_change_priority, m
  <2>2. n.active = t
    BY <1>1, <1>2 DEF SameButQueues
  <2> HIDE DEF n
  <2>3. [n EXCEPT !.priority[t] = p].active = t
    BY <1>2, <2>2 DEF SchedState
  <2> QED
    BY <2>1, <2>3 DEF thread_yield_higher
<1> HIDE DEF n
<1>4. [n.priority EXCEPT ![t] = p] \in [Threads -> Prios]
  BY <1>2, SchedFields
<1>5. /\ r \in SchedState
      /\ r.status = n.status
      /\ r.priority = [n.priority EXCEPT ![t] = p]
      /\ r.runqueues = n.runqueues
      /\ r.bitcache = n.bitcache
      /\ r.pendsv
      /\ r.active = n.active /\ r.idle = n.idle /\ r.call = n.call
  BY <1>2, <1>3, <1>4 DEF SchedState
<1> HIDE DEF r
<1>6. /\ m.runqueues \in [Prios -> Seq(Threads)]
      /\ m.runqueues[p] \in Seq(Threads)
  BY <1>1, SchedFields
<1> DEFINE longer == Append(m.runqueues[p], t)
<1>7. /\ longer # << >>
      /\ \A x : Occurs(longer, x) <=> Occurs(m.runqueues[p], x) \/ x = t
      /\ NoDup(longer)
  BY <1>1, <1>6, AppendQueue
<1>8. \A q \in Prios : r.runqueues[q] = IF q = p THEN longer ELSE m.runqueues[q]
  BY <1>2, <1>5, <1>6
<1> HIDE DEF longer
<1>9. \A x \in Threads : on_runqueue(r, x) <=> on_runqueue(s, x)
  BY <1>1, <1>2, <1>5 DEF on_runqueue
<1>10. \A x \in Threads : r.priority[x] = IF x = t THEN p ELSE s.priority[x]
  <2>1. n.priority = s.priority
    BY <1>1, <1>2 DEF SameButQueues
  <2> QED
    BY <1>5, <2>1, SchedFields
<1>11. ASSUME NEW x \in Threads, NEW q \in Prios
       PROVE  Occurs(r.runqueues[q], x) <=> on_runqueue(r, x) /\ r.priority[x] = q
  BY <1>1, <1>7, <1>8, <1>9, <1>10
<1>12. \A q \in Prios : NoDup(r.runqueues[q])
  BY <1>1, <1>7, <1>8
<1>13. r.bitcache = {q \in Prios : r.runqueues[q] # << >>}
  BY <1>1, <1>2, <1>5, <1>7, <1>8
<1>14. RunqueueExact(r)
  BY <1>11, <1>12, <1>13, ExactRunqueues
<1> QED
  BY <1>1, <1>2, <1>5, <1>14 DEF r, SameButQueues

-----------------------------------------------------------------------------
(* sched_run() *)

\* A set of naturals that is not empty has a least member.
LEMMA LeastMember ==
    ASSUME NEW S \in SUBSET Nat, S # {}
    PROVE  LET m == CHOOSE m \in S : \A n \in S : m <= n
           IN  m \in S /\ \A n \in S : m <= n
<1> DEFINE R == {nk \in Nat \X Nat : nk[1] < nk[2]}
<1>1. IsWellFoundedOn(R, Nat)
  BY NatLessThanWellFounded DEF OpToRel
<1>2. \A n, k \in Nat : <<n, k>> \in R <=> n < k
  OBVIOUS
<1> HIDE DEF R
<1>3. PICK m \in S : \A n \in S : ~(<<n, m>> \in R)
  BY <1>1, WFMin
<1>4. ASSUME NEW n \in S PROVE m <= n
  <2>1. n \in Nat /\ m \in Nat
    OBVIOUS
  <2>2. ~(n < m)
    BY <1>2, <1>3, <2>1
  <2> QED
    BY <2>1, <2>2
<1> QED
  BY <1>4

\* The thread sched_run() chooses is runnable and the head of its run queue.
LEMMA NextThread ==
    ASSUME NEW s \in SchedState, RunqueueExact(s), s.bitcache # {}
    PROVE  LET next == Head(s.runqueues[get_prio_queue_from_runqueue(s)])
           IN  /\ next \in Threads
               /\ on_runqueue(s, next)
               /\ IsHead(s, next)
               /\ \A q \in s.bitcache : s.priority[next] <= q
<1> DEFINE p == get_prio_queue_from_runqueue(s)
<1>1. s.bitcache \in SUBSET Nat
  BY SchedFields, SchedAssumption DEF Prios
<1>2. p \in s.bitcache /\ \A q \in s.bitcache : p <= q
  BY <1>1, LeastMember DEF get_prio_queue_from_runqueue
<1> QED
  BY <1>2, HeadOfQueue DEF IsHead

\* Once sched_run() has chosen, the chosen thread is active, RUNNING and the
\* head of its queue, and no run queue has changed.
LEMMA RunNext ==
    ASSUME NEW s \in SchedState, RunqueueExact(s), s.bitcache # {},
           NEW prev \in {s.active, NoThread}
    PROVE  LET r == sched_run_next(s, prev)
           IN  /\ r \in SchedState
               /\ RunqueueExact(r)
               /\ r.active \in Threads
               /\ r.status[r.active] = "RUNNING"
               /\ IsHead(r, r.active)
               /\ \A q \in r.bitcache : r.priority[r.active] <= q
               /\ \A x \in Threads : \/ r.status[x] = s.status[x]
                                     \/ on_runqueue(s, x) /\ on_runqueue(r, x)
               /\ r.priority = s.priority
               /\ r.idle = s.idle
               /\ r.pendsv = s.pendsv
               /\ r.call = s.call
<1> DEFINE next == Head(s.runqueues[get_prio_queue_from_runqueue(s)])
           run  == [s EXCEPT !.request = FALSE, !.status[next] = "RUNNING"]
           off  == IF s.active # next /\ prev # NoThread
                   THEN unschedule(run, prev) ELSE run
           r    == sched_run_next(s, prev)
<1>1. /\ next \in Threads
      /\ on_runqueue(s, next)
      /\ IsHead(s, next)
      /\ \A q \in s.bitcache : s.priority[next] <= q
  BY NextThread
<1>2. r = [off EXCEPT !.active = next]
  BY DEF sched_run_next
<1> HIDE DEF next
<1>3. "RUNNING" \in Status /\ "PENDING" \in Status
  BY DEF Status, OnRunqueue
<1>4. [s.status EXCEPT ![next] = "RUNNING"] \in [Threads -> Status]
  BY <1>1, <1>3, SchedFields
<1>5. /\ run \in SchedState
      /\ run.status = [s.status EXCEPT ![next] = "RUNNING"]
      /\ run.priority = s.priority
      /\ run.runqueues = s.runqueues
      /\ run.bitcache = s.bitcache
      /\ run.idle = s.idle /\ run.pendsv = s.pendsv /\ run.call = s.call
  BY <1>4 DEF SchedState
<1> HIDE DEF run
<1>6. /\ off \in SchedState
      /\ off.status[next] = "RUNNING"
      /\ \A x \in Threads : \/ off.status[x] = s.status[x]
                            \/ on_runqueue(s, x) /\ on_runqueue(off, x)
      /\ off.priority = s.priority
      /\ off.runqueues = s.runqueues
      /\ off.bitcache = s.bitcache
      /\ off.idle = s.idle /\ off.pendsv = s.pendsv /\ off.call = s.call
  <2>1. /\ run.status[next] = "RUNNING"
        /\ \A x \in Threads : \/ run.status[x] = s.status[x]
                              \/ on_runqueue(s, x) /\ on_runqueue(run, x)
    BY <1>1, <1>5, SchedFields DEF on_runqueue, OnRunqueue
  <2>2. CASE off = run
    BY <1>5, <2>1, <2>2
  <2>3. CASE /\ s.active # next /\ prev # NoThread
             /\ run.status[prev] = "RUNNING"
    <3>1. prev \in Threads /\ prev # next
      BY <2>3, SchedFields
    <3>2. off = [run EXCEPT !.status[prev] = "PENDING"]
      BY <2>3 DEF unschedule
    <3> HIDE DEF off
    <3>3. /\ off \in SchedState
          /\ off.status = [run.status EXCEPT ![prev] = "PENDING"]
          /\ off.runqueues = run.runqueues
          /\ off.bitcache = run.bitcache
          /\ SameButQueues(off, run)
      BY <1>3, <1>5, <3>1, <3>2, StatusFields
    <3>4. s.status[prev] = "RUNNING"
      <4>1. run.status[prev] = s.status[prev]
        BY <1>1, <1>5, <3>1, SchedFields
      <4> QED
        BY <2>3, <4>1
    <3>5. \A x \in Threads : off.status[x] = IF x = prev THEN "PENDING" ELSE run.status[x]
      BY <1>5, <3>1, <3>3, SchedFields
    <3>6. \A x \in Threads : \/ off.status[x] = s.status[x]
                             \/ on_runqueue(s, x) /\ on_runqueue(off, x)
      BY <2>1, <3>4, <3>5 DEF on_runqueue, OnRunqueue
    <3> QED
      BY <1>1, <1>5, <2>1, <3>1, <3>3, <3>5, <3>6 DEF SameButQueues
  <2> QED
    BY <2>2, <2>3 DEF unschedule
<1> HIDE DEF off
<1>7. /\ r \in SchedState
      /\ r.active = next
      /\ r.status = off.status
      /\ r.priority = s.priority
      /\ r.runqueues = s.runqueues
      /\ r.bitcache = s.bitcache
      /\ r.idle = s.idle /\ r.pendsv = s.pendsv /\ r.call = s.call
  BY <1>1, <1>2, <1>6 DEF SchedState
<1> HIDE DEF r
<1>8. \A x \in Threads : \/ r.status[x] = s.status[x]
                         \/ on_runqueue(s, x) /\ on_runqueue(r, x)
  BY <1>6, <1>7 DEF on_runqueue
<1>9. RunqueueExact(r)
  BY <1>7, <1>8, ExactOnly DEF on_runqueue
<1>10. /\ r.active \in Threads
       /\ r.status[r.active] = "RUNNING"
       /\ IsHead(r, r.active)
       /\ \A q \in r.bitcache : r.priority[r.active] <= q
  BY <1>1, <1>6, <1>7 DEF IsHead
<1> QED
  BY <1>7, <1>8, <1>9, <1>10 DEF r

-----------------------------------------------------------------------------
(* The steps that leave the run queues alone *)

\* The run queues and all they depend on are the same.
SameQueues(r, s) ==
    /\ r.status = s.status
    /\ r.priority = s.priority
    /\ r.runqueues = s.runqueues
    /\ r.bitcache = s.bitcache

\* Nothing but a request for a switch, or the pending of one, is new.
Quiet(r, s) ==
    /\ SameQueues(r, s)
    /\ r.active = s.active
    /\ r.idle = s.idle
    /\ r.call = s.call
    /\ s.pendsv => r.pendsv

\* The thread on the CPU may be popped from its run queue.
HeadRuns(s) ==
    \A t \in Threads :
        /\ s.active = t /\ ~s.pendsv /\ ~s.idle
        /\ s.call[t].op \in {"none", "switch", "switch_to"}
        => s.status[t] = "RUNNING" /\ IsHead(s, t)

\* Exactness and heads carry over.
LEMMA SameQueuesExact ==
    ASSUME NEW s, NEW r, SameQueues(r, s), RunqueueExact(s)
    PROVE  /\ RunqueueExact(r)
           /\ \A t \in Threads : IsHead(r, t) <=> IsHead(s, t)
<1>1. RunqueueExact(r)
  BY ExactOnly DEF SameQueues, on_runqueue
<1> QED
  BY <1>1 DEF SameQueues, IsHead

\* A quiet step keeps what is known of the running thread.
LEMMA QuietHeadRuns ==
    ASSUME NEW s, NEW r, Quiet(r, s), RunqueueExact(s), HeadRuns(s),
           r.pendsv \in BOOLEAN, s.pendsv \in BOOLEAN
    PROVE  HeadRuns(r)
<1>1. \A t \in Threads : IsHead(r, t) <=> IsHead(s, t)
  BY SameQueuesExact DEF Quiet
<1> QED
  BY <1>1 DEF HeadRuns, Quiet, SameQueues

\* Recording the call a thread has left.
LEMMA SetCall ==
    ASSUME NEW s \in SchedState, NEW t \in Threads, NEW c \in Calls
    PROVE  LET r == [s EXCEPT !.call[t] = c]
           IN  /\ r \in SchedState
               /\ SameQueues(r, s)
               /\ r.call = [s.call EXCEPT ![t] = c]
               /\ r.active = s.active
               /\ r.pendsv = s.pendsv
               /\ r.idle = s.idle
<1>1. [s.call EXCEPT ![t] = c] \in [Threads -> Calls]
  BY SchedFields
<1> QED
  BY <1>1 DEF SchedState, SameQueues

\* thread_yield_higher() pends PendSV.
LEMMA PendYield ==
    ASSUME NEW s \in SchedState
    PROVE  LET r == thread_yield_higher(s)
           IN  r \in SchedState /\ Quiet(r, s) /\ r.pendsv
  BY DEF SchedState, thread_yield_higher, Quiet, SameQueues

\* sched_switch() is quiet, in a thread and in a handler.
LEMMA SwitchQuiet ==
    ASSUME NEW s \in SchedState, NEW p
    PROVE  LET r == sched_switch(s, p) IN r \in SchedState /\ Quiet(r, s)
<1>1. CASE SwitchNeeded(s, p)
  BY <1>1, PendYield DEF sched_switch
<1>2. CASE ~SwitchNeeded(s, p)
  BY <1>2 DEF sched_switch, Quiet, SameQueues
<1> QED
  BY <1>1, <1>2

\* So is the end of a handler that has called sched_switch().
LEMMA IsrQuiet ==
    ASSUME NEW s \in SchedState, NEW p, NEW garbage \in BOOLEAN
    PROVE  LET r == cortexm_isr_end(sched_switch_isr(s, p, garbage))
           IN  r \in SchedState /\ Quiet(r, s)
<1> DEFINE m == sched_switch_isr(s, p, garbage)
           r == cortexm_isr_end(m)
<1>1. m \in SchedState /\ Quiet(m, s)
  <2>1. SwitchNeeded(s, p) \in BOOLEAN
    BY DEF SwitchNeeded
  <2> HIDE DEF SwitchNeeded
  <2> QED
    BY <2>1 DEF sched_switch_isr, SchedState, Quiet, SameQueues
<1> HIDE DEF m
<1>2. r \in SchedState /\ Quiet(r, s)
  <2>1. CASE m.request
    BY <1>1, <2>1, PendYield DEF cortexm_isr_end, Quiet, SameQueues
  <2>2. CASE ~m.request
    BY <1>1, <2>2 DEF cortexm_isr_end
  <2> QED
    BY <2>1, <2>2
<1> QED
  BY <1>2 DEF m

-----------------------------------------------------------------------------
(* Wait lists *)

\* r has the elements of a and then those of b.
Joined(S, r, a, b) ==
    /\ r \in Seq(S)
    /\ Len(r) = Len(a) + Len(b)
    /\ \A i \in 1 .. Len(a) : r[i] = a[i]
    /\ \A i \in Len(a) + 1 .. Len(a) + Len(b) : r[i] = b[i - Len(a)]

\* r has the elements of q from the m-th to the n-th.
Part(S, r, q, m, n) ==
    /\ r \in Seq(S)
    /\ Len(r) = n - m + 1
    /\ \A i \in 1 .. n - m + 1 : r[i] = q[m + i - 1]

\* r is list with t inserted at pos.
Inserted(S, r, list, pos, t) ==
    /\ r \in Seq(S)
    /\ DOMAIN r = 1 .. Len(list) + 1
    /\ \A i \in 1 .. pos - 1 : r[i] = list[i]
    /\ r[pos] = t
    /\ \A i \in pos + 1 .. Len(list) + 1 : r[i] = list[i - 1]

\* r is list without its element at pos.
Removed(S, r, list, pos) ==
    /\ r \in Seq(S)
    /\ DOMAIN r = 1 .. Len(list) - 1
    /\ \A i \in 1 .. pos - 1 : r[i] = list[i]
    /\ \A i \in pos .. Len(list) - 1 : r[i] = list[i + 1]

\* The elements of a concatenation.
LEMMA ConcatElements ==
    ASSUME NEW S, NEW a \in Seq(S), NEW b \in Seq(S)
    PROVE  Joined(S, a \o b, a, b)
  BY DEF Joined

\* The elements of a part of a list.
LEMMA SubSeqElements ==
    ASSUME NEW S, NEW q \in Seq(S), NEW m \in 1 .. Len(q) + 1,
           NEW n \in m - 1 .. Len(q)
    PROVE  Part(S, SubSeq(q, m, n), q, m, n)
  BY DEF Part

\* The elements of a list in which t has been inserted at pos.
LEMMA InsertElements ==
    ASSUME NEW S, NEW list \in Seq(S), NEW t \in S,
           NEW pos \in 1 .. Len(list) + 1, NEW a, NEW b, NEW c, NEW r,
           Part(S, a, list, 1, pos - 1), Part(S, b, list, pos, Len(list)),
           Joined(S, c, a, <<t>>), Joined(S, r, c, b)
    PROVE  Inserted(S, r, list, pos, t)
<1>1. Len(list) \in Nat
  OBVIOUS
<1>2. Len(a) = pos - 1 /\ \A i \in 1 .. pos - 1 : a[i] = list[i]
  BY <1>1 DEF Part
<1>3. /\ Len(b) = Len(list) - pos + 1
      /\ \A i \in 1 .. Len(list) - pos + 1 : b[i] = list[pos + i - 1]
  BY <1>1 DEF Part
<1>4. Len(c) = pos /\ (\A i \in 1 .. pos - 1 : c[i] = a[i]) /\ c[pos] = t
  BY <1>1, <1>2 DEF Joined
<1>5. /\ r \in Seq(S)
      /\ Len(r) = Len(list) + 1
      /\ \A i \in 1 .. pos : r[i] = c[i]
      /\ \A i \in pos + 1 .. Len(list) + 1 : r[i] = b[i - pos]
  <2>1. Len(c) + Len(b) = Len(list) + 1 /\ Len(c) + 1 = pos + 1
    BY <1>1, <1>3, <1>4
  <2>2. \A i \in Len(c) + 1 .. Len(c) + Len(b) : r[i] = b[i - Len(c)]
    BY DEF Joined
  <2>3. ASSUME NEW i \in pos + 1 .. Len(list) + 1 PROVE r[i] = b[i - pos]
    <3>1. i \in Len(c) + 1 .. Len(c) + Len(b) /\ i - Len(c) = i - pos
      BY <1>4, <2>1, <2>3
    <3> QED
      BY <2>2, <3>1
  <2> QED
    BY <1>4, <2>1, <2>3 DEF Joined
<1>6. DOMAIN r = 1 .. Len(list) + 1
  BY <1>5
<1>7. ASSUME NEW i \in pos + 1 .. Len(list) + 1 PROVE r[i] = list[i - 1]
  <2>1. i - pos \in 1 .. Len(list) - pos + 1 /\ pos + (i - pos) - 1 = i - 1
    BY <1>1, <1>7
  <2> QED
    BY <1>3, <1>5, <1>7, <2>1
<1>8. ASSUME NEW i \in 1 .. pos - 1 PROVE r[i] = list[i]
  <2>1. i \in 1 .. pos
    BY <1>1, <1>8
  <2> QED
    BY <1>2, <1>4, <1>5, <1>8, <2>1
<1>9. r[pos] = t
  <2>1. pos \in 1 .. pos
    BY <1>1
  <2> QED
    BY <1>4, <1>5, <2>1
<1> QED
  BY <1>5, <1>6, <1>7, <1>8, <1>9 DEF Inserted

\* The list after the insertion has the thread and nothing else more.
LEMMA InsertedList ==
    ASSUME NEW S, NEW list \in Seq(S), NEW t \in S,
           NEW pos \in 1 .. Len(list) + 1, NEW r, Inserted(S, r, list, pos, t)
    PROVE  /\ r \in Seq(S)
           /\ r # << >>
           /\ \A x : Occurs(r, x) <=> Occurs(list, x) \/ x = t
           /\ NoDup(list) /\ ~Occurs(list, t) => NoDup(r)
<1>1. Len(list) \in Nat /\ DOMAIN list = 1 .. Len(list)
  OBVIOUS
<1>2. /\ r \in Seq(S)
      /\ DOMAIN r = 1 .. Len(list) + 1
      /\ \A i \in 1 .. pos - 1 : r[i] = list[i]
      /\ r[pos] = t
      /\ \A i \in pos + 1 .. Len(list) + 1 : r[i] = list[i - 1]
  BY DEF Inserted
<1>3. pos \in DOMAIN r /\ r # << >>
  BY <1>1, <1>2
<1>4. ASSUME NEW i \in DOMAIN r, i # pos
      PROVE  \E k \in DOMAIN list : r[i] = list[k] /\ k = IF i < pos THEN i ELSE i - 1
  BY <1>1, <1>2, <1>4
<1>5. ASSUME NEW k \in DOMAIN list PROVE \E i \in DOMAIN r : r[i] = list[k]
  <2>1. CASE k < pos
    BY <1>1, <1>2, <2>1
  <2>2. CASE k >= pos
    <3>1. k + 1 \in pos + 1 .. Len(list) + 1 /\ (k + 1) - 1 = k /\ k + 1 \in DOMAIN r
      BY <1>1, <1>2, <2>2
    <3> QED
      BY <1>2, <3>1
  <2> QED
    BY <1>1, <2>1, <2>2
<1>6. ASSUME NEW x PROVE Occurs(r, x) <=> Occurs(list, x) \/ x = t
  <2>1. ASSUME Occurs(r, x) PROVE Occurs(list, x) \/ x = t
    <3>1. PICK i \in DOMAIN r : r[i] = x
      BY <2>1 DEF Occurs
    <3>2. CASE i = pos
      BY <1>2, <3>1, <3>2
    <3>3. CASE i # pos
      BY <1>4, <3>1, <3>3 DEF Occurs
    <3> QED
      BY <3>2, <3>3
  <2>2. ASSUME Occurs(list, x) PROVE Occurs(r, x)
    BY <1>5, <2>2 DEF Occurs
  <2>3. Occurs(r, t)
    BY <1>2, <1>3 DEF Occurs
  <2> QED
    BY <2>1, <2>2, <2>3
<1>7. ASSUME NoDup(list), ~Occurs(list, t) PROVE NoDup(r)
  <2> SUFFICES ASSUME NEW i \in DOMAIN r, NEW j \in DOMAIN r, r[i] = r[j]
               PROVE  i = j
    BY DEF NoDup
  <2>1. CASE i = pos \/ j = pos
    BY <1>2, <1>4, <1>7, <2>1 DEF Occurs
  <2>2. CASE i # pos /\ j # pos
    <3>1. PICK k \in DOMAIN list : r[i] = list[k] /\ k = IF i < pos THEN i ELSE i - 1
      BY <1>4, <2>2
    <3>2. PICK l \in DOMAIN list : r[j] = list[l] /\ l = IF j < pos THEN j ELSE j - 1
      BY <1>4, <2>2
    <3>3. k = l
      BY <1>7, <3>1, <3>2 DEF NoDup
    <3> QED
      BY <1>1, <1>2, <2>2, <3>1, <3>2, <3>3
  <2> QED
    BY <2>1, <2>2
<1> QED
  BY <1>2, <1>3, <1>6, <1>7

\* thread_add_to_list() inserts the thread before the first one of strictly
\* lower priority.
LEMMA AddToListAt ==
    ASSUME NEW s \in SchedState, NEW list \in Seq(Threads), NEW t \in Threads
    PROVE  \E pos \in 1 .. Len(list) + 1 :
               /\ Inserted(Threads, thread_add_to_list(s, list, t), list, pos, t)
               /\ \A i \in 1 .. pos - 1 : s.priority[list[i]] <= s.priority[t]
               /\ pos <= Len(list) => s.priority[list[pos]] > s.priority[t]
<1> DEFINE after == {i \in DOMAIN list : s.priority[list[i]] > s.priority[t]}
           p == IF after = {} THEN Len(list) + 1
                ELSE CHOOSE i \in after : \A j \in after : i <= j
<1>1. Len(list) \in Nat /\ DOMAIN list = 1 .. Len(list)
  OBVIOUS
<1>2. /\ p \in 1 .. Len(list) + 1
      /\ \A i \in 1 .. p - 1 : i \in DOMAIN list /\ i \notin after
      /\ p <= Len(list) => p \in after
  <2>1. CASE after = {}
    BY <1>1, <2>1
  <2>2. CASE after # {}
    <3>1. after \in SUBSET Nat
      BY <1>1
    <3>2. p \in after /\ \A j \in after : p <= j
      BY <2>2, <3>1, LeastMember
    <3> HIDE DEF after
    <3>3. after \subseteq 1 .. Len(list)
      BY <1>1 DEF after
    <3> HIDE DEF p
    <3> QED
      BY <1>1, <3>2, <3>3
  <2> QED
    BY <2>1, <2>2
<1>0. /\ \A i \in 1 .. p - 1 : s.priority[list[i]] <= s.priority[t]
      /\ p <= Len(list) => s.priority[list[p]] > s.priority[t]
  <2>1. \A x \in Threads : s.priority[x] \in Int
    BY SchedFields, SchedAssumption DEF Prios
  <2>2. \A i \in DOMAIN list : list[i] \in Threads
    OBVIOUS
  <2>3. \A i \in DOMAIN list : i \in after <=> s.priority[list[i]] > s.priority[t]
    OBVIOUS
  <2> HIDE DEF after, p
  <2> QED
    BY <1>1, <1>2, <2>1, <2>2, <2>3
<1>3. thread_add_to_list(s, list, t) =
          SubSeq(list, 1, p - 1) \o <<t>> \o SubSeq(list, p, Len(list))
  BY DEF thread_add_to_list
<1> HIDE DEF p, after
<1> DEFINE a == SubSeq(list, 1, p - 1)
           b == SubSeq(list, p, Len(list))
<1>4. /\ 1 \in 1 .. Len(list) + 1 /\ p - 1 \in 1 - 1 .. Len(list)
      /\ Len(list) \in p - 1 .. Len(list)
  BY <1>1, <1>2
<1>5. Part(Threads, a, list, 1, p - 1)
  BY <1>4, SubSeqElements
<1>6. Part(Threads, b, list, p, Len(list))
  BY <1>2, <1>4, SubSeqElements
<1>7. Joined(Threads, a \o <<t>>, a, <<t>>)
  <2>1. a \in Seq(Threads) /\ <<t>> \in Seq(Threads)
    BY <1>5 DEF Part
  <2> QED
    BY <2>1, ConcatElements
<1>8. Joined(Threads, a \o <<t>> \o b, a \o <<t>>, b)
  <2>1. a \o <<t>> \in Seq(Threads) /\ b \in Seq(Threads)
    BY <1>6, <1>7 DEF Part, Joined
  <2> QED
    BY <2>1, ConcatElements
<1> HIDE DEF a, b
<1>9. Inserted(Threads, a \o <<t>> \o b, list, p, t)
  BY <1>2, <1>5, <1>6, <1>7, <1>8, InsertElements
<1>10. thread_add_to_list(s, list, t) = a \o <<t>> \o b
  BY <1>3 DEF a, b
<1>11. Inserted(Threads, thread_add_to_list(s, list, t), list, p, t)
  BY <1>9, <1>10
<1> QED
  BY <1>0, <1>2, <1>11

\* It adds the thread and nothing else.
LEMMA AddToList ==
    ASSUME NEW s \in SchedState, NEW list \in Seq(Threads), NEW t \in Threads
    PROVE  LET r == thread_add_to_list(s, list, t)
           IN  /\ r \in Seq(Threads)
               /\ r # << >>
               /\ \A x : Occurs(r, x) <=> Occurs(list, x) \/ x = t
               /\ NoDup(list) /\ ~Occurs(list, t) => NoDup(r)
  BY AddToListAt, InsertedList


\* The elements of a list without the one at pos.
LEMMA RemoveElements ==
    ASSUME NEW S, NEW list \in Seq(S), NEW pos \in DOMAIN list,
           NEW a, NEW b, NEW r,
           Part(S, a, list, 1, pos - 1), Part(S, b, list, pos + 1, Len(list)),
           Joined(S, r, a, b)
    PROVE  Removed(S, r, list, pos)
<1>1. Len(list) \in Nat /\ pos \in 1 .. Len(list)
  OBVIOUS
<1>2. Len(a) = pos - 1 /\ \A i \in 1 .. pos - 1 : a[i] = list[i]
  BY <1>1 DEF Part
<1>3. /\ Len(b) = Len(list) - pos
      /\ \A i \in 1 .. Len(list) - pos : b[i] = list[pos + i]
  BY <1>1 DEF Part
<1>4. /\ r \in Seq(S)
      /\ Len(r) = Len(list) - 1
      /\ \A i \in 1 .. pos - 1 : r[i] = a[i]
      /\ \A i \in pos .. Len(list) - 1 : r[i] = b[i - (pos - 1)]
  <2>1. Len(a) + Len(b) = Len(list) - 1 /\ Len(a) + 1 = pos
    BY <1>1, <1>2, <1>3
  <2>2. \A i \in Len(a) + 1 .. Len(a) + Len(b) : r[i] = b[i - Len(a)]
    BY DEF Joined
  <2>3. ASSUME NEW i \in pos .. Len(list) - 1 PROVE r[i] = b[i - (pos - 1)]
    <3>1. i \in Len(a) + 1 .. Len(a) + Len(b) /\ i - Len(a) = i - (pos - 1)
      BY <1>2, <2>1, <2>3
    <3> QED
      BY <2>2, <3>1
  <2> QED
    BY <1>2, <2>1, <2>3 DEF Joined
<1>5. ASSUME NEW i \in pos .. Len(list) - 1 PROVE r[i] = list[i + 1]
  <2>1. i - (pos - 1) \in 1 .. Len(list) - pos /\ pos + (i - (pos - 1)) = i + 1
    BY <1>1, <1>5
  <2> QED
    BY <1>3, <1>4, <1>5, <2>1
<1>6. DOMAIN r = 1 .. Len(list) - 1
  BY <1>4
<1> QED
  BY <1>2, <1>4, <1>5, <1>6 DEF Removed

\* The list after the removal lacks that element and nothing else.
LEMMA RemovedList ==
    ASSUME NEW S, NEW list \in Seq(S), NEW pos \in DOMAIN list,
           NEW r, Removed(S, r, list, pos)
    PROVE  /\ r \in Seq(S)
           /\ \A x : x # list[pos] => (Occurs(r, x) <=> Occurs(list, x))
           /\ NoDup(list) => NoDup(r) /\ ~Occurs(r, list[pos])
<1>1. Len(list) \in Nat /\ DOMAIN list = 1 .. Len(list)
  OBVIOUS
<1>2. /\ r \in Seq(S)
      /\ DOMAIN r = 1 .. Len(list) - 1
      /\ \A i \in 1 .. pos - 1 : r[i] = list[i]
      /\ \A i \in pos .. Len(list) - 1 : r[i] = list[i + 1]
  BY DEF Removed
<1>3. ASSUME NEW i \in DOMAIN r
      PROVE  \E k \in DOMAIN list : /\ r[i] = list[k] /\ k # pos
                                    /\ k = IF i < pos THEN i ELSE i + 1
  <2>1. CASE i < pos
    <3>1. i \in 1 .. pos - 1 /\ i \in DOMAIN list /\ i # pos
      BY <1>1, <1>2, <2>1
    <3> QED
      BY <1>2, <2>1, <3>1
  <2>2. CASE ~(i < pos)
    <3>1. i \in pos .. Len(list) - 1 /\ i + 1 \in DOMAIN list /\ i + 1 # pos
      BY <1>1, <1>2, <2>2
    <3>2. r[i] = list[i + 1]
      BY <1>2, <3>1
    <3> QED
      BY <2>2, <3>1, <3>2
  <2> QED
    BY <2>1, <2>2
<1>4. ASSUME NEW k \in DOMAIN list, k # pos PROVE \E i \in DOMAIN r : r[i] = list[k]
  <2>1. CASE k < pos
    BY <1>1, <1>2, <2>1
  <2>2. CASE k > pos
    <3>1. k - 1 \in pos .. Len(list) - 1 /\ (k - 1) + 1 = k /\ k - 1 \in DOMAIN r
      BY <1>1, <1>2, <2>2
    <3> QED
      BY <1>2, <3>1
  <2> QED
    BY <1>1, <1>4, <2>1, <2>2
<1>5. ASSUME NEW x, x # list[pos] PROVE Occurs(r, x) <=> Occurs(list, x)
  BY <1>3, <1>4, <1>5 DEF Occurs
<1>6. NoDup(list) => ~Occurs(r, list[pos])
  BY <1>3 DEF Occurs, NoDup
<1>7. ASSUME NoDup(list) PROVE NoDup(r)
  <2> SUFFICES ASSUME NEW i \in DOMAIN r, NEW j \in DOMAIN r, r[i] = r[j]
               PROVE  i = j
    BY DEF NoDup
  <2>1. PICK k \in DOMAIN list : r[i] = list[k] /\ k = IF i < pos THEN i ELSE i + 1
    BY <1>3
  <2>2. PICK l \in DOMAIN list : r[j] = list[l] /\ l = IF j < pos THEN j ELSE j + 1
    BY <1>3
  <2>3. k = l
    BY <1>7, <2>1, <2>2 DEF NoDup
  <2> QED
    BY <1>1, <1>2, <2>1, <2>2, <2>3
<1> QED
  BY <1>2, <1>5, <1>6, <1>7

\* list_remove() takes one element off the list ...
LEMMA RemoveFromListAt ==
    ASSUME NEW S, NEW list \in Seq(S), NEW t, Occurs(list, t)
    PROVE  \E pos \in DOMAIN list :
               list[pos] = t /\ Removed(S, list_remove(list, t), list, pos)
<1> DEFINE p == CHOOSE i \in DOMAIN list : list[i] = t
           a == SubSeq(list, 1, p - 1)
           b == SubSeq(list, p + 1, Len(list))
<1>1. Len(list) \in Nat /\ DOMAIN list = 1 .. Len(list)
  OBVIOUS
<1>2. p \in DOMAIN list /\ list[p] = t
  BY DEF Occurs
<1>3. list_remove(list, t) = a \o b
  BY DEF list_remove
<1> HIDE DEF p
<1>4. /\ 1 \in 1 .. Len(list) + 1 /\ p - 1 \in 1 - 1 .. Len(list)
      /\ p + 1 \in 1 .. Len(list) + 1 /\ Len(list) \in (p + 1) - 1 .. Len(list)
  BY <1>1, <1>2
<1>5. Part(S, a, list, 1, p - 1) /\ Part(S, b, list, p + 1, Len(list))
  BY <1>4, SubSeqElements
<1> HIDE DEF a, b
<1>6. Joined(S, a \o b, a, b)
  BY <1>5, ConcatElements DEF Part
<1>7. Removed(S, a \o b, list, p)
  BY <1>2, <1>5, <1>6, RemoveElements
<1>8. Removed(S, list_remove(list, t), list, p)
  BY <1>3, <1>7
<1> QED
  BY <1>2, <1>8

\* ... and nothing else.
LEMMA RemoveFromList ==
    ASSUME NEW S, NEW list \in Seq(S), NEW t, Occurs(list, t)
    PROVE  LET r == list_remove(list, t)
           IN  /\ r \in Seq(S)
               /\ \A x : x # t => (Occurs(r, x) <=> Occurs(list, x))
               /\ NoDup(list) => NoDup(r) /\ ~Occurs(r, t)
<1>1. PICK pos \in DOMAIN list :
          list[pos] = t /\ Removed(S, list_remove(list, t), list, pos)
  BY RemoveFromListAt
<1> HIDE DEF list_remove
<1> QED
  BY <1>1, RemovedList

-----------------------------------------------------------------------------
(* The invariant of the scheduler *)

\* Calls of thread_yield_higher(), which is on its way to give up the CPU.
YieldOps == {"yield", "thread_yield"}

\* Calls of a thread that may go on afterwards.
SwitchOps == {"none", "switch", "switch_to"}

\* The calls that the operations leave; all but those of the messages.
ThreadCalls(s) ==
    \A t \in Threads : s.call[t].op \in YieldOps \cup SwitchOps

\* sched_run() of a kernel with an idle thread finds a thread.
IdleRunnable(s) == Idle # NoThread => on_runqueue(s, Idle)

\* The scheduler's part of the inductive invariant.
SchedInv(s) ==
    /\ s \in SchedState
    /\ RunqueueExact(s)
    /\ HeadRuns(s)
    /\ ThreadCalls(s)
    /\ IdleRunnable(s)

\* CallYield and the like are calls.
LEMMA CallTypes ==
    /\ NoCall \in Calls /\ NoCall.op = "none"
    /\ CallYield \in Calls /\ CallYield.op = "yield"
    /\ CallThreadYield \in Calls /\ CallThreadYield.op = "thread_yield"
    /\ \A p \in Prios : CallSwitch(p) \in Calls /\ CallSwitch(p).op = "switch"
    /\ \A u \in Threads : CallSwitchTo(u) \in Calls /\ CallSwitchTo(u).op = "switch_to"
<1>1. 0 \in Prios
  BY SchedAssumption DEF Prios
<1> QED
  BY <1>1 DEF Calls, Call, NoCall, CallYield, CallThreadYield, CallSwitch, CallSwitchTo

\* A quiet step keeps the scheduler's part.
LEMMA QuietInv ==
    ASSUME NEW s, SchedInv(s), NEW r \in SchedState, Quiet(r, s)
    PROVE  SchedInv(r) /\ r.status = s.status
<1>1. RunqueueExact(r)
  BY SameQueuesExact DEF SchedInv, Quiet
<1>2. HeadRuns(r)
  BY QuietHeadRuns, SchedFields DEF SchedInv
<1>3. ThreadCalls(r) /\ IdleRunnable(r) /\ r.status = s.status
  BY DEF SchedInv, ThreadCalls, IdleRunnable, Quiet, SameQueues, on_runqueue
<1> QED
  BY <1>1, <1>2, <1>3 DEF SchedInv

\* A thread that leaves a call behind: either it may still be popped, or
\* the call is thread_yield_higher().
LEMMA CallInv ==
    ASSUME NEW s \in SchedState, RunqueueExact(s), ThreadCalls(s), IdleRunnable(s),
           NEW t \in Threads, s.active = t, NEW c \in Calls,
           \/ c.op \in YieldOps
           \/ /\ c.op \in SwitchOps
              /\ s.status[t] = "RUNNING" /\ IsHead(s, t)
    PROVE  LET r == [s EXCEPT !.call[t] = c]
           IN  SchedInv(r) /\ r.status = s.status
<1> DEFINE r == [s EXCEPT !.call[t] = c]
<1>1. /\ r \in SchedState
      /\ SameQueues(r, s)
      /\ r.call = [s.call EXCEPT ![t] = c]
      /\ r.active = s.active
      /\ r.pendsv = s.pendsv
      /\ r.idle = s.idle
  BY SetCall
<1> HIDE DEF r
<1>2. \A x \in Threads : r.call[x] = IF x = t THEN c ELSE s.call[x]
  BY <1>1, SchedFields
<1>3. ThreadCalls(r)
  BY <1>2 DEF ThreadCalls
<1>4. RunqueueExact(r) /\ (IsHead(r, t) <=> IsHead(s, t))
  BY <1>1, SameQueuesExact
<1>5. r.status = s.status
  BY <1>1 DEF SameQueues
<1>6. HeadRuns(r)
  <2>1. ASSUME NEW x \in Threads, r.active = x, r.call[x].op \in SwitchOps
        PROVE  r.status[x] = "RUNNING" /\ IsHead(r, x)
    <3>1. x = t /\ r.call[x] = c
      BY <1>1, <1>2, <2>1
    <3> QED
      BY <1>4, <1>5, <2>1, <3>1 DEF YieldOps, SwitchOps
  <2> QED
    BY <2>1 DEF HeadRuns, SwitchOps
<1>7. IdleRunnable(r)
  BY <1>5 DEF IdleRunnable, on_runqueue
<1> QED
  BY <1>1, <1>3, <1>4, <1>5, <1>6, <1>7 DEF SchedInv, r

\* A thread that becomes runnable.
LEMMA PushInv ==
    ASSUME NEW s, SchedInv(s), NEW u \in Threads, NEW st \in OnRunqueue,
           ~on_runqueue(s, u)
    PROVE  LET r == sched_set_status(s, u, st)
           IN  /\ SchedInv(r)
               /\ r.status = [s.status EXCEPT ![u] = st]
               /\ SameButQueues(r, s)
               /\ \A x \in Threads : IsHead(s, x) => IsHead(r, x)
<1> DEFINE r == sched_set_status(s, u, st)
<1>1. /\ r \in SchedState
      /\ RunqueueExact(r)
      /\ r.status = [s.status EXCEPT ![u] = st]
      /\ SameButQueues(r, s)
      /\ \A x \in Threads : IsHead(s, x) => IsHead(r, x)
  BY PushStatus DEF SchedInv
<1> HIDE DEF r
<1>2. \A x \in Threads : r.status[x] = IF x = u THEN st ELSE s.status[x]
  BY <1>1, SchedFields DEF SchedInv
<1>3. ThreadCalls(r)
  BY <1>1 DEF SchedInv, ThreadCalls, SameButQueues
<1>4. IdleRunnable(r)
  BY <1>2, SchedAssumption DEF SchedInv, IdleRunnable, on_runqueue
<1>5. ASSUME NEW t \in Threads, r.active = t, ~r.pendsv, ~r.idle,
             r.call[t].op \in {"none", "switch", "switch_to"}
      PROVE  r.status[t] = "RUNNING" /\ IsHead(r, t)
  <2>1. s.status[t] = "RUNNING" /\ IsHead(s, t)
    BY <1>1, <1>5 DEF SchedInv, HeadRuns, SameButQueues
  <2>2. t # u
    BY <2>1 DEF on_runqueue, OnRunqueue
  <2> QED
    BY <1>1, <1>2, <2>1, <2>2
<1>6. HeadRuns(r)
  BY <1>5 DEF HeadRuns
<1> QED
  BY <1>1, <1>3, <1>4, <1>6 DEF SchedInv, r

\* A thread that is not runnable and stays so.
LEMMA KeepInv ==
    ASSUME NEW s, SchedInv(s), NEW u \in Threads, NEW st \in BlockedStatus,
           ~on_runqueue(s, u)
    PROVE  LET r == sched_set_status(s, u, st)
           IN  /\ SchedInv(r)
               /\ r.status = [s.status EXCEPT ![u] = st]
<1> DEFINE r == sched_set_status(s, u, st)
<1>1. st \in Status /\ st \notin OnRunqueue
  BY DEF Status, BlockedStatus, OnRunqueue
<1>2. /\ r \in SchedState
      /\ RunqueueExact(r)
      /\ r.status = [s.status EXCEPT ![u] = st]
      /\ SameButQueues(r, s)
      /\ \A x \in Threads : IsHead(s, x) => IsHead(r, x)
  BY <1>1, KeepStatus DEF SchedInv
<1> HIDE DEF r
<1>3. \A x \in Threads \ {u} : r.status[x] = s.status[x]
  BY <1>2, SchedFields DEF SchedInv
<1>4. ThreadCalls(r)
  BY <1>2 DEF SchedInv, ThreadCalls, SameButQueues
<1>5. IdleRunnable(r)
  BY <1>3, SchedAssumption DEF SchedInv, IdleRunnable, on_runqueue
<1>6. ASSUME NEW t \in Threads, r.active = t, ~r.pendsv, ~r.idle,
             r.call[t].op \in {"none", "switch", "switch_to"}
      PROVE  r.status[t] = "RUNNING" /\ IsHead(r, t)
  <2>1. s.status[t] = "RUNNING" /\ IsHead(s, t)
    BY <1>2, <1>6 DEF SchedInv, HeadRuns, SameButQueues
  <2>2. t # u
    BY <2>1 DEF on_runqueue, OnRunqueue
  <2> QED
    BY <1>2, <1>3, <2>1, <2>2
<1>7. HeadRuns(r)
  BY <1>6 DEF HeadRuns
<1> QED
  BY <1>2, <1>4, <1>5, <1>7 DEF SchedInv, r

\* The thread that executes is RUNNING and the head of its run queue.
LEMMA ExecutingHead ==
    ASSUME SchedInv(sched), NEW t \in Threads, Executing(t)
    PROVE  /\ sched.active = t /\ ~sched.pendsv /\ ~sched.idle
           /\ sched.status[t] = "RUNNING"
           /\ on_runqueue(sched, t)
           /\ IsHead(sched, t)
<1>1. /\ sched.active = t /\ ~sched.pendsv /\ ~sched.idle
      /\ sched.call[t].op = "none"
  BY CallTypes DEF Executing, OnCpu
<1>2. sched.status[t] = "RUNNING" /\ IsHead(sched, t)
  BY <1>1 DEF SchedInv, HeadRuns
<1> QED
  BY <1>1, <1>2 DEF on_runqueue, OnRunqueue

\* The thread at the head of a run queue is taken off it.
LEMMA BlockSelf ==
    ASSUME NEW s, SchedInv(s), NEW t \in Threads, t # Idle,
           on_runqueue(s, t), IsHead(s, t), NEW st \in BlockedStatus
    PROVE  LET r == sched_set_status(s, t, st)
           IN  /\ r \in SchedState /\ RunqueueExact(r)
               /\ ThreadCalls(r) /\ IdleRunnable(r)
               /\ r.status = [s.status EXCEPT ![t] = st]
               /\ SameButQueues(r, s)
<1> DEFINE r == sched_set_status(s, t, st)
<1>1. /\ r \in SchedState
      /\ RunqueueExact(r)
      /\ r.status = [s.status EXCEPT ![t] = st]
      /\ SameButQueues(r, s)
  BY PopStatus DEF SchedInv
<1> HIDE DEF r
<1>2. \A x \in Threads \ {t} : r.status[x] = s.status[x]
  BY <1>1, SchedFields DEF SchedInv
<1>3. ThreadCalls(r)
  BY <1>1 DEF SchedInv, ThreadCalls, SameButQueues
<1>4. IdleRunnable(r)
  BY <1>2, SchedAssumption DEF SchedInv, IdleRunnable, on_runqueue
<1> QED
  BY <1>1, <1>3, <1>4 DEF r

\* The active thread blocks, and goes on to give up the CPU.
LEMMA BlockCall ==
    ASSUME NEW s, SchedInv(s), NEW t \in Threads, s.active = t, t # Idle,
           on_runqueue(s, t), IsHead(s, t), NEW st \in BlockedStatus,
           NEW c \in Calls, c.op \in YieldOps
    PROVE  LET r == [sched_set_status(s, t, st) EXCEPT !.call[t] = c]
           IN  SchedInv(r) /\ r.status = [s.status EXCEPT ![t] = st]
<1> DEFINE m == sched_set_status(s, t, st)
           r == [m EXCEPT !.call[t] = c]
<1>1. /\ m \in SchedState /\ RunqueueExact(m)
      /\ ThreadCalls(m) /\ IdleRunnable(m)
      /\ m.status = [s.status EXCEPT ![t] = st]
      /\ SameButQueues(m, s)
  BY BlockSelf
<1> HIDE DEF m
<1>2. m.active = t
  BY <1>1 DEF SameButQueues
<1>3. SchedInv(r) /\ r.status = m.status
  BY <1>1, <1>2, CallInv
<1> QED
  BY <1>1, <1>3 DEF m

\* The active thread blocks, and goes on to call thread_yield_higher().
LEMMA BlockYield ==
    ASSUME NEW s, SchedInv(s), NEW t \in Threads, s.active = t, t # Idle,
           on_runqueue(s, t), IsHead(s, t), NEW st \in BlockedStatus
    PROVE  LET r == [sched_set_status(s, t, st) EXCEPT !.call[t] = CallYield]
           IN  SchedInv(r) /\ r.status = [s.status EXCEPT ![t] = st]
<1>1. CallYield \in Calls /\ CallYield.op \in YieldOps
  BY CallTypes DEF YieldOps
<1> QED
  BY <1>1, BlockCall

\* A thread wakes another one, and has a call left.
LEMMA WakeAndCall ==
    ASSUME NEW s, SchedInv(s), NEW t \in Threads, s.active = t,
           s.status[t] = "RUNNING", IsHead(s, t),
           NEW u \in Threads, ~on_runqueue(s, u), NEW st \in OnRunqueue,
           NEW c \in Calls, c.op \in YieldOps \cup SwitchOps
    PROVE  LET r == [sched_set_status(s, u, st) EXCEPT !.call[t] = c]
           IN  SchedInv(r) /\ r.status = [s.status EXCEPT ![u] = st]
<1> DEFINE m == sched_set_status(s, u, st)
           r == [m EXCEPT !.call[t] = c]
<1>1. /\ SchedInv(m)
      /\ m.status = [s.status EXCEPT ![u] = st]
      /\ SameButQueues(m, s)
      /\ \A x \in Threads : IsHead(s, x) => IsHead(m, x)
  BY PushInv
<1> HIDE DEF m
<1>2. t # u
  BY DEF on_runqueue, OnRunqueue
<1>3. m.active = t /\ m.status[t] = "RUNNING" /\ IsHead(m, t)
  BY <1>1, <1>2, SchedFields DEF SameButQueues, SchedInv
<1>4. m \in SchedState /\ RunqueueExact(m) /\ ThreadCalls(m) /\ IdleRunnable(m)
  BY <1>1 DEF SchedInv
<1>5. SchedInv(r) /\ r.status = m.status
  BY <1>3, <1>4, CallInv
<1> QED
  BY <1>1, <1>5 DEF m

\* The end of a handler.
LEMMA IsrEndInv ==
    ASSUME NEW s, SchedInv(s), NEW p, NEW garbage \in BOOLEAN
    PROVE  LET r == cortexm_isr_end(sched_switch_isr(s, p, garbage))
           IN  SchedInv(r) /\ r.status = s.status
<1> DEFINE r == cortexm_isr_end(sched_switch_isr(s, p, garbage))
<1>1. r \in SchedState /\ Quiet(r, s)
  BY IsrQuiet DEF SchedInv
<1> HIDE DEF r
<1>2. SchedInv(r) /\ r.status = s.status
  BY <1>1, QuietInv
<1> QED
  BY <1>2 DEF r

\* sched_task_exit().
LEMMA ExitInv ==
    ASSUME SchedInv(sched), NEW t \in Threads, Executing(t), t # Idle,
           sched' = task_exit(sched, t)
    PROVE  SchedInv(sched') /\ sched'.status = [sched.status EXCEPT ![t] = "STOPPED"]
<1> DEFINE m == sched_set_status(sched, t, "STOPPED")
           n == [m EXCEPT !.active = NoThread]
<1>1. /\ m \in SchedState /\ RunqueueExact(m)
      /\ ThreadCalls(m) /\ IdleRunnable(m)
      /\ m.status = [sched.status EXCEPT ![t] = "STOPPED"]
  <2>1. on_runqueue(sched, t) /\ IsHead(sched, t) /\ "STOPPED" \in BlockedStatus
    BY ExecutingHead DEF BlockedStatus
  <2> QED
    BY <2>1, BlockSelf
<1>2. sched' = thread_yield_higher(n)
  BY DEF task_exit
<1> HIDE DEF m
<1>3. n \in SchedState /\ SameQueues(n, m) /\ n.call = m.call /\ n.active = NoThread
  BY <1>1 DEF SchedState, SameQueues
<1> HIDE DEF n
<1>4. sched' \in SchedState /\ Quiet(sched', n)
  BY <1>2, <1>3, PendYield
<1>5. SameQueues(sched', m) /\ sched'.call = m.call /\ sched'.active = NoThread
  BY <1>3, <1>4 DEF Quiet, SameQueues
<1>6. RunqueueExact(sched')
  BY <1>1, <1>5, SameQueuesExact
<1>7. HeadRuns(sched')
  BY <1>5, SchedAssumption DEF HeadRuns
<1>8. /\ ThreadCalls(sched') /\ IdleRunnable(sched')
      /\ sched'.status = [sched.status EXCEPT ![t] = "STOPPED"]
  BY <1>1, <1>5 DEF ThreadCalls, IdleRunnable, SameQueues, on_runqueue
<1> QED
  BY <1>4, <1>6, <1>7, <1>8 DEF SchedInv

\* thread_yield().
LEMMA YieldInv ==
    ASSUME SchedInv(sched), NEW t \in Threads, Executing(t),
           sched' = yield_section(sched, t)
    PROVE  SchedInv(sched') /\ sched'.status = sched.status
<1> DEFINE m == sched_runq_advance(sched, sched.priority[t])
<1>1. on_runqueue(sched, t) /\ sched.active = t
  BY ExecutingHead
<1>2. sched \in SchedState /\ RunqueueExact(sched) /\ sched.priority[t] \in Prios
  BY SchedFields DEF SchedInv
<1>3. /\ m \in SchedState
      /\ RunqueueExact(m)
      /\ m.status = sched.status
      /\ SameButQueues(m, sched)
  BY <1>2, Advance
<1>4. sched' = [m EXCEPT !.call[t] = CallYield]
  BY <1>1 DEF yield_section
<1> HIDE DEF m
<1>5. m.active = t /\ ThreadCalls(m) /\ IdleRunnable(m)
  BY <1>1, <1>3 DEF SchedInv, ThreadCalls, IdleRunnable, SameButQueues, on_runqueue
<1> QED
  BY <1>3, <1>4, <1>5, CallTypes, CallInv DEF YieldOps

\* sched_change_priority() of the executing thread itself.
LEMMA ChangeInv ==
    ASSUME SchedInv(sched), NEW t \in Threads, Executing(t), NEW p \in Prios,
           sched' = sched_change_priority(sched, t, p)
    PROVE  SchedInv(sched') /\ sched'.status = sched.status
<1>1. CASE sched.priority[t] = p
  BY <1>1 DEF sched_change_priority
<1>2. CASE sched.priority[t] # p
  <2>1. on_runqueue(sched, t) /\ sched.active = t /\ IsHead(sched, t)
    BY ExecutingHead
  <2>2. /\ sched' \in SchedState
        /\ RunqueueExact(sched')
        /\ sched'.status = sched.status
        /\ sched'.pendsv
        /\ sched'.call = sched.call
    BY <1>2, <2>1, ChangeOfHead DEF SchedInv
  <2>3. HeadRuns(sched')
    BY <2>2 DEF HeadRuns
  <2> QED
    BY <2>2, <2>3 DEF SchedInv, ThreadCalls, IdleRunnable, on_runqueue
<1> QED
  BY <1>1, <1>2

\* A thread makes the call it has left.
LEMMA SchedCallInv ==
    ASSUME SchedInv(sched), NEW t \in Threads, SchedCall(t)
    PROVE  SchedInv(sched') /\ sched'.status = sched.status
<1> DEFINE s == [sched EXCEPT !.call[t] = NoCall]
<1>1. /\ sched.active = t /\ ~sched.pendsv /\ ~sched.idle
      /\ \/ /\ sched.call[t].op = "yield"
            /\ sched' = thread_yield_higher(s)
         \/ /\ sched.call[t].op \in {"switch", "switch_to"}
            /\ \E p : sched' = sched_switch(s, p)
         \/ /\ sched.call[t].op = "thread_yield"
            /\ sched' = yield_section(s, t)
  BY DEF SchedCall, OnCpu, SchedInv, ThreadCalls, YieldOps, SwitchOps
<1>2. /\ s \in SchedState
      /\ SameQueues(s, sched)
      /\ s.call = [sched.call EXCEPT ![t] = NoCall]
      /\ s.active = sched.active
  BY SetCall, CallTypes DEF SchedInv
<1>3. CASE sched.call[t].op = "yield"
  <2>1. sched' = thread_yield_higher(s)
    BY <1>1, <1>3
  <2> HIDE DEF s
  <2>2. sched' \in SchedState /\ Quiet(sched', s) /\ sched'.pendsv
    BY <1>2, <2>1, PendYield
  <2>3. SameQueues(sched', sched) /\ sched'.call = [sched.call EXCEPT ![t] = NoCall]
    BY <1>2, <2>2 DEF Quiet, SameQueues
  <2>4. RunqueueExact(sched')
    BY <2>3, SameQueuesExact DEF SchedInv
  <2>5. HeadRuns(sched')
    BY <2>2 DEF HeadRuns
  <2>6. ThreadCalls(sched')
    BY <2>3, CallTypes, SchedFields DEF SchedInv, ThreadCalls, SwitchOps
  <2>7. IdleRunnable(sched') /\ sched'.status = sched.status
    BY <2>3 DEF SchedInv, IdleRunnable, SameQueues, on_runqueue
  <2> QED
    BY <2>2, <2>4, <2>5, <2>6, <2>7 DEF SchedInv
<1>4. CASE sched.call[t].op \in {"switch", "switch_to"}
  <2>1. PICK p : sched' = sched_switch(s, p)
    BY <1>1, <1>4
  <2>2. sched.status[t] = "RUNNING" /\ IsHead(sched, t)
    BY <1>1, <1>4 DEF SchedInv, HeadRuns
  <2>3. SchedInv(s) /\ s.status = sched.status
    BY <1>1, <2>2, CallInv, CallTypes DEF SchedInv, SwitchOps
  <2> HIDE DEF s
  <2>4. sched' \in SchedState /\ Quiet(sched', s)
    BY <1>2, <2>1, SwitchQuiet
  <2> QED
    BY <2>3, <2>4, QuietInv
<1>5. CASE sched.call[t].op = "thread_yield"
  <2> DEFINE m == IF on_runqueue(s, t) THEN sched_runq_advance(s, s.priority[t]) ELSE s
  <2>1. sched' = [m EXCEPT !.call[t] = CallYield]
    BY <1>1, <1>5 DEF yield_section
  <2> HIDE DEF s
  <2>2. RunqueueExact(s) /\ s.priority[t] \in Prios
    BY <1>2, SameQueuesExact, SchedFields DEF SchedInv
  <2>3. /\ m \in SchedState
        /\ RunqueueExact(m)
        /\ m.status = s.status
        /\ SameButQueues(m, s)
    BY <1>2, <2>2, Advance DEF SameButQueues
  <2> HIDE DEF m
  <2>4. m.active = t /\ m.status = sched.status
    BY <1>1, <1>2, <2>3 DEF SameButQueues, SameQueues
  <2>5. m.call = [sched.call EXCEPT ![t] = NoCall]
    BY <1>2, <2>3 DEF SameButQueues
  <2>6. ThreadCalls(m)
    BY <2>5, CallTypes, SchedFields DEF SchedInv, ThreadCalls, SwitchOps
  <2>7. IdleRunnable(m)
    BY <2>4 DEF SchedInv, IdleRunnable, on_runqueue
  <2> QED
    BY <2>1, <2>3, <2>4, <2>6, <2>7, CallTypes, CallInv DEF YieldOps
<1> QED
  BY <1>1, <1>3, <1>4, <1>5

\* Leaving PendSV or the idle loop with a new thread.
LEMMA RunNextInv ==
    ASSUME NEW s \in SchedState, RunqueueExact(s), ThreadCalls(s), IdleRunnable(s),
           s.bitcache # {}, NEW prev \in {s.active, NoThread}
    PROVE  LET r == sched_run_next(s, prev)
           IN  /\ SchedInv(r)
               /\ \A x \in Threads : \/ r.status[x] = s.status[x]
                                     \/ on_runqueue(s, x) /\ on_runqueue(r, x)
<1> DEFINE r == sched_run_next(s, prev)
<1>1. /\ r \in SchedState
      /\ RunqueueExact(r)
      /\ r.active \in Threads
      /\ r.status[r.active] = "RUNNING"
      /\ IsHead(r, r.active)
      /\ \A x \in Threads : \/ r.status[x] = s.status[x]
                            \/ on_runqueue(s, x) /\ on_runqueue(r, x)
      /\ r.call = s.call
  BY RunNext
<1> HIDE DEF r
<1>2. HeadRuns(r)
  BY <1>1 DEF HeadRuns
<1>3. ThreadCalls(r) /\ IdleRunnable(r)
  BY <1>1, SchedAssumption DEF ThreadCalls, IdleRunnable, on_runqueue
<1> QED
  BY <1>1, <1>2, <1>3 DEF SchedInv, r

\* PendSV.
LEMMA PendSVInv ==
    ASSUME SchedInv(sched), PendSV
    PROVE  /\ SchedInv(sched')
           /\ \A x \in Threads : \/ sched'.status[x] = sched.status[x]
                                 \/ on_runqueue(sched, x) /\ on_runqueue(sched', x)
<1> DEFINE s == [sched EXCEPT !.pendsv = FALSE]
<1>1. sched' = sched_run(s)
  BY DEF PendSV
<1>2. /\ s \in SchedState
      /\ SameQueues(s, sched)
      /\ s.active = sched.active
      /\ s.call = sched.call
  BY DEF SchedInv, SchedState, SameQueues
<1> HIDE DEF s
<1>3. RunqueueExact(s)
  BY <1>2, SameQueuesExact DEF SchedInv
<1>4. ThreadCalls(s) /\ IdleRunnable(s) /\ s.status = sched.status
  BY <1>2 DEF SchedInv, ThreadCalls, IdleRunnable, SameQueues, on_runqueue
<1>5. CASE s.bitcache = {}
  <2>1. Idle = NoThread /\ \A x \in Threads : ~on_runqueue(s, x)
    BY <1>2, <1>3, <1>4, <1>5, OnItsQueue, SchedAssumption DEF IdleRunnable
  <2>2. s.active # NoThread => s.status[s.active] # "RUNNING"
    BY <1>2, <2>1, SchedFields DEF on_runqueue, OnRunqueue
  <2>3. sched' = [s EXCEPT !.idle = TRUE]
    BY <1>1, <1>5, <2>1, <2>2 DEF sched_run, unschedule
  <2>4. /\ sched' \in SchedState
        /\ SameQueues(sched', s)
        /\ sched'.idle
        /\ sched'.call = s.call
    BY <1>2, <2>3 DEF SchedState, SameQueues
  <2>5. RunqueueExact(sched')
    BY <1>3, <2>4, SameQueuesExact
  <2>6. HeadRuns(sched')
    BY <2>4 DEF HeadRuns
  <2>7. /\ ThreadCalls(sched') /\ IdleRunnable(sched')
        /\ sched'.status = sched.status
    BY <1>4, <2>4 DEF ThreadCalls, IdleRunnable, SameQueues, on_runqueue
  <2> QED
    BY <2>4, <2>5, <2>6, <2>7 DEF SchedInv
<1>6. CASE s.bitcache # {}
  <2>1. sched' = sched_run_next(s, s.active)
    BY <1>1, <1>6 DEF sched_run
  <2>2. /\ SchedInv(sched')
        /\ \A x \in Threads : \/ sched'.status[x] = s.status[x]
                              \/ on_runqueue(s, x) /\ on_runqueue(sched', x)
    BY <1>2, <1>3, <1>4, <1>6, <2>1, RunNextInv
  <2> QED
    BY <1>4, <2>2 DEF on_runqueue
<1> QED
  BY <1>5, <1>6

\* The end of the idle loop.
LEMMA IdleWakeInv ==
    ASSUME SchedInv(sched), IdleWake
    PROVE  /\ SchedInv(sched')
           /\ \A x \in Threads : \/ sched'.status[x] = sched.status[x]
                                 \/ on_runqueue(sched, x) /\ on_runqueue(sched', x)
<1> DEFINE s == [sched EXCEPT !.idle = FALSE]
<1>1. sched' = sched_run_next(s, NoThread) /\ sched.bitcache # {}
  BY DEF IdleWake
<1>2. /\ s \in SchedState
      /\ SameQueues(s, sched)
      /\ s.call = sched.call
  BY DEF SchedInv, SchedState, SameQueues
<1> HIDE DEF s
<1>3. RunqueueExact(s)
  BY <1>2, SameQueuesExact DEF SchedInv
<1>4. /\ ThreadCalls(s) /\ IdleRunnable(s) /\ s.status = sched.status
      /\ s.bitcache # {}
  BY <1>1, <1>2 DEF SchedInv, ThreadCalls, IdleRunnable, SameQueues, on_runqueue
<1>5. /\ SchedInv(sched')
      /\ \A x \in Threads : \/ sched'.status[x] = s.status[x]
                            \/ on_runqueue(s, x) /\ on_runqueue(sched', x)
  BY <1>1, <1>2, <1>3, <1>4, RunNextInv
<1> QED
  BY <1>4, <1>5 DEF on_runqueue

\* Blocking, waking and stopping a thread, with the yield that follows, and
\* thread_yield() change no priority.
LEMMA StatusPriority ==
    ASSUME NEW s \in SchedState, NEW u \in Threads, NEW st \in Status,
           NEW t \in Threads, NEW c \in Calls
    PROVE  [sched_set_status(s, u, st) EXCEPT !.call[t] = c].priority = s.priority
<1> DEFINE r == sched_set_status(s, u, st)
<1>1. r \in SchedState /\ r.priority = s.priority
  BY SetStatusOnly DEF SameButQueues
<1> HIDE DEF r
<1>2. [r EXCEPT !.call[t] = c].priority = r.priority
  BY <1>1, SetCall DEF SameQueues
<1> QED
  BY <1>1, <1>2 DEF r

LEMMA IsrPriority ==
    ASSUME NEW s \in SchedState, NEW u \in Threads, NEW st \in Status, NEW p,
           NEW garbage \in BOOLEAN
    PROVE  cortexm_isr_end(sched_switch_isr(sched_set_status(s, u, st), p, garbage)).priority
               = s.priority
<1> DEFINE r == sched_set_status(s, u, st)
<1>1. r \in SchedState /\ r.priority = s.priority
  BY SetStatusOnly DEF SameButQueues
<1> HIDE DEF r
<1>2. cortexm_isr_end(sched_switch_isr(r, p, garbage)).priority = r.priority
  BY <1>1, IsrQuiet DEF Quiet, SameQueues
<1> QED
  BY <1>1, <1>2 DEF r

LEMMA ExitPriority ==
    ASSUME NEW s \in SchedState, NEW t \in Threads
    PROVE  task_exit(s, t).priority = s.priority
<1> DEFINE m == sched_set_status(s, t, "STOPPED")
           n == [m EXCEPT !.active = NoThread]
<1>0. "STOPPED" \in Status
  BY DEF Status, BlockedStatus
<1>1. m \in SchedState /\ m.priority = s.priority
  BY <1>0, SetStatusOnly DEF SameButQueues
<1> HIDE DEF m
<1>2. n \in SchedState /\ n.priority = m.priority
  BY <1>1 DEF SchedState
<1> HIDE DEF n
<1>3. thread_yield_higher(n).priority = n.priority
  BY <1>2, PendYield DEF Quiet, SameQueues
<1> QED
  BY <1>1, <1>2, <1>3 DEF task_exit, m, n

LEMMA YieldPriority ==
    ASSUME NEW s \in SchedState, RunqueueExact(s), NEW t \in Threads
    PROVE  yield_section(s, t).priority = s.priority
<1> DEFINE m == IF on_runqueue(s, t) THEN sched_runq_advance(s, s.priority[t]) ELSE s
<1>1. m \in SchedState /\ m.priority = s.priority
  BY Advance, SchedFields DEF SameButQueues
<1>2. yield_section(s, t) = [m EXCEPT !.call[t] = CallYield]
  BY DEF yield_section
<1> HIDE DEF m
<1> QED
  BY <1>1, <1>2, SetCall, CallTypes DEF SameQueues

\* Nor do the kernel's own steps.
LEMMA KernelPriority ==
    ASSUME SchedInv(sched), KernelStep
    PROVE  sched'.priority = sched.priority
<1>1. sched \in SchedState /\ RunqueueExact(sched)
  BY DEF SchedInv
<1>2. ASSUME NEW t \in Threads, SchedCall(t) PROVE sched'.priority = sched.priority
  <2> DEFINE s == [sched EXCEPT !.call[t] = NoCall]
  <2>1. s \in SchedState /\ SameQueues(s, sched)
    BY <1>1, SetCall, CallTypes
  <2>2. RunqueueExact(s) /\ s.priority[t] \in Prios /\ s.priority = sched.priority
    BY <1>1, <2>1, SameQueuesExact, SchedFields DEF SameQueues
  <2>3. \/ sched' = thread_yield_higher(s)
        \/ \E p : sched' = sched_switch(s, p)
        \/ sched' = s
        \/ sched' = yield_section(s, t)
    BY <1>2 DEF SchedCall
  <2> HIDE DEF s
  <2>4. CASE sched' = thread_yield_higher(s) \/ (\E p : sched' = sched_switch(s, p))
    BY <2>1, <2>2, <2>4, PendYield, SwitchQuiet DEF Quiet, SameQueues
  <2>5. CASE sched' = yield_section(s, t)
    BY <2>1, <2>2, <2>5, YieldPriority
  <2> QED
    BY <2>2, <2>3, <2>4, <2>5
<1>3. CASE PendSV
  <2> DEFINE s == [sched EXCEPT !.pendsv = FALSE]
  <2>1. sched' = sched_run(s)
    BY <1>3 DEF PendSV
  <2>2. s \in SchedState /\ SameQueues(s, sched) /\ s.active = sched.active
    BY <1>1 DEF SchedState, SameQueues
  <2> HIDE DEF s
  <2>3. RunqueueExact(s) /\ s.priority = sched.priority
    BY <1>1, <2>2, SameQueuesExact DEF SameQueues
  <2>4. CASE s.bitcache # {}
    <3>1. sched' = sched_run_next(s, s.active)
      BY <2>1, <2>4 DEF sched_run
    <3> QED
      BY <2>2, <2>3, <2>4, <3>1, RunNext
  <2>5. CASE s.bitcache = {}
    <3>1. Idle = NoThread
      BY <1>1, <2>2, <2>3, <2>5, OnItsQueue, SchedAssumption
         DEF SchedInv, IdleRunnable, SameQueues, on_runqueue
    <3> DEFINE m == IF s.active # NoThread THEN unschedule(s, s.active) ELSE s
    <3>2. sched' = [m EXCEPT !.idle = TRUE]
      BY <2>1, <2>5, <3>1 DEF sched_run
    <3>3. m \in SchedState /\ m.priority = s.priority
      <4>1. CASE m = s
        BY <2>2, <4>1
      <4>2. CASE m # s
        <5>1. s.active \in Threads /\ "PENDING" \in Status
          BY <2>2, <4>2, SchedFields DEF Status, OnRunqueue
        <5>2. m = [s EXCEPT !.status[s.active] = "PENDING"]
          BY <4>2 DEF unschedule
        <5> HIDE DEF m
        <5> QED
          BY <2>2, <5>1, <5>2, StatusFields DEF SameButQueues
      <4> QED
        BY <4>1, <4>2
    <3> HIDE DEF m
    <3> QED
      BY <2>3, <3>2, <3>3 DEF SchedState
  <2> QED
    BY <2>4, <2>5
<1>4. CASE IdleWake
  <2> DEFINE s == [sched EXCEPT !.idle = FALSE]
  <2>1. sched' = sched_run_next(s, NoThread) /\ sched.bitcache # {}
    BY <1>4 DEF IdleWake
  <2>2. s \in SchedState /\ SameQueues(s, sched)
    BY <1>1 DEF SchedState, SameQueues
  <2> HIDE DEF s
  <2>3. RunqueueExact(s) /\ s.priority = sched.priority /\ s.bitcache # {}
    BY <1>1, <2>1, <2>2, SameQueuesExact DEF SameQueues
  <2> QED
    BY <2>1, <2>2, <2>3, RunNext
<1> QED
  BY <1>2, <1>3, <1>4 DEF KernelStep

\* The threads have been created, and sched_run() has chosen the first one.
LEMMA BootInv ==
    ASSUME Threads # {}, NEW pr \in [Threads -> Prios],
           NEW rq \in [Prios -> Seq(Threads)],
           \A t \in Threads, p \in Prios : Occurs(rq[p], t) <=> pr[t] = p,
           \A p \in Prios : NoDup(rq[p])
    PROVE  LET r == sched_run_next(
                        [status |-> [t \in Threads |-> "PENDING"],
                         priority |-> pr,
                         runqueues |-> rq,
                         bitcache |-> {p \in Prios : rq[p] # << >>},
                         active |-> NoThread,
                         request |-> FALSE, pendsv |-> FALSE, idle |-> FALSE,
                         call |-> [t \in Threads |-> NoCall],
                         fault |-> FALSE],
                        NoThread)
           IN  SchedInv(r) /\ \A x \in Threads : on_runqueue(r, x)
<1> DEFINE s == [status |-> [t \in Threads |-> "PENDING"],
                 priority |-> pr,
                 runqueues |-> rq,
                 bitcache |-> {p \in Prios : rq[p] # << >>},
                 active |-> NoThread,
                 request |-> FALSE, pendsv |-> FALSE, idle |-> FALSE,
                 call |-> [t \in Threads |-> NoCall],
                 fault |-> FALSE]
           r == sched_run_next(s, NoThread)
<1>1. /\ s.status = [t \in Threads |-> "PENDING"] /\ s.priority = pr
      /\ s.runqueues = rq /\ s.bitcache = {p \in Prios : rq[p] # << >>}
      /\ s.active = NoThread /\ s.call = [t \in Threads |-> NoCall]
  OBVIOUS
<1>2. s \in SchedState
  BY CallTypes DEF SchedState, Status, OnRunqueue
<1> HIDE DEF s
<1>3. \A x \in Threads : on_runqueue(s, x)
  BY <1>1 DEF on_runqueue, OnRunqueue
<1>4. RunqueueExact(s)
  BY <1>1, <1>3, ExactRunqueues
<1>5. ThreadCalls(s) /\ IdleRunnable(s)
  BY <1>1, <1>3, CallTypes, SchedAssumption DEF ThreadCalls, IdleRunnable, SwitchOps
<1>6. s.bitcache # {}
  BY <1>2, <1>3, <1>4, OnItsQueue
<1>7. /\ SchedInv(r)
      /\ \A x \in Threads : \/ r.status[x] = s.status[x]
                            \/ on_runqueue(s, x) /\ on_runqueue(r, x)
  BY <1>2, <1>4, <1>5, <1>6, RunNextInv
<1>8. \A x \in Threads : on_runqueue(r, x)
  BY <1>3, <1>7 DEF on_runqueue
<1> QED
  BY <1>7, <1>8 DEF s
=============================================================================
