-------------------------- MODULE Dispatch_proofs ---------------------------
(***************************************************************************)
(* internal_try_push loses nothing and, when no actor pops during a call   *)
(* and ids tell the waiting messages apart, keeps the order of the         *)
(* messages for each actor.                                                *)
(***************************************************************************)
EXTENDS Dispatch, SequenceTheorems, TLAPS

(* An actor gets its own messages only, and events are counted down. *)
Delivers ==
  /\ \A a \in Actors : \A i \in DOMAIN Passed(a) : Passed(a)[i].to = a
  /\ pc = "handle" => events > 0

LossInv == TypeOK /\ Delivers /\ NothingLost

HasFailed(i) == internalMsgs[i].num \in failed

(* A call in which messages failed has turned internal_msgs: those that failed
   are at its end, in their order and before those that it has not tried. The
   first of them closes the cycle. Their queues stay full, so that no later
   message overtakes them. *)
Turned ==
  /\ \A i, j \in DOMAIN internalMsgs : i < j /\ HasFailed(i) => HasFailed(j)
  /\ \A i, j \in DOMAIN internalMsgs :
       i < j /\ internalMsgs[i].to = internalMsgs[j].to =>
         IF HasFailed(j) /\ ~HasFailed(i)
           THEN internalMsgs[j].num < internalMsgs[i].num
           ELSE internalMsgs[i].num < internalMsgs[j].num
  /\ \A i \in DOMAIN internalMsgs :
       HasFailed(i) => /\ internalMsgs[i].to \in Actors
                       /\ Len(queue[internalMsgs[i].to]) >= Capacity
  /\ IF start = {} THEN \A i \in DOMAIN internalMsgs : ~HasFailed(i)
     ELSE \E k \in DOMAIN internalMsgs :
            /\ HasFailed(k) /\ internalMsgs[k].id \in start
            /\ \A i \in DOMAIN internalMsgs : i < k => ~HasFailed(i)

(* Ids tell the waiting messages apart. *)
IdsDiffer ==
  \A i, j \in DOMAIN internalMsgs : internalMsgs[i].id = internalMsgs[j].id => i = j

(* What has left for an actor is in order and before what waits for it. *)
PassedFirst ==
  \A a \in Actors :
    /\ Ascending(Passed(a))
    /\ \A k \in DOMAIN Passed(a) : \A i \in DOMAIN internalMsgs :
         internalMsgs[i].to = a => Passed(a)[k].num < internalMsgs[i].num

OrderInv ==
  clean => /\ IdsDiffer /\ PassedFirst
           /\ IF pc = "push" THEN Turned ELSE Ascending(internalMsgs)

DispatchInv == LossInv /\ OrderInv

-----------------------------------------------------------------------------
(* Lines of messages: what Append, Tail and both do to them. *)

(* A message at the end of a line. *)
LEMMA AppendLine ==
  ASSUME NEW s \in Seq(Messages), NEW m \in Messages
  PROVE  /\ Append(s, m) \in Seq(Messages)
         /\ DOMAIN Append(s, m) = 1 .. Len(s) + 1 /\ DOMAIN s = 1 .. Len(s) /\ Len(s) \in Nat
         /\ \A i \in 1 .. Len(s) : Append(s, m)[i] = s[i]
         /\ Append(s, m)[Len(s) + 1] = m
OBVIOUS

(* A new last message adds its number, and keeps the order if it is newer. *)
LEMMA AppendNums ==
  ASSUME NEW s \in Seq(Messages), NEW m \in Messages
  PROVE  /\ Nums(Append(s, m)) = Nums(s) \cup {m.num}
         /\ Distinct(s) /\ m.num \notin Nums(s) => Distinct(Append(s, m))
         /\ Ascending(s) /\ (\A i \in DOMAIN s : s[i].to = m.to => s[i].num < m.num)
              => Ascending(Append(s, m))
<1> DEFINE t == Append(s, m)
<1>1. /\ DOMAIN t = 1 .. Len(s) + 1 /\ DOMAIN s = 1 .. Len(s) /\ Len(s) \in Nat
      /\ \A i \in 1 .. Len(s) : t[i] = s[i]
      /\ t[Len(s) + 1] = m
  BY AppendLine, Zenon
<1> HIDE DEF t
<1>2. Nums(t) = Nums(s) \cup {m.num}
  <2>1. ASSUME NEW i \in DOMAIN t PROVE t[i].num \in Nums(s) \cup {m.num}
    BY <1>1 DEF Nums
  <2>2. ASSUME NEW i \in DOMAIN s PROVE s[i].num \in Nums(t)
    BY <1>1 DEF Nums
  <2>3. m.num \in Nums(t)
    BY <1>1 DEF Nums
  <2> QED
    BY <2>1, <2>2, <2>3, Zenon DEF Nums
<1>3. ASSUME Distinct(s), m.num \notin Nums(s) PROVE Distinct(t)
  BY <1>1, <1>3 DEF Distinct, Nums
<1>4. ASSUME Ascending(s), \A i \in DOMAIN s : s[i].to = m.to => s[i].num < m.num
      PROVE  Ascending(t)
  BY <1>1, <1>4 DEF Ascending
<1> QED
  BY <1>2, <1>3, <1>4, Zenon DEF t

(* A line without its first message. *)
LEMMA TailLine ==
  ASSUME NEW s \in Seq(Messages), s # <<>>
  PROVE  /\ Tail(s) \in Seq(Messages) /\ s[1] \in Messages /\ 1 \in DOMAIN s
         /\ DOMAIN Tail(s) = 1 .. Len(s) - 1 /\ DOMAIN s = 1 .. Len(s)
         /\ Len(s) \in Nat \ {0} /\ Len(Tail(s)) = Len(s) - 1
         /\ \A i \in 1 .. Len(s) - 1 : Tail(s)[i] = s[i + 1]
OBVIOUS

(* Taking the first message removes its number alone. *)
LEMMA TailNums ==
  ASSUME NEW s \in Seq(Messages), s # <<>>
  PROVE  /\ Nums(s) = Nums(Tail(s)) \cup {s[1].num}
         /\ Distinct(s) => Distinct(Tail(s)) /\ s[1].num \notin Nums(Tail(s))
         /\ Ascending(s) => Ascending(Tail(s))
<1> DEFINE t == Tail(s)
<1>1. /\ DOMAIN t = 1 .. Len(s) - 1 /\ DOMAIN s = 1 .. Len(s) /\ Len(s) \in Nat \ {0}
      /\ \A i \in 1 .. Len(s) - 1 : t[i] = s[i + 1]
  BY TailLine, Zenon
<1> HIDE DEF t
<1>2. Nums(s) = Nums(t) \cup {s[1].num}
  <2>1. ASSUME NEW i \in DOMAIN s PROVE s[i].num \in Nums(t) \cup {s[1].num}
    <3>1. CASE i = 1
      BY <3>1, Zenon
    <3>2. CASE i # 1
      <4>1. i - 1 \in DOMAIN t /\ t[i - 1] = s[i]
        BY <1>1, <3>2
      <4> QED
        BY <4>1, Zenon DEF Nums
    <3> QED
      BY <3>1, <3>2, Zenon
  <2>2. ASSUME NEW i \in DOMAIN t PROVE t[i].num \in Nums(s)
    <3>1. i + 1 \in DOMAIN s /\ t[i] = s[i + 1]
      BY <1>1
    <3> QED
      BY <3>1, Zenon DEF Nums
  <2>3. s[1].num \in Nums(s)
    BY <1>1 DEF Nums
  <2> QED
    BY <2>1, <2>2, <2>3, Zenon DEF Nums
<1>3. \A i \in DOMAIN t : i + 1 \in DOMAIN s /\ i + 1 # 1 /\ t[i] = s[i + 1]
  BY <1>1
<1>4. \A i, j \in DOMAIN t : (i + 1 = j + 1 => i = j) /\ (i < j => i + 1 < j + 1)
  BY <1>1
<1>5. ASSUME Distinct(s) PROVE Distinct(t) /\ s[1].num \notin Nums(t)
  <2>1. Distinct(t)
    BY <1>3, <1>4, <1>5 DEF Distinct
  <2>2. 1 \in DOMAIN s
    BY <1>1
  <2> QED
    BY <1>3, <1>5, <2>1, <2>2 DEF Distinct, Nums
<1>6. ASSUME Ascending(s) PROVE Ascending(t)
  BY <1>3, <1>4, <1>6, Zenon DEF Ascending
<1> QED
  BY <1>2, <1>5, <1>6, Zenon DEF t

(* A line whose first message goes to its end. *)
LEMMA TurnLine ==
  ASSUME NEW s \in Seq(Messages), s # <<>>
  PROVE  LET t == Append(Tail(s), s[1])
         IN  /\ t \in Seq(Messages)
             /\ DOMAIN t = 1 .. Len(s) /\ DOMAIN s = 1 .. Len(s) /\ Len(s) \in Nat \ {0}
             /\ \A i \in 1 .. Len(s) - 1 : t[i] = s[i + 1]
             /\ t[Len(s)] = s[1]
             /\ Nums(t) = Nums(s)
             /\ Distinct(s) => Distinct(t)
<1>1. /\ Tail(s) \in Seq(Messages) /\ s[1] \in Messages
      /\ DOMAIN Tail(s) = 1 .. Len(s) - 1 /\ DOMAIN s = 1 .. Len(s)
      /\ Len(s) \in Nat \ {0} /\ Len(Tail(s)) = Len(s) - 1
      /\ \A i \in 1 .. Len(s) - 1 : Tail(s)[i] = s[i + 1]
  BY TailLine, Zenon
<1>2. /\ Append(Tail(s), s[1]) \in Seq(Messages)
      /\ DOMAIN Append(Tail(s), s[1]) = 1 .. Len(s)
      /\ \A i \in 1 .. Len(s) - 1 : Append(Tail(s), s[1])[i] = s[i + 1]
      /\ Append(Tail(s), s[1])[Len(s)] = s[1]
  BY <1>1, AppendLine
<1>3. /\ Nums(Append(Tail(s), s[1])) = Nums(s)
      /\ Distinct(s) => Distinct(Append(Tail(s), s[1]))
  BY <1>1, AppendNums, TailNums, Zenon
<1> QED
  BY <1>1, <1>2, <1>3, Zenon

(* What an actor has been sent does not change when the actor pops, and grows
   at its end when the server pushes. *)
LEMMA PassedLine ==
  ASSUME NEW t \in Seq(Messages), NEW q \in Seq(Messages)
  PROVE  /\ t \o q \in Seq(Messages)
         /\ q # <<>> => /\ Append(t, Head(q)) \o Tail(q) = t \o q
                        /\ Append(t, Head(q)) \in Seq(Messages) /\ Tail(q) \in Seq(Messages)
                        /\ Len(Tail(q)) <= Len(q)
<1>1. t \o q \in Seq(Messages)
  OBVIOUS
<1>2. ASSUME q # <<>> PROVE Append(t, Head(q)) \o Tail(q) = t \o q
  BY <1>2
<1>3. ASSUME q # <<>>
      PROVE  /\ Append(t, Head(q)) \in Seq(Messages) /\ Tail(q) \in Seq(Messages)
             /\ Len(Tail(q)) <= Len(q)
  BY <1>3
<1> QED
  BY <1>1, <1>2, <1>3, Zenon

(* A push on an actor's queue extends what was passed to that actor. *)
LEMMA PassedAppend ==
  ASSUME NEW t \in Seq(Messages), NEW q \in Seq(Messages), NEW m \in Messages
  PROVE  t \o Append(q, m) = Append(t \o q, m)
OBVIOUS

-----------------------------------------------------------------------------
(* Nothing is lost. *)

(* What was passed to an actor is addressed to it. *)
ToOwn == \A a \in Actors : \A i \in DOMAIN Passed(a) : Passed(a)[i].to = a

(* The router starts with every line empty. *)
LEMMA InitLossInv == Init => LossInv
<1> SUFFICES ASSUME Init PROVE LossInv
  BY Zenon
<1> USE DispatchAssumption DEF Init
<1>1. TypeOK
  BY DEF TypeOK
<1>2. \A a \in Actors : Passed(a) = <<>>
  BY DEF Passed
<1>3. Nums(<<>>) = {} /\ Distinct(<<>>)
  BY DEF Nums, Distinct
<1>4. 1 .. 0 = {}
  OBVIOUS
<1>5. NothingLost
  <2>1. Reached = {}
    BY <1>2, <1>3, Zenon DEF Reached
  <2> QED
    BY <1>2, <1>3, <1>4, <2>1, Zenon DEF NothingLost
<1> QED
  BY <1>1, <1>2, <1>5 DEF LossInv, Delivers

(* A step that moves no message. *)
LEMMA StillLoss ==
  ASSUME LossInv, UNCHANGED <<internalMsgs, actors, freed, sent>>
  PROVE  NothingLost' /\ ToOwn'
<1>1. \A a \in Actors : Passed(a)' = Passed(a)
  BY Zenon DEF actors, Passed
<1>2. ToOwn'
  BY <1>1, Zenon DEF LossInv, Delivers, ToOwn
<1>3. Reached' = Reached
  BY <1>1, Zenon DEF Reached
<1>4. NothingLost'
  BY <1>1, <1>3, Zenon DEF LossInv, NothingLost
<1> QED
  BY <1>2, <1>4, Zenon

(* enqueue_internal adds the next message. *)
LEMMA EnqueueLoss ==
  ASSUME LossInv, NEW to \in Actors \cup {Stranger}, NEW id \in Ids, Enqueue(to, id)
  PROVE  LossInv'
<1> DEFINE m == [num |-> sent + 1, to |-> to, id |-> id]
<1>1. m \in Messages /\ m.num = sent + 1
  BY DispatchAssumption DEF LossInv, TypeOK, Enqueue, Messages
<1>2. internalMsgs \in Seq(Messages) /\ internalMsgs' = Append(internalMsgs, m)
  BY Zenon DEF LossInv, TypeOK, Enqueue
<1> HIDE DEF m
<1>3. \A a \in Actors : Passed(a)' = Passed(a)
  BY Zenon DEF Enqueue, actors, Passed
<1>4. sent \in Nat /\ sent' = sent + 1 /\ 1 .. sent + 1 = (1 .. sent) \cup {sent + 1} /\ sent + 1 \notin 1 .. sent
  BY DispatchAssumption DEF LossInv, TypeOK, Enqueue
<1>5. sent + 1 \notin Nums(internalMsgs) /\ sent + 1 \notin freed
      /\ \A a \in Actors : sent + 1 \notin Nums(Passed(a))
  BY <1>4 DEF LossInv, NothingLost, Reached
<1>6. Nums(internalMsgs') = Nums(internalMsgs) \cup {sent + 1} /\ Distinct(internalMsgs')
  BY <1>1, <1>2, <1>5, AppendNums, Zenon DEF LossInv, NothingLost
<1>7. freed' = freed
  BY Zenon DEF Enqueue
<1>8. NothingLost'
  <2>1. Reached' = Reached
    BY <1>3, Zenon DEF Reached
  <2> QED
    BY <1>3, <1>4, <1>5, <1>6, <1>7, <2>1 DEF LossInv, NothingLost
<1>9. TypeOK'
  <2>1. internalMsgs' \in Seq(Messages)
    BY <1>1, <1>2
  <2>2. sent' \in 0 .. MaxSent
    BY <1>4, DispatchAssumption DEF Enqueue, LossInv, TypeOK
  <2> QED
    BY <2>1, <2>2, Zenon DEF LossInv, TypeOK, Enqueue, actors
<1>10. Delivers'
  BY <1>3, Zenon DEF LossInv, Delivers, Enqueue
<1> QED
  BY <1>8, <1>9, <1>10, Zenon DEF LossInv

(* What a call of internal_try_push sees of internal_msgs. *)
LEMMA FrontMessage ==
  ASSUME LossInv, internalMsgs # <<>>
  PROVE  /\ internalMsgs \in Seq(Messages) /\ Foremost \in Messages
         /\ Foremost.num \in Nums(internalMsgs) /\ Foremost.num \in 1 .. MaxSent /\ Foremost.id \in Ids
         /\ Tail(internalMsgs) \in Seq(Messages)
         /\ Nums(internalMsgs) = Nums(Tail(internalMsgs)) \cup {Foremost.num}
         /\ Distinct(Tail(internalMsgs)) /\ Foremost.num \notin Nums(Tail(internalMsgs))
<1>1. internalMsgs \in Seq(Messages) /\ Distinct(internalMsgs)
  BY Zenon DEF LossInv, TypeOK, NothingLost
<1>2. Foremost \in Messages /\ Tail(internalMsgs) \in Seq(Messages)
  BY <1>1, TailLine, Zenon DEF Foremost
<1>3. Foremost.num \in 1 .. MaxSent /\ Foremost.id \in Ids
  BY <1>2, Zenon DEF Messages
<1> QED
  BY <1>1, <1>2, <1>3, TailNums, Zenon DEF Foremost

(* The first message goes to the queue of its actor. *)
LEMMA PushLoss ==
  ASSUME LossInv, TryPushOk, NEW a, NEW m, a = Foremost.to, m = Foremost
  PROVE  /\ LossInv'
         /\ a \in Actors /\ m \in Messages
         /\ Passed(a) \in Seq(Messages) /\ Passed(a)' = Append(Passed(a), m)
         /\ \A b \in Actors \ {a} : Passed(b)' = Passed(b)
<1>1. /\ a \in Actors /\ internalMsgs # <<>> /\ internalMsgs' = Tail(internalMsgs)
      /\ freed' = freed /\ sent' = sent /\ taken' = taken
      /\ queue' = [queue EXCEPT ![a] = Append(queue[a], m)]
  BY Zenon DEF TryPushOk
<1>2. queue \in [Actors -> Seq(Messages)] /\ taken \in [Actors -> Seq(Messages)]
  BY Zenon DEF LossInv, TypeOK
<1>3. m \in Messages /\ Tail(internalMsgs) \in Seq(Messages)
      /\ Nums(internalMsgs) = Nums(internalMsgs') \cup {m.num}
      /\ Distinct(internalMsgs') /\ m.num \notin Nums(internalMsgs')
  BY <1>1, FrontMessage, Zenon
<1>4. Passed(a)' = Append(Passed(a), m)
  <2>1. queue'[a] = Append(queue[a], m)
    BY <1>1, <1>2, Zenon
  <2>2. taken[a] \in Seq(Messages) /\ queue[a] \in Seq(Messages)
    BY <1>1, <1>2, Zenon
  <2>3. taken[a] \o Append(queue[a], m) = Append(taken[a] \o queue[a], m)
    BY <1>3, <2>2, PassedAppend, Zenon
  <2> QED
    BY <1>1, <2>1, <2>3, Zenon DEF Passed
<1>5. \A b \in Actors \ {a} : Passed(b)' = Passed(b)
  BY <1>1, <1>2, Zenon DEF Passed
<1>6. Passed(a) \in Seq(Messages)
  BY <1>1, <1>2, PassedLine, Zenon DEF Passed
<1>7. Nums(Passed(a)') = Nums(Passed(a)) \cup {m.num} /\ Distinct(Passed(a)')
  <2>1. Distinct(Passed(a)) /\ m.num \notin Nums(Passed(a))
    BY <1>1, <1>3, Zenon DEF LossInv, NothingLost
  <2> QED
    BY <1>3, <1>4, <1>6, <2>1, AppendNums, Zenon
<1>8. NothingLost'
  <2>1. freed' \cup Nums(internalMsgs') \cup Reached' = 1 .. sent'
    <3>1. Reached' = Reached \cup {m.num}
      <4>1. ASSUME NEW n PROVE n \in Reached' <=> n \in Reached \cup {m.num}
        BY <1>1, <1>5, <1>7, Zenon DEF Reached
      <4> QED
        BY <4>1, Zenon
    <3> QED
      BY <1>1, <1>3, <3>1, Zenon DEF LossInv, NothingLost
  <2>2. freed' \cap Nums(internalMsgs') = {} /\ Distinct(internalMsgs')
    BY <1>1, <1>3, Zenon DEF LossInv, NothingLost
  <2>3. ASSUME NEW b \in Actors
        PROVE  /\ Distinct(Passed(b)')
               /\ Nums(Passed(b)') \cap (freed' \cup Nums(internalMsgs')) = {}
    <3>1. CASE b = a
      BY <1>1, <1>3, <1>7, <3>1 DEF LossInv, NothingLost
    <3>2. CASE b # a
      <4>1. Passed(b)' = Passed(b)
        BY <1>5, <3>2, Zenon
      <4> QED
        BY <1>1, <1>3, <4>1, Zenon DEF LossInv, NothingLost
    <3> QED
      BY <3>1, <3>2, Zenon
  <2>4. ASSUME NEW b \in Actors, NEW c \in Actors \ {b}
        PROVE  Nums(Passed(b)') \cap Nums(Passed(c)') = {}
    BY <1>1, <1>3, <1>5, <1>7, Zenon DEF LossInv, NothingLost
  <2> QED
    BY <2>1, <2>2, <2>3, <2>4, Zenon DEF NothingLost
<1>9. TypeOK'
  <2>1. queue' \in [Actors -> Seq(Messages)]
    BY <1>1, <1>2, <1>3
  <2>2. \A b \in Actors : Len(queue'[b]) <= Capacity
    <3>1. Len(queue[a]) < Capacity
      BY Zenon DEF TryPushOk
    <3>2. Len(Append(queue[a], m)) = Len(queue[a]) + 1 /\ Len(queue[a]) \in Nat
      BY <1>1, <1>2
    <3> QED
      BY <1>1, <1>2, <3>1, <3>2, DispatchAssumption DEF LossInv, TypeOK
  <2> QED
    BY <1>1, <1>3, <2>1, <2>2, Zenon DEF LossInv, TypeOK, TryPushOk
<1>10. Delivers'
  <2>1. ASSUME NEW b \in Actors, NEW i \in DOMAIN Passed(b)' PROVE Passed(b)'[i].to = b
    <3>1. CASE b # a
      BY <1>5, <3>1, Zenon DEF LossInv, Delivers
    <3>2. CASE b = a
      <4>1. \A j \in DOMAIN Passed(a) : Passed(a)[j].to = a
        BY <1>1, Zenon DEF LossInv, Delivers
      <4> QED
        BY <1>3, <1>4, <1>6, <3>2, <4>1, AppendLine
    <3> QED
      BY <3>1, <3>2, Zenon
  <2> QED
    BY <2>1, Zenon DEF Delivers, TryPushOk, LossInv
<1> QED
  BY <1>1, <1>3, <1>4, <1>5, <1>6, <1>8, <1>9, <1>10, Zenon DEF LossInv

(* A message that is given up. *)
LEMMA FreeLoss ==
  ASSUME LossInv, NoSuchActor
  PROVE  LossInv'
<1> DEFINE n == Foremost.num
<1>1. /\ internalMsgs # <<>> /\ internalMsgs' = Tail(internalMsgs)
      /\ freed' = freed \cup {n} /\ sent' = sent
  BY Zenon DEF NoSuchActor
<1>2. n \in 1 .. MaxSent /\ Tail(internalMsgs) \in Seq(Messages)
      /\ Nums(internalMsgs) = Nums(internalMsgs') \cup {n}
      /\ Distinct(internalMsgs') /\ n \notin Nums(internalMsgs')
  BY <1>1, FrontMessage, Zenon
<1> HIDE DEF n
<1>3. \A a \in Actors : Passed(a)' = Passed(a)
  BY Zenon DEF NoSuchActor, actors, Passed
<1>4. Reached' = Reached
  BY <1>3, Zenon DEF Reached
<1>5. NothingLost'
  <2>1. freed' \cup Nums(internalMsgs') \cup Reached' = 1 .. sent'
    BY <1>1, <1>2, <1>4, Zenon DEF LossInv, NothingLost
  <2>2. freed' \cap Nums(internalMsgs') = {} /\ Distinct(internalMsgs')
    BY <1>1, <1>2, Zenon DEF LossInv, NothingLost
  <2>3. ASSUME NEW a \in Actors
        PROVE  /\ Distinct(Passed(a)')
               /\ Nums(Passed(a)') \cap (freed' \cup Nums(internalMsgs')) = {}
               /\ \A b \in Actors \ {a} : Nums(Passed(a)') \cap Nums(Passed(b)') = {}
    BY <1>1, <1>2, <1>3, Zenon DEF LossInv, NothingLost
  <2> QED
    BY <2>1, <2>2, <2>3, Zenon DEF NothingLost
<1>6. TypeOK'
  BY <1>1, <1>2, Zenon DEF LossInv, TypeOK, NoSuchActor, actors
<1>7. Delivers'
  BY <1>3, Zenon DEF LossInv, Delivers, NoSuchActor
<1> QED
  BY <1>5, <1>6, <1>7, Zenon DEF LossInv

(* A message that goes to the back. *)
LEMMA TurnLoss ==
  ASSUME LossInv, TryPushErr
  PROVE  LossInv'
<1>1. /\ internalMsgs # <<>> /\ internalMsgs' = Append(Tail(internalMsgs), internalMsgs[1])
      /\ freed' = freed /\ sent' = sent
  BY Zenon DEF TryPushErr, QueueFull, Foremost
<1>2. internalMsgs \in Seq(Messages)
  BY Zenon DEF LossInv, TypeOK
<1>3. /\ internalMsgs' \in Seq(Messages) /\ Nums(internalMsgs') = Nums(internalMsgs)
      /\ Distinct(internalMsgs')
  BY <1>1, <1>2, TurnLine, Zenon DEF LossInv, NothingLost
<1>4. \A a \in Actors : Passed(a)' = Passed(a)
  BY Zenon DEF TryPushErr, QueueFull, actors, Passed
<1>5. Reached' = Reached
  BY <1>4, Zenon DEF Reached
<1>6. NothingLost'
  BY <1>1, <1>3, <1>4, <1>5, Zenon DEF LossInv, NothingLost
<1>7. Delivers'
  BY <1>4, Zenon DEF LossInv, Delivers, TryPushErr, QueueFull
<1>8. TypeOK'
  <2>1. Foremost.num \in 1 .. MaxSent /\ Foremost.id \in Ids
    BY <1>1, FrontMessage, Zenon
  <2>2. start' \in {{}} \cup {{i} : i \in Ids}
    BY <2>1, Zenon DEF LossInv, TypeOK, TryPushErr
  <2>3. failed' \subseteq 1 .. MaxSent
    BY <2>1, Zenon DEF LossInv, TypeOK, TryPushErr, QueueFull
  <2> QED
    BY <1>3, <2>2, <2>3, Zenon DEF LossInv, TypeOK, TryPushErr, QueueFull, actors
<1> QED
  BY <1>6, <1>7, <1>8, Zenon DEF LossInv

(* An actor pops. *)
LEMMA PopLoss ==
  ASSUME LossInv, NEW a \in Actors, Pop(a)
  PROVE  /\ LossInv'
         /\ \A b \in Actors : Passed(b)' = Passed(b)
<1>1. queue \in [Actors -> Seq(Messages)] /\ taken \in [Actors -> Seq(Messages)]
  BY Zenon DEF LossInv, TypeOK
<1>2. queue' = [queue EXCEPT ![a] = Tail(queue[a])] /\ queue[a] # <<>>
      /\ taken' = [taken EXCEPT ![a] = Append(taken[a], Head(queue[a]))]
  BY Zenon DEF Pop
<1>3. queue[a] \in Seq(Messages) /\ taken[a] \in Seq(Messages)
  BY <1>1, Zenon
<1>4. /\ Append(taken[a], Head(queue[a])) \o Tail(queue[a]) = taken[a] \o queue[a]
      /\ Append(taken[a], Head(queue[a])) \in Seq(Messages) /\ Tail(queue[a]) \in Seq(Messages)
      /\ Len(Tail(queue[a])) <= Len(queue[a])
  BY <1>2, <1>3, PassedLine, Zenon
<1>5. ASSUME NEW b \in Actors PROVE Passed(b)' = Passed(b)
  <2>1. CASE b = a
    <3>1. taken'[a] = Append(taken[a], Head(queue[a])) /\ queue'[a] = Tail(queue[a])
      BY <1>1, <1>2, Zenon
    <3> QED
      BY <1>4, <2>1, <3>1, Zenon DEF Passed
  <2>2. CASE b # a
    BY <1>1, <1>2, <2>2, Zenon DEF Passed
  <2> QED
    BY <2>1, <2>2, Zenon
<1>6. Reached' = Reached
  BY <1>5, Zenon DEF Reached
<1>7. NothingLost'
  BY <1>5, <1>6, Zenon DEF LossInv, NothingLost, Pop
<1>8. Delivers'
  BY <1>5, Zenon DEF LossInv, Delivers, Pop
<1>9. TypeOK'
  <2>1. queue' \in [Actors -> Seq(Messages)] /\ taken' \in [Actors -> Seq(Messages)]
    BY <1>1, <1>2, <1>4, Zenon
  <2>2. \A b \in Actors : Len(queue'[b]) <= Capacity
    <3>1. Len(Tail(queue[a])) <= Capacity
      BY <1>3, <1>4, DispatchAssumption DEF LossInv, TypeOK
    <3> QED
      BY <1>1, <1>2, <3>1, Zenon DEF LossInv, TypeOK
  <2> QED
    BY <2>1, <2>2, Zenon DEF LossInv, TypeOK, Pop
<1> QED
  BY <1>5, <1>7, <1>8, <1>9, Zenon DEF LossInv

(* Every step of the server and of the actors. *)
LEMMA StepLossInv == LossInv /\ [Next]_vars => LossInv'
<1> SUFFICES ASSUME LossInv, [Next]_vars PROVE LossInv'
  BY Zenon
<1> DEFINE still == UNCHANGED <<internalMsgs, actors, freed, sent>>
<1>1. ASSUME still, UNCHANGED clean, start' \in {start, {}}, failed' \subseteq 1 .. MaxSent,
             events' \in 0 .. MaxEvents, pc' \in {"poll", "event", "push", "handle"},
             pc' = "handle" => events' > 0
      PROVE  LossInv'
  <2>1. NothingLost' /\ ToOwn'
    BY <1>1, StillLoss, Zenon
  <2>2. TypeOK'
    BY <1>1, Zenon DEF LossInv, TypeOK, actors
  <2> QED
    BY <1>1, <2>1, <2>2, Zenon DEF LossInv, Delivers, ToOwn
<1>2. TypeOK /\ Delivers
  BY Zenon DEF LossInv
<1>3. CASE PollOk \/ PassDone
  BY <1>1, <1>2, <1>3, Zenon DEF PollOk, PassDone, TypeOK
<1>4. CASE PollErr \/ NextEvent
  BY <1>1, <1>2, <1>4, Zenon DEF PollErr, NextEvent, Call, TypeOK
<1>5. CASE Handled
  <2>1. events' \in 0 .. MaxEvents
    BY <1>2, <1>5, DispatchAssumption DEF Handled, TypeOK, Delivers
  <2> QED
    BY <1>1, <1>2, <1>5, <2>1, Zenon DEF Handled, TypeOK
<1>6. CASE AllSent
  BY <1>1, <1>2, <1>6, Zenon DEF AllSent, Return, TypeOK
<1>7. CASE CycleClosed
  <2>1. failed' \subseteq 1 .. MaxSent
    <3>1. Foremost.num \in 1 .. MaxSent
      BY <1>7, FrontMessage, Zenon DEF CycleClosed, QueueFull
    <3> QED
      BY <1>2, <1>7, <3>1, Zenon DEF CycleClosed, QueueFull, TypeOK
  <2> QED
    BY <1>1, <1>2, <1>7, <2>1, Zenon DEF CycleClosed, QueueFull, Return, TypeOK
<1>8. CASE TryPushOk
  BY <1>8, PushLoss, Zenon
<1>9. CASE TryPushErr
  BY <1>9, TurnLoss, Zenon
<1>10. CASE NoSuchActor
  BY <1>10, FreeLoss, Zenon
<1>11. ASSUME NEW to \in Actors \cup {Stranger}, NEW id \in Ids, Enqueue(to, id) PROVE LossInv'
  BY <1>11, EnqueueLoss, Zenon
<1>12. ASSUME NEW a \in Actors, Pop(a) PROVE LossInv'
  BY <1>12, PopLoss, Zenon
<1>13. CASE UNCHANGED vars
  BY <1>1, <1>2, <1>13, Zenon DEF vars, TypeOK, Delivers
<1> QED
  BY <1>3, <1>4, <1>5, <1>6, <1>7, <1>8, <1>9, <1>10, <1>11, <1>12, <1>13, Zenon
     DEF Next, Server, TryPush

-----------------------------------------------------------------------------
(* The order is kept. *)

(* All is in order before anything is sent. *)
LEMMA InitOrderInv == Init => OrderInv
<1> SUFFICES ASSUME Init PROVE OrderInv
  BY Zenon
<1>1. internalMsgs = <<>> /\ pc # "push" /\ \A a \in Actors : Passed(a) = <<>>
  BY DEF Init, Passed
<1>2. Ascending(<<>>)
  BY DEF Ascending
<1> QED
  BY <1>1, <1>2 DEF OrderInv, IdsDiffer, PassedFirst

(* A new message is the last of all. *)
LEMMA EnqueueOrder ==
  ASSUME LossInv, OrderInv, NEW to \in Actors \cup {Stranger}, NEW id \in Ids, Enqueue(to, id)
  PROVE  OrderInv'
<1> SUFFICES ASSUME clean' PROVE OrderInv'
  BY Zenon DEF OrderInv
<1> DEFINE m == [num |-> sent + 1, to |-> to, id |-> id]
<1>1. m \in Messages /\ m.num = sent + 1 /\ m.id = id
  BY DispatchAssumption DEF LossInv, TypeOK, Enqueue, Messages
<1>2. internalMsgs \in Seq(Messages) /\ internalMsgs' = Append(internalMsgs, m)
  BY Zenon DEF LossInv, TypeOK, Enqueue
<1> HIDE DEF m
<1>3. \A a \in Actors : Passed(a)' = Passed(a)
  BY Zenon DEF Enqueue, actors, Passed
<1>4. clean /\ pc # "push" /\ pc' # "push"
      /\ \A i \in DOMAIN internalMsgs : internalMsgs[i].id # id
  BY Zenon DEF Enqueue, Range
<1>5. IdsDiffer /\ PassedFirst /\ Ascending(internalMsgs)
  BY <1>4, Zenon DEF OrderInv
<1>6. /\ DOMAIN internalMsgs' = 1 .. Len(internalMsgs) + 1 /\ DOMAIN internalMsgs = 1 .. Len(internalMsgs)
      /\ Len(internalMsgs) \in Nat
      /\ \A i \in 1 .. Len(internalMsgs) : internalMsgs'[i] = internalMsgs[i]
      /\ internalMsgs'[Len(internalMsgs) + 1] = m
  BY <1>1, <1>2, AppendLine, Zenon
<1>7. sent \in Nat /\ \A n \in 1 .. sent : n < sent + 1
  BY DispatchAssumption DEF LossInv, TypeOK
<1>8. /\ \A i \in DOMAIN internalMsgs : internalMsgs[i].num < sent + 1
      /\ \A a \in Actors : \A k \in DOMAIN Passed(a) : Passed(a)[k].num < sent + 1
  <2>1. Nums(internalMsgs) \subseteq 1 .. sent /\ \A a \in Actors : Nums(Passed(a)) \subseteq 1 .. sent
    BY Zenon DEF LossInv, NothingLost, Reached
  <2> QED
    BY <1>7, <2>1, Zenon DEF Nums
<1>9. IdsDiffer'
  BY <1>1, <1>4, <1>5, <1>6 DEF IdsDiffer
<1>10. Ascending(internalMsgs')
  BY <1>1, <1>2, <1>5, <1>8, AppendNums, Zenon
<1>11. PassedFirst'
  BY <1>1, <1>3, <1>5, <1>6, <1>8 DEF PassedFirst
<1> QED
  BY <1>4, <1>9, <1>10, <1>11, Zenon DEF OrderInv

(* The line when its first message leaves it. *)
LEMMA TailOrder ==
  ASSUME LossInv, internalMsgs # <<>>, internalMsgs' = Tail(internalMsgs)
  PROVE  /\ \A i \in DOMAIN internalMsgs' :
              i + 1 \in DOMAIN internalMsgs /\ internalMsgs'[i] = internalMsgs[i + 1] /\ 1 < i + 1
         /\ \A i, j \in DOMAIN internalMsgs' : (i + 1 = j + 1 => i = j) /\ (i < j => i + 1 < j + 1)
         /\ \A k \in DOMAIN internalMsgs :
              k # 1 => k - 1 \in DOMAIN internalMsgs' /\ internalMsgs'[k - 1] = internalMsgs[k]
                       /\ \A i \in DOMAIN internalMsgs' : i < k - 1 => i + 1 < k
         /\ 1 \in DOMAIN internalMsgs
         /\ IdsDiffer => IdsDiffer'
<1>1. internalMsgs \in Seq(Messages)
  BY Zenon DEF LossInv, TypeOK
<1>2. /\ 1 \in DOMAIN internalMsgs
      /\ DOMAIN internalMsgs' = 1 .. Len(internalMsgs) - 1 /\ DOMAIN internalMsgs = 1 .. Len(internalMsgs)
      /\ Len(internalMsgs) \in Nat \ {0}
      /\ \A i \in 1 .. Len(internalMsgs) - 1 : internalMsgs'[i] = internalMsgs[i + 1]
  BY <1>1, TailLine, Zenon
<1>3. \A i \in DOMAIN internalMsgs' :
        i + 1 \in DOMAIN internalMsgs /\ internalMsgs'[i] = internalMsgs[i + 1] /\ 1 < i + 1
  BY <1>2
<1>4. \A i, j \in DOMAIN internalMsgs' : (i + 1 = j + 1 => i = j) /\ (i < j => i + 1 < j + 1)
  BY <1>2
<1>5. ASSUME NEW k \in DOMAIN internalMsgs, k # 1
      PROVE  k - 1 \in DOMAIN internalMsgs' /\ internalMsgs'[k - 1] = internalMsgs[k]
             /\ \A i \in DOMAIN internalMsgs' : i < k - 1 => i + 1 < k
  BY <1>2, <1>5
<1>6. ASSUME IdsDiffer PROVE IdsDiffer'
  BY <1>3, <1>4, <1>6 DEF IdsDiffer
<1> QED
  BY <1>2, <1>3, <1>4, <1>5, <1>6, Zenon

(* A line that a call has turned stays so when a message that has not failed
   leaves it. *)
LEMMA TurnedTail ==
  ASSUME LossInv, Turned, internalMsgs # <<>>, ~HasFailed(1),
         internalMsgs' = Tail(internalMsgs), UNCHANGED <<failed, start>>,
         \A b \in Actors : Len(queue[b]) >= Capacity => Len(queue'[b]) >= Capacity
  PROVE  Turned'
<1>1. /\ \A i \in DOMAIN internalMsgs' :
              i + 1 \in DOMAIN internalMsgs /\ internalMsgs'[i] = internalMsgs[i + 1]
      /\ \A i, j \in DOMAIN internalMsgs' : i < j => i + 1 < j + 1
  BY TailOrder, Zenon
<1>2. \A i \in DOMAIN internalMsgs' : HasFailed(i)' <=> HasFailed(i + 1)
  BY <1>1, Zenon DEF HasFailed
<1>3. \A i, j \in DOMAIN internalMsgs' : i < j /\ HasFailed(i)' => HasFailed(j)'
  BY <1>1, <1>2, Zenon DEF Turned
<1>4. ASSUME NEW i \in DOMAIN internalMsgs', NEW j \in DOMAIN internalMsgs',
             i < j, internalMsgs'[i].to = internalMsgs'[j].to
      PROVE  IF HasFailed(j)' /\ ~HasFailed(i)'
               THEN internalMsgs'[j].num < internalMsgs'[i].num
               ELSE internalMsgs'[i].num < internalMsgs'[j].num
  BY <1>1, <1>2, <1>4 DEF Turned
<1>5. \A i \in DOMAIN internalMsgs' :
        HasFailed(i)' => internalMsgs'[i].to \in Actors /\ Len(queue'[internalMsgs'[i].to]) >= Capacity
  BY <1>1, <1>2, Zenon DEF Turned
<1>6. CASE start = {}
  BY <1>1, <1>2, <1>3, <1>4, <1>5, <1>6, Zenon DEF Turned
<1>7. CASE start # {}
  <2>1. PICK k \in DOMAIN internalMsgs :
          /\ HasFailed(k) /\ internalMsgs[k].id \in start
          /\ \A i \in DOMAIN internalMsgs : i < k => ~HasFailed(i)
    BY <1>7, Zenon DEF Turned
  <2>2. k - 1 \in DOMAIN internalMsgs' /\ internalMsgs'[k - 1] = internalMsgs[k]
        /\ \A i \in DOMAIN internalMsgs' : i < k - 1 => i + 1 < k
    BY <2>1, TailOrder, Zenon
  <2>3. HasFailed(k - 1)' /\ internalMsgs'[k - 1].id \in start'
    BY <2>1, <2>2, Zenon DEF HasFailed
  <2>4. \A i \in DOMAIN internalMsgs' : i < k - 1 => ~HasFailed(i)'
    BY <1>1, <1>2, <2>1, <2>2, Zenon
  <2> QED
    BY <1>3, <1>4, <1>5, <1>7, <2>2, <2>3, <2>4, Zenon DEF Turned
<1> QED
  BY <1>6, <1>7, Zenon

(* The first message was not tried before unless its id closes the cycle. *)
LEMMA FrontUntried ==
  ASSUME LossInv, Turned, internalMsgs # <<>>, internalMsgs[1].id \notin start
  PROVE  ~HasFailed(1)
<1>1. DOMAIN internalMsgs = 1 .. Len(internalMsgs) /\ Len(internalMsgs) \in Nat \ {0}
  BY TailLine, Zenon DEF LossInv, TypeOK
<1>2. \A k \in DOMAIN internalMsgs : k # 1 => 1 < k
  BY <1>1
<1>3. 1 \in DOMAIN internalMsgs
  BY <1>1
<1> QED
  BY <1>2, <1>3, Zenon DEF Turned

(* A message goes to the back: it is the last of those that failed. *)
LEMMA TurnedTurn ==
  ASSUME LossInv, Turned, TryPushErr
  PROVE  Turned'
<1>0. PICK n : n = Len(internalMsgs)
  BY Zenon
<1>1. /\ internalMsgs # <<>> /\ internalMsgs' = Append(Tail(internalMsgs), internalMsgs[1])
      /\ internalMsgs[1].id \notin start /\ internalMsgs[1].to \in Actors
      /\ Len(queue[internalMsgs[1].to]) >= Capacity
      /\ failed' = failed \cup {internalMsgs[1].num} /\ queue' = queue
      /\ start' = IF start = {} THEN {internalMsgs[1].id} ELSE start
  BY Zenon DEF TryPushErr, QueueFull, Foremost, actors
<1>2. internalMsgs \in Seq(Messages) /\ Distinct(internalMsgs)
  BY Zenon DEF LossInv, TypeOK, NothingLost
<1>3. /\ DOMAIN internalMsgs' = 1 .. n /\ DOMAIN internalMsgs = 1 .. n /\ n \in Nat \ {0}
      /\ \A i \in 1 .. n - 1 : internalMsgs'[i] = internalMsgs[i + 1]
      /\ internalMsgs'[n] = internalMsgs[1]
  BY <1>0, <1>1, <1>2, TurnLine, Zenon
<1>4. ~HasFailed(1)
  BY <1>1, FrontUntried, Zenon
<1>5. ASSUME NEW i \in DOMAIN internalMsgs', i # n
      PROVE  /\ i + 1 \in DOMAIN internalMsgs /\ 1 < i + 1 /\ 1 \in DOMAIN internalMsgs /\ i < n
             /\ internalMsgs'[i] = internalMsgs[i + 1]
             /\ HasFailed(i)' <=> HasFailed(i + 1)
  <2>1. i + 1 \in DOMAIN internalMsgs /\ 1 < i + 1 /\ 1 \in DOMAIN internalMsgs /\ i < n
        /\ internalMsgs'[i] = internalMsgs[i + 1] /\ i + 1 # 1
    BY <1>3, <1>5
  <2>2. internalMsgs[i + 1].num # internalMsgs[1].num
    BY <1>2, <2>1, Zenon DEF Distinct
  <2> QED
    BY <1>1, <2>1, <2>2, Zenon DEF HasFailed
<1>6. n \in DOMAIN internalMsgs' /\ HasFailed(n)' /\ internalMsgs'[n] = internalMsgs[1]
  BY <1>1, <1>3 DEF HasFailed
<1>7. \A i, j \in DOMAIN internalMsgs' : i < j => i # n /\ i + 1 < j + 1
  BY <1>3
<1>8. ASSUME NEW i \in DOMAIN internalMsgs', NEW j \in DOMAIN internalMsgs', i < j
      PROVE  /\ HasFailed(i)' => HasFailed(j)'
             /\ internalMsgs'[i].to = internalMsgs'[j].to =>
                  IF HasFailed(j)' /\ ~HasFailed(i)'
                    THEN internalMsgs'[j].num < internalMsgs'[i].num
                    ELSE internalMsgs'[i].num < internalMsgs'[j].num
  <2>1. i # n /\ i + 1 < j + 1
    BY <1>7, <1>8, Zenon
  <2>2. CASE j = n
    BY <1>4, <1>5, <1>6, <2>1, <2>2, Zenon DEF Turned
  <2>3. CASE j # n
    BY <1>5, <2>1, <2>3, Zenon DEF Turned
  <2> QED
    BY <2>2, <2>3, Zenon
<1>9. ASSUME NEW i \in DOMAIN internalMsgs', HasFailed(i)'
      PROVE  internalMsgs'[i].to \in Actors /\ Len(queue'[internalMsgs'[i].to]) >= Capacity
  BY <1>1, <1>5, <1>6, <1>9, Zenon DEF Turned
<1>10. start' # {}
  BY <1>1, Zenon
<1>11. \E k \in DOMAIN internalMsgs' :
         /\ HasFailed(k)' /\ internalMsgs'[k].id \in start'
         /\ \A i \in DOMAIN internalMsgs' : i < k => ~HasFailed(i)'
  <2>1. CASE start = {}
    <3>1. \A i \in DOMAIN internalMsgs' : i < n => ~HasFailed(i)'
      BY <1>5, <1>7, <1>6, <2>1, Zenon DEF Turned
    <3> QED
      BY <1>1, <1>6, <2>1, <3>1, Zenon
  <2>2. CASE start # {}
    <3>1. PICK k \in DOMAIN internalMsgs :
            /\ HasFailed(k) /\ internalMsgs[k].id \in start
            /\ \A i \in DOMAIN internalMsgs : i < k => ~HasFailed(i)
      BY <2>2, Zenon DEF Turned
    <3>2. k # 1
      BY <1>4, <3>1, Zenon
    <3>3. k - 1 \in DOMAIN internalMsgs' /\ k - 1 # n /\ (k - 1) + 1 = k
          /\ \A i \in DOMAIN internalMsgs' : i < k - 1 => i + 1 < k /\ i # n
      BY <1>3, <3>2
    <3>4. HasFailed(k - 1)' /\ internalMsgs'[k - 1] = internalMsgs[k]
      BY <1>5, <3>1, <3>3, Zenon
    <3>5. \A i \in DOMAIN internalMsgs' : i < k - 1 => ~HasFailed(i)'
      BY <1>5, <3>1, <3>3, Zenon
    <3> QED
      BY <1>1, <2>2, <3>1, <3>3, <3>4, <3>5, Zenon
  <2> QED
    BY <2>1, <2>2, Zenon
<1> QED
  BY <1>8, <1>9, <1>10, <1>11, Zenon DEF Turned

(* The first message goes to the queue of its actor: nothing for that actor
   has failed in this call. *)
LEMMA PushOrder ==
  ASSUME LossInv, OrderInv, TryPushOk
  PROVE  OrderInv'
<1> SUFFICES ASSUME clean' PROVE OrderInv'
  BY Zenon DEF OrderInv
<1> DEFINE s == internalMsgs
<1>1. /\ clean /\ pc = "push" /\ pc' = "push" /\ s # <<>> /\ s' = Tail(s)
      /\ UNCHANGED <<failed, start>>
      /\ Foremost.to \in Actors /\ Len(queue[Foremost.to]) < Capacity
      /\ queue' = [queue EXCEPT ![Foremost.to] = Append(queue[Foremost.to], Foremost)]
  BY Zenon DEF TryPushOk, OrderInv
<1>2. IdsDiffer /\ PassedFirst /\ Turned
  BY <1>1, Zenon DEF OrderInv
<1>3. PICK a, m : a = Foremost.to /\ m = Foremost
  BY Zenon
<1>4. /\ a \in Actors /\ m \in Messages
      /\ Passed(a) \in Seq(Messages) /\ Passed(a)' = Append(Passed(a), m)
      /\ \A b \in Actors \ {a} : Passed(b)' = Passed(b)
  BY <1>3, PushLoss, Zenon
<1>5. queue \in [Actors -> Seq(Messages)]
  BY Zenon DEF LossInv, TypeOK
<1>6. 1 \in DOMAIN s /\ m = s[1] /\ m.to = a
      /\ \A i \in DOMAIN s' : i + 1 \in DOMAIN s /\ s'[i] = s[i + 1] /\ 1 < i + 1
  BY <1>1, <1>3, TailOrder, Zenon DEF Foremost
<1>7. ~HasFailed(1)
  <2>1. Len(queue[a]) \in Nat /\ Len(queue[a]) < Capacity
    BY <1>1, <1>3, <1>4, <1>5
  <2> QED
    BY <1>6, <1>2, <2>1, DispatchAssumption DEF Turned
<1>8. ASSUME NEW b \in Actors, Len(queue[b]) >= Capacity PROVE Len(queue'[b]) >= Capacity
  <2>1. b # a
    BY <1>1, <1>3, <1>5, <1>8, DispatchAssumption
  <2> QED
    BY <1>1, <1>3, <1>5, <1>8, <2>1, Zenon
<1>9. Turned'
  BY <1>1, <1>2, <1>7, <1>8, TurnedTail, Zenon
<1>10. IdsDiffer'
  BY <1>1, <1>2, TailOrder, Zenon
<1>11. \A i \in DOMAIN s' : s'[i].to = a => m.num < s'[i].num
  <2> SUFFICES ASSUME NEW i \in DOMAIN s', s'[i].to = a PROVE m.num < s'[i].num
    BY Zenon
  <2>1. i + 1 \in DOMAIN s /\ s'[i] = s[i + 1] /\ 1 < i + 1
    BY <1>6, Zenon
  <2>2. ~HasFailed(i + 1)
    <3> SUFFICES ASSUME HasFailed(i + 1) PROVE FALSE
      BY Zenon
    <3>1. Len(queue[a]) >= Capacity
      BY <1>2, <2>1, Zenon DEF Turned
    <3> QED
      BY <1>1, <1>3, <1>5, <3>1, DispatchAssumption
  <2> QED
    BY <1>2, <1>6, <1>7, <2>1, <2>2, Zenon DEF Turned
<1>12. PassedFirst'
  <2>1. ASSUME NEW b \in Actors, b # a
        PROVE  /\ Ascending(Passed(b)')
               /\ \A k \in DOMAIN Passed(b)' : \A i \in DOMAIN s' :
                    s'[i].to = b => Passed(b)'[k].num < s'[i].num
    BY <1>2, <1>4, <1>6, <2>1, Zenon DEF PassedFirst
  <2>2. Ascending(Passed(a)')
    BY <1>2, <1>4, <1>6, AppendNums, Zenon DEF PassedFirst
  <2>3. ASSUME NEW k \in DOMAIN Passed(a)', NEW i \in DOMAIN s', s'[i].to = a
        PROVE  Passed(a)'[k].num < s'[i].num
    <3>1. DOMAIN Passed(a)' = 1 .. Len(Passed(a)) + 1 /\ DOMAIN Passed(a) = 1 .. Len(Passed(a))
          /\ Len(Passed(a)) \in Nat
          /\ (\A j \in 1 .. Len(Passed(a)) : Passed(a)'[j] = Passed(a)[j])
          /\ Passed(a)'[Len(Passed(a)) + 1] = m
      BY <1>4, AppendLine
    <3>2. CASE k = Len(Passed(a)) + 1
      BY <1>11, <2>3, <3>1, <3>2, Zenon
    <3>3. CASE k # Len(Passed(a)) + 1
      <4>1. k \in DOMAIN Passed(a) /\ Passed(a)'[k] = Passed(a)[k]
        BY <3>1, <3>3
      <4> QED
        BY <1>2, <1>4, <1>6, <2>3, <4>1, Zenon DEF PassedFirst
    <3> QED
      BY <3>2, <3>3, Zenon
  <2> QED
    BY <2>1, <2>2, <2>3, Zenon DEF PassedFirst
<1> QED
  BY <1>1, <1>9, <1>10, <1>12, Zenon DEF OrderInv

(* A message for an unknown actor leaves; it has not failed. *)
LEMMA FreeOrder ==
  ASSUME LossInv, OrderInv, NoSuchActor
  PROVE  OrderInv'
<1> SUFFICES ASSUME clean' PROVE OrderInv'
  BY Zenon DEF OrderInv
<1>1. /\ clean /\ pc = "push" /\ pc' = "push" /\ internalMsgs # <<>>
      /\ internalMsgs' = Tail(internalMsgs) /\ queue' = queue
      /\ UNCHANGED <<failed, start>> /\ internalMsgs[1].to \notin Actors
  BY Zenon DEF NoSuchActor, OrderInv, Foremost, actors
<1>2. IdsDiffer /\ PassedFirst /\ Turned
  BY <1>1, Zenon DEF OrderInv
<1>3. 1 \in DOMAIN internalMsgs
      /\ \A i \in DOMAIN internalMsgs' : i + 1 \in DOMAIN internalMsgs /\ internalMsgs'[i] = internalMsgs[i + 1]
  BY <1>1, TailOrder, Zenon
<1>4. ~HasFailed(1)
  BY <1>1, <1>2, <1>3, Zenon DEF Turned
<1>5. Turned'
  BY <1>1, <1>2, <1>4, TurnedTail, Zenon
<1>6. IdsDiffer'
  BY <1>1, <1>2, TailOrder, Zenon
<1>7. \A a \in Actors : Passed(a)' = Passed(a)
  BY Zenon DEF NoSuchActor, actors, Passed
<1>8. PassedFirst'
  BY <1>2, <1>3, <1>7, Zenon DEF PassedFirst
<1> QED
  BY <1>1, <1>5, <1>6, <1>8, Zenon DEF OrderInv

(* A message that failed goes to the back. *)
LEMMA TurnOrder ==
  ASSUME LossInv, OrderInv, TryPushErr
  PROVE  OrderInv'
<1> SUFFICES ASSUME clean' PROVE OrderInv'
  BY Zenon DEF OrderInv
<1>1. /\ clean /\ pc = "push" /\ pc' = "push" /\ internalMsgs # <<>>
      /\ internalMsgs' = Append(Tail(internalMsgs), internalMsgs[1])
  BY Zenon DEF TryPushErr, QueueFull, OrderInv, Foremost
<1>2. IdsDiffer /\ PassedFirst /\ Turned
  BY <1>1, Zenon DEF OrderInv
<1>3. Turned'
  BY <1>2, TurnedTurn, Zenon
<1>4. PICK n : n = Len(internalMsgs)
  BY Zenon
<1>5. /\ DOMAIN internalMsgs' = 1 .. n /\ DOMAIN internalMsgs = 1 .. n /\ n \in Nat \ {0}
      /\ \A i \in 1 .. n - 1 : internalMsgs'[i] = internalMsgs[i + 1]
      /\ internalMsgs'[n] = internalMsgs[1]
  BY <1>1, <1>4, TurnLine, Zenon DEF LossInv, TypeOK
<1>6. \A i \in DOMAIN internalMsgs' :
        \E j \in DOMAIN internalMsgs :
          internalMsgs'[i] = internalMsgs[j] /\ j = IF i = n THEN 1 ELSE i + 1
  BY <1>5
<1>7. IdsDiffer'
  <2> SUFFICES ASSUME NEW i \in DOMAIN internalMsgs', NEW j \in DOMAIN internalMsgs',
                      internalMsgs'[i].id = internalMsgs'[j].id
               PROVE  i = j
    BY Zenon DEF IdsDiffer
  <2>1. (IF i = n THEN 1 ELSE i + 1) = (IF j = n THEN 1 ELSE j + 1)
    BY <1>2, <1>6, Zenon DEF IdsDiffer
  <2> QED
    BY <1>5, <2>1
<1>8. \A a \in Actors : Passed(a)' = Passed(a)
  BY Zenon DEF TryPushErr, QueueFull, actors, Passed
<1>9. PassedFirst'
  BY <1>2, <1>6, <1>8, Zenon DEF PassedFirst
<1> QED
  BY <1>1, <1>3, <1>7, <1>9, Zenon DEF OrderInv

(* A call that ends because the cycle is closed has brought internal_msgs back
   to its order: all that waits has failed. *)
LEMMA CycleOrder ==
  ASSUME LossInv, OrderInv, CycleClosed
  PROVE  OrderInv'
<1> SUFFICES ASSUME clean' PROVE OrderInv'
  BY Zenon DEF OrderInv
<1>1. /\ clean /\ pc = "push" /\ pc' # "push" /\ internalMsgs # <<>>
      /\ internalMsgs' = internalMsgs /\ internalMsgs[1].id \in start
  BY Zenon DEF CycleClosed, QueueFull, OrderInv, Foremost, Return
<1>2. IdsDiffer /\ PassedFirst /\ Turned
  BY <1>1, Zenon DEF OrderInv
<1>3. DOMAIN internalMsgs = 1 .. Len(internalMsgs) /\ Len(internalMsgs) \in Nat \ {0}
  BY <1>1, TailLine, Zenon DEF LossInv, TypeOK
<1>4. 1 \in DOMAIN internalMsgs /\ \A j \in DOMAIN internalMsgs : j # 1 => 1 < j
  BY <1>3
<1>5. start \in {{}} \cup {{i} : i \in Ids}
  BY Zenon DEF LossInv, TypeOK
<1>6. PICK k \in DOMAIN internalMsgs : HasFailed(k) /\ internalMsgs[k].id \in start
  BY <1>1, <1>2, Zenon DEF Turned
<1>7. k = 1
  BY <1>1, <1>2, <1>4, <1>5, <1>6 DEF IdsDiffer
<1>8. \A j \in DOMAIN internalMsgs : HasFailed(j)
  BY <1>2, <1>4, <1>6, <1>7, Zenon DEF Turned
<1>9. Ascending(internalMsgs)
  BY <1>2, <1>8, Zenon DEF Turned, Ascending
<1>10. \A a \in Actors : Passed(a)' = Passed(a)
  BY Zenon DEF CycleClosed, QueueFull, actors, Passed
<1>11. IdsDiffer' /\ PassedFirst'
  BY <1>1, <1>2, <1>10, Zenon DEF IdsDiffer, PassedFirst
<1> QED
  BY <1>1, <1>9, <1>11, Zenon DEF OrderInv

(* A call that begins has turned nothing. *)
LEMMA CallOrder ==
  ASSUME LossInv, OrderInv, pc # "push", Call
  PROVE  OrderInv'
<1> SUFFICES ASSUME clean' PROVE OrderInv'
  BY Zenon DEF OrderInv
<1>1. /\ clean /\ pc' = "push" /\ internalMsgs' = internalMsgs /\ start' = {} /\ failed' = {}
  BY Zenon DEF Call, OrderInv
<1>2. IdsDiffer /\ PassedFirst /\ Ascending(internalMsgs)
  BY <1>1, Zenon DEF OrderInv
<1>3. \A a \in Actors : Passed(a)' = Passed(a)
  BY Zenon DEF Call, actors, Passed
<1>4. IdsDiffer' /\ PassedFirst'
  BY <1>1, <1>2, <1>3, Zenon DEF IdsDiffer, PassedFirst
<1>5. \A i \in DOMAIN internalMsgs' : ~HasFailed(i)'
  BY <1>1, Zenon DEF HasFailed
<1>6. Turned'
  BY <1>1, <1>2, <1>5, Zenon DEF Turned, Ascending
<1> QED
  BY <1>1, <1>4, <1>6, Zenon DEF OrderInv

(* Every step of the server and of the actors. *)
LEMMA StepOrderInv == LossInv /\ OrderInv /\ [Next]_vars => OrderInv'
<1> SUFFICES ASSUME LossInv, OrderInv, [Next]_vars PROVE OrderInv'
  BY Zenon
<1>1. ASSUME internalMsgs' = internalMsgs, clean' => clean, pc # "push", pc' # "push",
             \A a \in Actors : Passed(a)' = Passed(a)
      PROVE  OrderInv'
  BY <1>1, Zenon DEF OrderInv, IdsDiffer, PassedFirst
<1>2. CASE PollOk \/ PassDone \/ Handled
  <2>1. \A a \in Actors : Passed(a)' = Passed(a)
    BY <1>2, Zenon DEF PollOk, PassDone, Handled, actors, Passed
  <2> QED
    BY <1>1, <1>2, <2>1, Zenon DEF PollOk, PassDone, Handled
<1>3. CASE PollErr \/ NextEvent
  BY <1>3, CallOrder, Zenon DEF PollErr, NextEvent
<1>4. CASE AllSent
  <2>1. \A a \in Actors : Passed(a)' = Passed(a)
    BY <1>4, Zenon DEF AllSent, actors, Passed
  <2>2. internalMsgs = <<>> /\ internalMsgs' = internalMsgs /\ pc' # "push" /\ clean' = clean
    BY <1>4, Zenon DEF AllSent, Return
  <2>3. Ascending(<<>>)
    BY DEF Ascending
  <2> QED
    BY <2>1, <2>2, <2>3, Zenon DEF OrderInv, IdsDiffer, PassedFirst
<1>5. CASE CycleClosed
  BY <1>5, CycleOrder, Zenon
<1>6. CASE TryPushOk
  BY <1>6, PushOrder, Zenon
<1>7. CASE TryPushErr
  BY <1>7, TurnOrder, Zenon
<1>8. CASE NoSuchActor
  BY <1>8, FreeOrder, Zenon
<1>9. ASSUME NEW to \in Actors \cup {Stranger}, NEW id \in Ids, Enqueue(to, id) PROVE OrderInv'
  BY <1>9, EnqueueOrder, Zenon
<1>10. ASSUME NEW a \in Actors, Pop(a) PROVE OrderInv'
  <2>1. \A b \in Actors : Passed(b)' = Passed(b)
    BY <1>10, PopLoss, Zenon
  <2>2. internalMsgs' = internalMsgs /\ pc' = pc /\ clean' = (clean /\ pc # "push")
    BY <1>10, Zenon DEF Pop
  <2>3. CASE pc = "push"
    BY <2>2, <2>3, Zenon DEF OrderInv
  <2>4. CASE pc # "push"
    BY <1>1, <2>1, <2>2, <2>4, Zenon
  <2> QED
    BY <2>3, <2>4, Zenon
<1>11. CASE UNCHANGED vars
  <2>1. \A a \in Actors : Passed(a)' = Passed(a)
    BY <1>11, Zenon DEF vars, actors, Passed
  <2>2. UNCHANGED <<internalMsgs, queue, start, pc, failed, clean>>
    BY <1>11, Zenon DEF vars, actors
  <2>3. Turned => Turned'
    BY <2>2, Zenon DEF Turned, HasFailed
  <2> QED
    BY <2>1, <2>2, <2>3, Zenon DEF OrderInv, IdsDiffer, PassedFirst
<1> QED
  BY <1>2, <1>3, <1>4, <1>5, <1>6, <1>7, <1>8, <1>9, <1>10, <1>11, Zenon
     DEF Next, Server, TryPush

-----------------------------------------------------------------------------
(* DispatchInv holds always. *)
THEOREM DispatchInvariance == Spec => []DispatchInv
<1>1. Init => DispatchInv
  BY InitLossInv, InitOrderInv, Zenon DEF DispatchInv
<1>2. DispatchInv /\ [Next]_vars => DispatchInv'
  BY StepLossInv, StepOrderInv, Zenon DEF DispatchInv
<1>3. QED
  BY <1>1, <1>2, PTL DEF Spec

(* Every message that a handler enqueued is in exactly one place: waiting in
   internal_msgs, sent to one actor, or given up for want of one. *)
THEOREM NoMessageLost == Spec => []NothingLost
<1>1. DispatchInv => NothingLost
  BY Zenon DEF DispatchInv, LossInv
<1>2. QED
  BY <1>1, DispatchInvariance, PTL

(* A line that follows another one. *)
LEMMA AscendingConcat ==
  ASSUME NEW s \in Seq(Messages), NEW t \in Seq(Messages), Ascending(s), Ascending(t),
         \A k \in DOMAIN s : \A i \in DOMAIN t : t[i].to = s[k].to => s[k].num < t[i].num
  PROVE  Ascending(s \o t)
<1> DEFINE l == s \o t
<1>1. /\ DOMAIN l = 1 .. Len(s) + Len(t) /\ DOMAIN s = 1 .. Len(s) /\ DOMAIN t = 1 .. Len(t)
      /\ Len(s) \in Nat /\ Len(t) \in Nat
      /\ \A i \in 1 .. Len(s) + Len(t) : l[i] = IF i <= Len(s) THEN s[i] ELSE t[i - Len(s)]
  OBVIOUS
<1> HIDE DEF l
<1>2. ASSUME NEW i \in DOMAIN l, NEW j \in DOMAIN l, i < j, l[i].to = l[j].to
      PROVE  l[i].num < l[j].num
  <2>1. CASE j <= Len(s)
    <3>1. i \in DOMAIN s /\ j \in DOMAIN s /\ l[i] = s[i] /\ l[j] = s[j]
      BY <1>1, <1>2, <2>1
    <3> QED
      BY <1>2, <3>1, Zenon DEF Ascending
  <2>2. CASE i <= Len(s) /\ j > Len(s)
    <3>1. i \in DOMAIN s /\ j - Len(s) \in DOMAIN t /\ l[i] = s[i] /\ l[j] = t[j - Len(s)]
      BY <1>1, <2>2
    <3> QED
      BY <1>2, <3>1, Zenon
  <2>3. CASE i > Len(s)
    <3>1. /\ i - Len(s) \in DOMAIN t /\ j - Len(s) \in DOMAIN t /\ i - Len(s) < j - Len(s)
          /\ l[i] = t[i - Len(s)] /\ l[j] = t[j - Len(s)]
      BY <1>1, <1>2, <2>3
    <3> QED
      BY <1>2, <3>1, Zenon DEF Ascending
  <2> QED
    BY <1>1, <1>2, <2>1, <2>2, <2>3
<1> QED
  BY <1>2, Zenon DEF Ascending, l

(* Between calls of internal_try_push the messages for an actor are in the
   order of enqueue_internal, as long as the conditions of clean are met. *)
THEOREM OrderIsKept == Spec => []OrderKept
<1>1. DispatchInv => OrderKept
  <2> SUFFICES ASSUME DispatchInv, clean, pc # "push", NEW a \in Actors
               PROVE  Ascending(Passed(a) \o internalMsgs)
    BY Zenon DEF OrderKept
  <2>1. PassedFirst /\ Ascending(internalMsgs)
    BY Zenon DEF DispatchInv, OrderInv
  <2>2. internalMsgs \in Seq(Messages) /\ taken[a] \in Seq(Messages) /\ queue[a] \in Seq(Messages)
    BY Zenon DEF DispatchInv, LossInv, TypeOK
  <2>3. Passed(a) \in Seq(Messages)
    BY <2>2, PassedLine, Zenon DEF Passed
  <2>4. \A k \in DOMAIN Passed(a) : Passed(a)[k].to = a
    BY Zenon DEF DispatchInv, LossInv, Delivers
  <2> QED
    BY <2>1, <2>2, <2>3, <2>4, AscendingConcat, Zenon DEF PassedFirst
<1>2. QED
  BY <1>1, DispatchInvariance, PTL
=============================================================================
