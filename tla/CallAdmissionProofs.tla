-------------------------- MODULE CallAdmissionProofs --------------------------
(***************************************************************************)
(* What the tickets of InputOrder guarantee for any number of calls and    *)
(* desktops: no call is skipped or left asleep at its own turn, and the    *)
(* order implements TurnOrder. And what holds of whole calls, for any      *)
(* requests, desktops and permits: CallAdmission takes steps of InputOrder *)
(* only, and input_gate keeps a desktop to one driver although an ordered  *)
(* call and a viewer call reach it by different ways.                      *)
(*                                                                         *)
(* OrderInv is inductive. Its first part says where the tickets are: every *)
(* number between the two counters is either retired or the ticket of one  *)
(* call still there, and the one being served is not retired. Retire keeps *)
(* that because it moves the counter to the first number still out.        *)
(***************************************************************************)
EXTENDS CallAdmission, TLAPS


(* Every ticket handed out and not served yet is retired or still held.    *)
EveryTicketHeld ==
  \A o \in Desktops, n \in Nat :
    (serving[o] <= n /\ n < next[o] /\ n \notin done[o])
      => \E c \in Calls : Desktop[c] = o /\ Outstanding(c) /\ ticket[c] = n

OrderInv ==
  /\ OrderTypeOK
  /\ RetiredAreAhead
  /\ TicketsInRange
  /\ TicketsDiffer
  /\ AdmittedIsServed
  /\ EveryTicketHeld
  /\ NoLostWakeup

USE OrderAssumption

(* The fields a step of one call leaves alone, and the type after it.      *)
LEMMA OrderTypeStep ==
  ASSUME OrderTypeOK, [OrderNext]_orderVars
  PROVE  OrderTypeOK'
<1> USE DEF OrderTypeOK, Waits
<1>1. CASE UNCHANGED orderVars
  BY <1>1 DEF orderVars
<1>2. ASSUME NEW c \in Calls, Enqueue(c) PROVE OrderTypeOK'
  BY <1>2 DEF Enqueue
<1>3. ASSUME NEW c \in Calls, Enable(c) PROVE OrderTypeOK'
  BY <1>3 DEF Enable
<1>4. ASSUME NEW c \in Calls, Check(c) PROVE OrderTypeOK'
  BY <1>4 DEF Check
<1>5. ASSUME NEW c \in Calls, Await(c) PROVE OrderTypeOK'
  BY <1>5 DEF Await
<1>6. ASSUME NEW c \in Calls, Retire(c) PROVE OrderTypeOK'
  BY <1>6 DEF Retire
<1>7. ASSUME NEW c \in Calls, Notify(c) PROVE OrderTypeOK'
  BY <1>7 DEF Notify
<1>. QED
  BY <1>1, <1>2, <1>3, <1>4, <1>5, <1>6, <1>7 DEF OrderNext

(* A new ticket starts at the top of the counters: the next number, or 0   *)
(* in an order nobody holds any more.                                      *)
LEMMA EnqueueEffect ==
  ASSUME OrderInv, NEW c \in Calls, Enqueue(c)
  PROVE  /\ ticket'[c] = next'[Desktop[c]] - 1
         /\ serving'[Desktop[c]] <= ticket'[c]
         /\ ticket'[c] \notin done'[Desktop[c]]
         /\ \A d \in Calls : d # c /\ Desktop[d] = Desktop[c] /\ Outstanding(d) =>
              /\ UNCHANGED <<serving, done>>
              /\ ticket'[c] = next[Desktop[c]]
         /\ \/ UNCHANGED <<serving, done>> /\ ticket'[c] = next[Desktop[c]]
            \/ ticket'[c] = 0 /\ serving'[Desktop[c]] = 0
BY DEF OrderInv, OrderTypeOK, RetiredAreAhead, Enqueue, Restarts, Rivals, KeepsOrder

(* Drop moves the counter past retired tickets only, so every ticket still *)
(* out stays at or above it.                                               *)
LEMMA RetireEffect ==
  ASSUME OrderInv, NEW c \in Calls, Retire(c)
  PROVE  /\ serving'[Desktop[c]] \in Nat
         /\ serving[Desktop[c]] <= serving'[Desktop[c]]
         /\ serving'[Desktop[c]] <= next[Desktop[c]]
         /\ serving'[Desktop[c]] \notin done[Desktop[c]] \cup {ticket[c]}
         /\ \A m \in Nat :
              serving[Desktop[c]] <= m /\ m < serving'[Desktop[c]]
                => m \in done[Desktop[c]] \cup {ticket[c]}
         /\ done'[Desktop[c]] =
              {m \in done[Desktop[c]] \cup {ticket[c]} : m >= serving'[Desktop[c]]}
         /\ \A o \in Desktops \ {Desktop[c]} :
              serving'[o] = serving[o] /\ done'[o] = done[o]
<1> DEFINE o == Desktop[c]
           retired == done[o] \cup {ticket[c]}
<1>1. PICK n \in serving[o] .. next[o] :
        /\ n \notin retired
        /\ \A m \in serving[o] .. n - 1 : m \in retired
        /\ serving' = [serving EXCEPT ![o] = n]
        /\ done' = [done EXCEPT ![o] = {m \in retired : m >= n}]
  BY DEF Retire
<1>2. serving'[o] = n /\ n \in Nat /\ serving[o] \in Nat /\ next[o] \in Nat
  BY <1>1 DEF OrderInv, OrderTypeOK
<1>3. \A m \in Nat : serving[o] <= m /\ m < n => m \in serving[o] .. n - 1
  BY <1>2
<1>4. done'[o] = {m \in retired : m >= n}
  BY <1>1 DEF OrderInv, OrderTypeOK
<1>. QED
  BY <1>1, <1>2, <1>3, <1>4 DEF OrderInv, OrderTypeOK

LEMMA RetiredAreAheadStep ==
  ASSUME OrderInv, [OrderNext]_orderVars
  PROVE  RetiredAreAhead'
<1> USE DEF RetiredAreAhead
<1>0. OrderTypeOK /\ RetiredAreAhead
  BY DEF OrderInv
<1>1. CASE UNCHANGED orderVars
  BY <1>0, <1>1 DEF orderVars
<1>2. ASSUME NEW c \in Calls, Enqueue(c) PROVE RetiredAreAhead'
  BY <1>0, <1>2 DEF Enqueue, OrderTypeOK
<1>3. ASSUME NEW c \in Calls, Enable(c) \/ Check(c) \/ Await(c) \/ Notify(c)
      PROVE  RetiredAreAhead'
  BY <1>0, <1>3 DEF Enable, Check, Await, Notify
<1>4. ASSUME NEW c \in Calls, Retire(c) PROVE RetiredAreAhead'
  <2>1. ticket[c] < next[Desktop[c]] /\ ticket[c] \in Nat
    BY <1>4 DEF Retire, OrderInv, TicketsInRange, Outstanding, OrderTypeOK
  <2>2. next' = next
    BY <1>4 DEF Retire
  <2>3. \A m \in done'[Desktop[c]] :
          serving'[Desktop[c]] < m /\ m < next[Desktop[c]]
    <3>1. \A m \in done[Desktop[c]] \cup {ticket[c]} : m \in Nat /\ m < next[Desktop[c]]
      BY <1>0, <2>1 DEF OrderTypeOK
    <3>2. \A m \in done'[Desktop[c]] :
            /\ m \in done[Desktop[c]] \cup {ticket[c]}
            /\ m >= serving'[Desktop[c]]
      <4>1. done'[Desktop[c]] =
              {m \in done[Desktop[c]] \cup {ticket[c]} : m >= serving'[Desktop[c]]}
        BY <1>4, RetireEffect, Zenon
      <4>. QED
        BY <4>1
    <3>3. /\ serving'[Desktop[c]] \in Nat
          /\ serving'[Desktop[c]] \notin done[Desktop[c]] \cup {ticket[c]}
      BY <1>4, RetireEffect, Zenon
    <3>. QED
      BY <3>1, <3>2, <3>3
  <2>4. serving'[Desktop[c]] <= next[Desktop[c]]
    BY <1>4, RetireEffect
  <2>5. \A o \in Desktops \ {Desktop[c]} : serving'[o] = serving[o] /\ done'[o] = done[o]
    BY <1>4, RetireEffect
  <2>. QED
    BY <1>0, <2>2, <2>3, <2>4, <2>5
<1>. QED
  BY <1>1, <1>2, <1>3, <1>4 DEF OrderNext

LEMMA TicketsInRangeStep ==
  ASSUME OrderInv, [OrderNext]_orderVars
  PROVE  TicketsInRange'
<1> USE DEF TicketsInRange, Outstanding, Listening
<1>0. OrderTypeOK /\ TicketsInRange
  BY DEF OrderInv
<1>1. CASE UNCHANGED orderVars
  BY <1>0, <1>1 DEF orderVars
<1>2. ASSUME NEW c \in Calls, Enqueue(c) PROVE TicketsInRange'
  <2>1. \A d \in Calls : d # c =>
          ticket'[d] = ticket[d] /\ wait'[d] = wait[d] /\ (Outstanding(d)' => Outstanding(d))
    BY <1>0, <1>2 DEF Enqueue, OrderTypeOK
  <2>2. /\ serving'[Desktop[c]] <= ticket'[c]
        /\ ticket'[c] < next'[Desktop[c]]
        /\ ticket'[c] \notin done'[Desktop[c]]
    BY <1>0, <1>2, EnqueueEffect, OrderTypeStep DEF OrderTypeOK, OrderNext
  <2>3. ASSUME NEW d \in Calls, d # c, Outstanding(d), Desktop[d] = Desktop[c]
        PROVE  /\ serving'[Desktop[d]] <= ticket[d]
               /\ ticket[d] < next'[Desktop[d]]
               /\ ticket[d] \notin done'[Desktop[d]]
    <3>1. UNCHANGED <<serving, done>> /\ ticket'[c] = next[Desktop[c]]
          /\ ticket'[c] = next'[Desktop[c]] - 1
      BY <1>2, <2>3, EnqueueEffect
    <3>2. next'[Desktop[c]] \in Int
      BY <1>2, OrderTypeStep, <1>0 DEF OrderTypeOK, OrderNext
    <3>3. /\ serving[Desktop[d]] <= ticket[d]
          /\ ticket[d] < next[Desktop[c]]
          /\ ticket[d] \notin done[Desktop[d]]
      BY <1>0, <2>3
    <3>4. next[Desktop[c]] \in Int /\ ticket[d] \in Int
      BY <1>0 DEF OrderTypeOK
    <3>5. ticket[d] < next'[Desktop[c]]
      BY <3>1, <3>2, <3>3, <3>4
    <3>. QED
      BY <2>3, <3>1, <3>3, <3>5
  <2>4. \A o \in Desktops \ {Desktop[c]} :
          serving'[o] = serving[o] /\ done'[o] = done[o] /\ next'[o] = next[o]
    BY <1>0, <1>2 DEF Enqueue, OrderTypeOK
  <2>. QED
    BY <1>0, <2>1, <2>2, <2>3, <2>4
<1>3. ASSUME NEW c \in Calls, Enable(c) \/ Check(c) \/ Await(c) \/ Notify(c)
      PROVE  TicketsInRange'
  BY <1>0, <1>3 DEF Enable, Check, Await, Notify, OrderTypeOK
<1>4. ASSUME NEW c \in Calls, Retire(c) PROVE TicketsInRange'
  <2>1. SUFFICES ASSUME NEW d \in Calls, Outstanding(d)'
                 PROVE  /\ serving'[Desktop[d]] <= ticket[d]
                        /\ ticket[d] \notin done'[Desktop[d]]
    BY <1>0, <1>4 DEF Retire, OrderTypeOK
  <2>2. d # c /\ Outstanding(d)
    BY <1>0, <1>4, <2>1 DEF Retire, OrderTypeOK
  <2>3. CASE Desktop[d] = Desktop[c]
    <3>1. ticket[d] # ticket[c] /\ ticket[d] \in Nat /\ ticket[d] \notin done[Desktop[c]]
      BY <1>0, <1>4, <2>2, <2>3 DEF Retire, OrderInv, TicketsDiffer, OrderTypeOK
    <3>. QED
      BY <1>0, <1>4, <2>2, <2>3, <3>1, RetireEffect DEF OrderTypeOK
  <2>4. CASE Desktop[d] # Desktop[c]
    BY <1>0, <1>4, <2>2, <2>4, RetireEffect
  <2>. QED
    BY <2>3, <2>4
<1>. QED
  BY <1>1, <1>2, <1>3, <1>4 DEF OrderNext

LEMMA TicketsDifferStep ==
  ASSUME OrderInv, [OrderNext]_orderVars
  PROVE  TicketsDiffer'
<1> USE DEF TicketsDiffer, Outstanding, Listening
<1>0. OrderTypeOK /\ TicketsDiffer /\ TicketsInRange
  BY DEF OrderInv
<1>1. CASE UNCHANGED orderVars
  BY <1>0, <1>1 DEF orderVars
<1>2. ASSUME NEW c \in Calls, Enqueue(c) PROVE TicketsDiffer'
  <2>1. \A d \in Calls : d # c => ticket'[d] = ticket[d] /\ wait'[d] = wait[d]
    BY <1>0, <1>2 DEF Enqueue, OrderTypeOK
  <2>2. \A d \in Calls : d # c /\ Desktop[d] = Desktop[c] /\ Outstanding(d)
          => ticket[d] < ticket'[c]
    BY <1>0, <1>2, EnqueueEffect DEF TicketsInRange, OrderTypeOK
  <2>. QED
    BY <1>0, <2>1, <2>2 DEF OrderTypeOK
<1>3. ASSUME NEW c \in Calls, Enable(c) \/ Check(c) \/ Await(c) \/ Notify(c) \/ Retire(c)
      PROVE  TicketsDiffer'
  BY <1>0, <1>3 DEF Enable, Check, Await, Notify, Retire, OrderTypeOK
<1>. QED
  BY <1>1, <1>2, <1>3 DEF OrderNext

LEMMA AdmittedIsServedStep ==
  ASSUME OrderInv, [OrderNext]_orderVars
  PROVE  AdmittedIsServed'
<1> USE DEF AdmittedIsServed
<1>0. OrderTypeOK /\ AdmittedIsServed /\ TicketsInRange /\ TicketsDiffer
  BY DEF OrderInv
<1>1. CASE UNCHANGED orderVars
  BY <1>0, <1>1 DEF orderVars
<1>2. ASSUME NEW c \in Calls, Enqueue(c) PROVE AdmittedIsServed'
  <2>1. \A d \in Calls : wait'[d] = "admitted" =>
          d # c /\ wait[d] = "admitted" /\ ticket'[d] = ticket[d]
    BY <1>0, <1>2 DEF Enqueue, OrderTypeOK
  <2>2. \A d \in Calls : d # c /\ wait[d] = "admitted" => serving'[Desktop[d]] = serving[Desktop[d]]
    <3>1. \A o \in Desktops \ {Desktop[c]} : serving'[o] = serving[o]
      BY <1>0, <1>2 DEF Enqueue, OrderTypeOK
    <3>. QED
      BY <1>2, <3>1, EnqueueEffect DEF Outstanding
  <2>. QED
    BY <1>0, <2>1, <2>2
<1>3. ASSUME NEW c \in Calls, Enable(c) \/ Check(c) \/ Await(c) \/ Notify(c)
      PROVE  AdmittedIsServed'
  BY <1>0, <1>3 DEF Enable, Check, Await, Notify, OrderTypeOK
<1>4. ASSUME NEW c \in Calls, Retire(c) PROVE AdmittedIsServed'
  <2>1. SUFFICES ASSUME NEW d \in Calls, wait'[d] = "admitted"
                 PROVE  ticket[d] = serving'[Desktop[d]]
    BY <1>4 DEF Retire
  <2>2. d # c /\ wait[d] = "admitted" /\ ticket[d] = serving[Desktop[d]]
    BY <1>0, <1>4, <2>1 DEF Retire, OrderTypeOK
  <2>3. CASE Desktop[d] = Desktop[c]
    \* The number served is still out, so the counter cannot pass it.
    <3>1. ticket[d] \notin done[Desktop[c]] \cup {ticket[c]}
      BY <1>0, <1>4, <2>2, <2>3 DEF Retire, TicketsInRange, TicketsDiffer, Outstanding
    <3>. QED
      BY <1>0, <1>4, <2>2, <2>3, <3>1, RetireEffect DEF OrderTypeOK
  <2>4. CASE Desktop[d] # Desktop[c]
    BY <1>4, <2>2, <2>4, RetireEffect
  <2>. QED
    BY <2>3, <2>4
<1>. QED
  BY <1>1, <1>2, <1>3, <1>4 DEF OrderNext

LEMMA EveryTicketHeldStep ==
  ASSUME OrderInv, [OrderNext]_orderVars
  PROVE  EveryTicketHeld'
<1> USE DEF EveryTicketHeld
<1>0. OrderTypeOK /\ EveryTicketHeld /\ TicketsInRange
  BY DEF OrderInv
<1>1. CASE UNCHANGED orderVars
  BY <1>0, <1>1 DEF orderVars, Outstanding, Listening
<1>2. ASSUME NEW c \in Calls, Enqueue(c) PROVE EveryTicketHeld'
  <2>1. SUFFICES ASSUME NEW o \in Desktops, NEW n \in Nat,
                        serving'[o] <= n, n < next'[o], n \notin done'[o]
                 PROVE  \E d \in Calls : Desktop[d] = o /\ Outstanding(d)' /\ ticket'[d] = n
    OBVIOUS
  <2>2. CASE o = Desktop[c] /\ n = ticket'[c]
    BY <1>0, <1>2, <2>2 DEF Enqueue, Outstanding, OrderTypeOK
  <2>3. CASE o = Desktop[c] /\ n # ticket'[c]
    <3>1. ticket'[c] = next'[o] - 1 /\ next'[o] \in Nat /\ serving'[o] \in Nat
      BY <1>0, <1>2, <2>3, EnqueueEffect, OrderTypeStep DEF OrderTypeOK, OrderNext
    <3>2. n < ticket'[c] /\ ticket'[c] = next[o] /\ serving' = serving /\ done' = done
      BY <1>2, <2>1, <2>3, <3>1, EnqueueEffect
    <3>3. PICK d \in Calls : Desktop[d] = o /\ Outstanding(d) /\ ticket[d] = n
      BY <1>0, <2>1, <3>2
    <3>4. d # c
      BY <1>2, <3>3 DEF Enqueue, Outstanding, Listening
    <3>5. Outstanding(d)' /\ ticket'[d] = n
      BY <1>0, <1>2, <3>3, <3>4 DEF Enqueue, Outstanding, Listening, OrderTypeOK
    <3>. QED
      BY <3>3, <3>5
  <2>4. CASE o # Desktop[c]
    <3>1. serving[o] <= n /\ n < next[o] /\ n \notin done[o]
      BY <1>0, <1>2, <2>1, <2>4 DEF Enqueue, OrderTypeOK
    <3>2. PICK d \in Calls : Desktop[d] = o /\ Outstanding(d) /\ ticket[d] = n
      BY <1>0, <3>1
    <3>. QED
      BY <1>0, <1>2, <2>4, <3>2 DEF Enqueue, Outstanding, Listening, OrderTypeOK
  <2>. QED
    BY <2>2, <2>3, <2>4
<1>3. ASSUME NEW c \in Calls, Enable(c) \/ Check(c) \/ Await(c) \/ Notify(c)
      PROVE  EveryTicketHeld'
  <2>1. \A d \in Calls : Outstanding(d) => Outstanding(d)'
    BY <1>0, <1>3 DEF Enable, Check, Await, Notify, Outstanding, Listening, OrderTypeOK
  <2>2. UNCHANGED <<next, serving, done, ticket>>
    BY <1>3 DEF Enable, Check, Await, Notify
  <2>. QED
    BY <1>0, <2>1, <2>2
<1>4. ASSUME NEW c \in Calls, Retire(c) PROVE EveryTicketHeld'
  <2>1. SUFFICES ASSUME NEW o \in Desktops, NEW n \in Nat,
                        serving'[o] <= n, n < next[o], n \notin done'[o]
                 PROVE  \E d \in Calls : Desktop[d] = o /\ Outstanding(d)' /\ ticket[d] = n
    BY <1>4 DEF Retire
  <2>2. serving[o] <= n /\ n \notin done[o] /\ (o = Desktop[c] => n # ticket[c])
    BY <1>0, <1>4, <2>1, RetireEffect DEF OrderTypeOK
  <2>3. PICK d \in Calls : Desktop[d] = o /\ Outstanding(d) /\ ticket[d] = n
    BY <1>0, <2>1, <2>2
  <2>4. d # c
    BY <2>2, <2>3
  <2>5. Outstanding(d)'
    BY <1>0, <1>4, <2>3, <2>4 DEF Retire, Outstanding, Listening, OrderTypeOK
  <2>. QED
    BY <2>3, <2>5
<1>. QED
  BY <1>1, <1>2, <1>3, <1>4 DEF OrderNext

(* Notifications: the Drop that moves the counter is the one that still    *)
(* has to notify, and it wakes every call that listens by then.            *)
LEMMA NoLostWakeupStep ==
  ASSUME OrderInv, [OrderNext]_orderVars
  PROVE  NoLostWakeup'
<1> USE DEF NoLostWakeup, Rivals
<1>0. OrderTypeOK /\ NoLostWakeup
  BY DEF OrderInv
<1>1. CASE UNCHANGED orderVars
  BY <1>0, <1>1 DEF orderVars
<1>2. ASSUME NEW c \in Calls, Enqueue(c) PROVE NoLostWakeup'
  <2>1. SUFFICES ASSUME NEW d \in Calls, wait'[d] \in {"unserved", "asleep"},
                        ticket'[d] = serving'[Desktop[d]]
                 PROVE  woken'[d] \/ \E e \in Rivals(d) : wait'[e] = "notifying"
    OBVIOUS
  <2>2. /\ d # c /\ wait[d] = wait'[d] /\ ticket[d] = ticket'[d]
        /\ Outstanding(d) /\ woken' = woken
    BY <1>0, <1>2, <2>1 DEF Enqueue, OrderTypeOK, Outstanding, Listening
  <2>3. serving'[Desktop[d]] = serving[Desktop[d]]
    <3>1. CASE Desktop[d] = Desktop[c]
      BY <1>2, <2>2, <3>1, EnqueueEffect
    <3>2. CASE Desktop[d] # Desktop[c]
      BY <1>0, <1>2, <3>2 DEF Enqueue, OrderTypeOK
    <3>. QED
      BY <3>1, <3>2
  <2>4. \A e \in Calls : wait[e] = "notifying" => wait'[e] = "notifying"
    BY <1>0, <1>2 DEF Enqueue, OrderTypeOK
  <2>. QED
    BY <1>0, <2>1, <2>2, <2>3, <2>4
<1>3. ASSUME NEW c \in Calls, Enable(c) \/ Check(c) \/ Await(c)
      PROVE  NoLostWakeup'
  <2>1. UNCHANGED <<serving, ticket>> /\ \A d \in Calls : d # c => UNCHANGED <<wait[d], woken[d]>>
    BY <1>0, <1>3 DEF Enable, Check, Await, OrderTypeOK
  <2>2. \A e \in Calls : wait[e] = "notifying" => wait'[e] = "notifying"
    BY <1>0, <1>3 DEF Enable, Check, Await, OrderTypeOK
  <2>3. wait'[c] \in {"unserved", "asleep"} =>
          \/ ticket[c] # serving[Desktop[c]]
          \/ wait[c] = "unserved" /\ woken'[c] = woken[c]
    BY <1>0, <1>3 DEF Enable, Check, Await, OrderTypeOK
  <2>. QED
    BY <1>0, <2>1, <2>2, <2>3
<1>4. ASSUME NEW c \in Calls, Retire(c) PROVE NoLostWakeup'
  <2>1. wait'[c] = "notifying" /\ UNCHANGED <<ticket, woken>>
    BY <1>0, <1>4 DEF Retire, OrderTypeOK
  <2>2. \A d \in Calls : d # c => wait'[d] = wait[d]
    BY <1>0, <1>4 DEF Retire, OrderTypeOK
  <2>3. \A o \in Desktops \ {Desktop[c]} : serving'[o] = serving[o]
    BY <1>4, RetireEffect
  <2>4. wait[c] # "notifying"
    BY <1>4 DEF Retire
  <2>. QED
    BY <1>0, <2>1, <2>2, <2>3, <2>4
<1>5. ASSUME NEW c \in Calls, Notify(c) PROVE NoLostWakeup'
  <2>1. UNCHANGED <<serving, ticket>> /\ \A d \in Calls : d # c => wait'[d] = wait[d]
    BY <1>0, <1>5 DEF Notify, OrderTypeOK
  <2>2. wait[c] = "notifying" /\ wait'[c] = "gone"
    BY <1>0, <1>5 DEF Notify, OrderTypeOK
  <2>3. \A d \in Calls : woken[d] => woken'[d]
    BY <1>5, Zenon DEF Notify
  <2>4. \A d \in Rivals(c) : wait[d] \in {"unserved", "asleep"} => woken'[d]
    BY <1>5, Zenon DEF Notify, Listening, Rivals
  <2>. QED
    BY <1>0, <2>1, <2>2, <2>3, <2>4
<1>. QED
  BY <1>1, <1>2, <1>3, <1>4, <1>5 DEF OrderNext

LEMMA OrderInitInv == OrderInit => OrderInv
BY DEF OrderInit, OrderInv, OrderTypeOK, Waits, RetiredAreAhead, TicketsInRange,
       TicketsDiffer, AdmittedIsServed, EveryTicketHeld, NoLostWakeup,
       Outstanding, Listening

LEMMA OrderStep == OrderInv /\ [OrderNext]_orderVars => OrderInv'
<1> SUFFICES ASSUME OrderInv, [OrderNext]_orderVars PROVE OrderInv'
  OBVIOUS
<1>. QED
  BY OrderTypeStep, RetiredAreAheadStep, TicketsInRangeStep, TicketsDifferStep,
     AdmittedIsServedStep, EveryTicketHeldStep, NoLostWakeupStep DEF OrderInv

(* The tickets stay in order, for any calls and desktops.                  *)
THEOREM OrderInvariance == OrderSpec => []OrderInv
BY OrderInitInv, OrderStep, PTL DEF OrderSpec

(* No call is left asleep at its own turn.                                 *)
THEOREM WakeupsArrive == OrderSpec => []NoLostWakeup
<1>1. OrderInv => NoLostWakeup
  BY DEF OrderInv
<1>. QED
  BY <1>1, OrderInvariance, PTL

(* The ticket being served always belongs to a call still there to retire. *)
LEMMA HeldMeansNobodySkipped == OrderInv => NobodySkipped
<1> SUFFICES ASSUME OrderInv, NEW o \in Desktops, serving[o] < next[o]
             PROVE  \E c \in Calls : Desktop[c] = o /\ Outstanding(c) /\ ticket[c] = serving[o]
  BY DEF NobodySkipped
<1>1. serving[o] \in Nat /\ serving[o] \notin done[o]
  BY DEF OrderInv, OrderTypeOK, RetiredAreAhead
<1>. QED
  BY <1>1 DEF OrderInv, EveryTicketHeld

THEOREM TurnsPass == OrderSpec => []NobodySkipped
BY OrderInvariance, HeldMeansNobodySkipped, PTL

-----------------------------------------------------------------------------
(* The tickets implement the arrival order.                                *)

LEMMA StageValues ==
  /\ StageOf("away") = "away"
  /\ StageOf("held") = "waiting" /\ StageOf("enabled") = "waiting"
  /\ StageOf("admitted") = "admitted"
  /\ StageOf("notifying") = "left"
BY DEF StageOf

LEMMA OrderInitRefines == OrderInit => Order!Init
BY DEF OrderInit, Order!Init, StageOf, Ahead, Outstanding, Listening

(* Turns that only change how their call waits leave the order alone: the  *)
(* stage and the calls ahead depend on who is out and on their tickets.    *)
LEMMA SameOrder ==
  ASSUME UNCHANGED ticket,
         \A c \in Calls : StageOf(wait'[c]) = StageOf(wait[c]),
         \A c \in Calls : Outstanding(c)' <=> Outstanding(c)
  PROVE  UNCHANGED Order!vars
BY DEF Order!vars, Ahead, Rivals

LEMMA EnqueueArrives ==
  ASSUME OrderInv, NEW c \in Calls, Enqueue(c)
  PROVE  Order!Arrive(c)
<1> USE DEF OrderTypeOK
<1>0. OrderTypeOK /\ TicketsInRange
  BY DEF OrderInv
<1>1. wait[c] = "away" /\ wait'[c] = "held"
  BY <1>0 DEF Enqueue
<1>2. \A d \in Calls : d # c => wait'[d] = wait[d] /\ ticket'[d] = ticket[d]
  BY <1>0 DEF Enqueue
<1>3. ~Outstanding(c) /\ Outstanding(c)' /\ \A d \in Calls : d # c => (Outstanding(d)' <=> Outstanding(d))
  BY <1>1, <1>2 DEF Outstanding, Listening
<1>4. \A d \in Rivals(c) : d # c /\ Outstanding(d) => ticket'[d] < ticket'[c]
  BY <1>0, <1>2, EnqueueEffect DEF TicketsInRange, Rivals
<1>5. Ahead(c)' = {d \in Rivals(c) : Outstanding(d)}
  BY <1>0, <1>3, <1>4, OrderTypeStep DEF Ahead, Rivals, OrderNext
<1>6. \A d \in Calls : d # c => Ahead(d)' = Ahead(d)
  <2>1. SUFFICES ASSUME NEW d \in Calls, d # c, Outstanding(d), c \in Rivals(d)
                 PROVE  ~(ticket'[c] < ticket[d])
    BY <1>2, <1>3 DEF Ahead, Rivals
  <2>2. ticket'[d] < ticket'[c] /\ ticket'[d] = ticket[d]
    BY <1>2, <1>4, <2>1 DEF Rivals
  <2>3. ticket'[c] \in Nat /\ ticket[d] \in Nat
    BY <1>0, OrderTypeStep DEF OrderNext
  <2>. QED
    BY <2>2, <2>3
<1>7. \A d \in Calls : Outstanding(d) <=> StageOf(wait[d]) \in {"waiting", "admitted"}
  BY <1>0 DEF StageOf, Outstanding, Listening, Waits
<1>8. \A d \in Calls : StageOf(wait'[d]) = IF d = c THEN "waiting" ELSE StageOf(wait[d])
  BY <1>1, <1>2, StageValues
<1>9. [d \in Calls |-> StageOf(wait'[d])] =
        [[d \in Calls |-> StageOf(wait[d])] EXCEPT ![c] = "waiting"]
  BY <1>8
<1>10. [d \in Calls |-> Ahead(d)'] =
         [[d \in Calls |-> Ahead(d)] EXCEPT ![c] = {d \in Rivals(c) : Outstanding(d)}]
  BY <1>5, <1>6
<1>11. {d \in Rivals(c) : Outstanding(d)} =
         {d \in Calls : Order!Present(d) /\ Desktop[d] = Desktop[c]}
  BY <1>7 DEF Order!Present, Rivals
<1>. QED
  BY <1>1, <1>9, <1>10, <1>11, StageValues DEF Order!Arrive

LEMMA CheckAdmits ==
  ASSUME OrderInv, NEW c \in Calls, Check(c)
  PROVE  Order!Admit(c) \/ UNCHANGED Order!vars
<1> USE DEF OrderTypeOK
<1>0. OrderTypeOK /\ TicketsInRange
  BY DEF OrderInv
<1>1. wait[c] = "enabled" /\ UNCHANGED <<ticket, serving>>
      /\ \A d \in Calls : d # c => wait'[d] = wait[d]
  BY <1>0 DEF Check
<1>2. \A d \in Calls : Outstanding(d)' <=> Outstanding(d)
  BY <1>0, <1>1 DEF Check, Outstanding, Listening
<1>3. CASE wait'[c] = "unserved"
  BY <1>1, <1>2, <1>3, SameOrder DEF StageOf
<1>4. CASE wait'[c] = "admitted"
  <2>1. serving[Desktop[c]] = ticket[c]
    BY <1>0, <1>4 DEF Check
  <2>2. Ahead(c) = {}
    BY <1>0, <2>1 DEF Ahead, Rivals, TicketsInRange
  <2>3. \A d \in Calls : Ahead(d)' = Ahead(d)
    BY <1>1, <1>2 DEF Ahead, Rivals
  <2>4. [d \in Calls |-> StageOf(wait'[d])] =
          [[d \in Calls |-> StageOf(wait[d])] EXCEPT ![c] = "admitted"]
    BY <1>1, <1>4, StageValues
  <2>5. [d \in Calls |-> Ahead(d)'] = [d \in Calls |-> Ahead(d)]
    BY <2>3
  <2>. QED
    BY <1>1, <2>2, <2>4, <2>5, StageValues DEF Order!Admit
<1>. QED
  BY <1>0, <1>3, <1>4 DEF Check

LEMMA RetireLeaves ==
  ASSUME OrderInv, NEW c \in Calls, Retire(c)
  PROVE  Order!Leave(c)
<1> USE DEF OrderTypeOK
<1>0. OrderTypeOK
  BY DEF OrderInv
<1>1. wait[c] \in {"held", "admitted"} /\ wait'[c] = "notifying" /\ UNCHANGED ticket
      /\ \A d \in Calls : d # c => wait'[d] = wait[d]
  BY <1>0 DEF Retire
<1>2. ~Outstanding(c)' /\ \A d \in Calls : d # c => (Outstanding(d)' <=> Outstanding(d))
  BY <1>1 DEF Outstanding, Listening
<1>3. \A d \in Calls : Ahead(d)' = IF d = c THEN {} ELSE Ahead(d) \ {c}
  BY <1>1, <1>2 DEF Ahead, Rivals
<1>4. [d \in Calls |-> StageOf(wait'[d])] =
        [[d \in Calls |-> StageOf(wait[d])] EXCEPT ![c] = "left"]
  BY <1>1, StageValues
<1>5. [d \in Calls |-> Ahead(d)'] =
        [d \in Calls |-> IF d = c THEN {} ELSE [x \in Calls |-> Ahead(x)][d] \ {c}]
  BY <1>3
<1>6. Order!Present(c)
  BY <1>1, StageValues DEF Order!Present
<1>. QED
  BY <1>4, <1>5, <1>6 DEF Order!Leave

LEMMA OrderStepRefines ==
  ASSUME OrderInv, [OrderNext]_orderVars
  PROVE  [Order!Next]_(Order!vars)
<1> USE DEF OrderTypeOK
<1>0. OrderTypeOK
  BY DEF OrderInv
<1>1. CASE UNCHANGED orderVars
  BY <1>1, SameOrder DEF orderVars, Outstanding, Listening
<1>2. ASSUME NEW c \in Calls, Enqueue(c) PROVE Order!Next
  BY <1>2, EnqueueArrives DEF Order!Next
<1>3. ASSUME NEW c \in Calls, Check(c) PROVE [Order!Next]_(Order!vars)
  BY <1>3, CheckAdmits DEF Order!Next
<1>4. ASSUME NEW c \in Calls, Retire(c) PROVE Order!Next
  BY <1>4, RetireLeaves DEF Order!Next
<1>5. ASSUME NEW c \in Calls, Enable(c) \/ Await(c) \/ Notify(c)
      PROVE  UNCHANGED Order!vars
  <2>1. \A d \in Calls : StageOf(wait'[d]) = StageOf(wait[d])
    BY <1>0, <1>5 DEF Enable, Await, Notify, StageOf
  <2>2. \A d \in Calls : Outstanding(d)' <=> Outstanding(d)
    BY <1>0, <1>5 DEF Enable, Await, Notify, Outstanding, Listening
  <2>3. UNCHANGED ticket
    BY <1>5 DEF Enable, Await, Notify
  <2>. QED
    BY <2>1, <2>2, <2>3, SameOrder
<1>. QED
  BY <1>1, <1>2, <1>3, <1>4, <1>5 DEF OrderNext

(* Ordered calls of one desktop are served in the order they arrived in.   *)
THEOREM OrderRefinement == OrderSpec => RetainsArrivalOrder
<1>1. OrderSpec => Order!Init
  BY OrderInitRefines DEF OrderSpec
<1>2. OrderInv /\ [OrderNext]_orderVars => [Order!Next]_(Order!vars)
  BY OrderStepRefines
<1>. QED
  BY <1>1, <1>2, OrderInvariance, PTL DEF OrderSpec, RetainsArrivalOrder, Order!Spec

-----------------------------------------------------------------------------
(* Whole calls.                                                            *)

USE AdmissionAssumption

(* Who must be the holder of the desktop's input_gate: an ordered call from*)
(* taking it until call_tool drops it, a viewer call while its tool runs.  *)
MustHoldInput(c) ==
  \/ TakesGate(c) /\ at[c] \in {"pause", "permit", "running", "returning", "answered"}
  \/ Kind[c] = "viewer" /\ at[c] = "running"

InputHeld == \A c \in Requests : MustHoldInput(c) => inputGate[Desktop[c]] = c

(* Ordered calls never wait for the lifecycle gate.                        *)
NoOrderedAtGate == \A c \in Requests : at[c] = "lifecycle" => ~TakesGate(c)

AdmissionInv == TypeOK /\ InputHeld /\ NoOrderedAtGate

(* Every step of a call is a step of its turn or leaves the turns alone.   *)
LEMMA StepsAreOrderSteps == [Next]_vars => [OrderNext]_orderVars
<1> SUFFICES ASSUME [Next]_vars PROVE [OrderNext]_orderVars
  OBVIOUS
<1>1. CASE UNCHANGED vars
  BY <1>1 DEF vars
<1>2. ASSUME NEW c \in Requests, Arrive(c) PROVE [OrderNext]_orderVars
  BY <1>2 DEF Arrive, HasTurn, OrderNext
<1>3. ASSUME NEW c \in Requests, Proceed(c) \/ CheckTurn(c) \/ WaitOn(c) \/ RetireTurn(c) \/ NotifyTurn(c)
      PROVE  [OrderNext]_orderVars
  BY <1>3 DEF Proceed, CheckTurn, WaitOn, RetireTurn, NotifyTurn, HasTurn, OrderNext
<1>4. ASSUME NEW c \in Requests,
             \/ RefuseEarly(c) \/ TakeInputGate(c) \/ ViewerQuiet(c) \/ RefuseForViewer(c)
             \/ TakePermit(c) \/ TakeStartGate(c) \/ StartGateTimeout(c) \/ TakeViewerGate(c)
             \/ Finish(c) \/ ReturnPermit(c) \/ OpenInputGate(c) \/ Reply(c)
      PROVE  UNCHANGED orderVars
  BY <1>4 DEF RefuseEarly, TakeInputGate, ViewerQuiet, RefuseForViewer, TakePermit,
     TakeStartGate, StartGateTimeout, TakeViewerGate, Finish, ReturnPermit,
     OpenInputGate, Reply
<1>5. CASE AllReplied
  BY <1>5 DEF AllReplied, vars
<1>. QED
  BY <1>1, <1>2, <1>3, <1>4, <1>5 DEF Next, Works

LEMMA AdmissionImplementsOrder == Spec => OrderSpec
<1>1. Init => OrderInit
  BY DEF Init
<1>. QED
  BY <1>1, StepsAreOrderSteps, PTL DEF Spec, OrderSpec

(* Calls of one desktop that take a turn are served in the order they      *)
(* arrived in, whatever gates and permits they wait for.                   *)
THEOREM CallsKeepArrivalOrder == Spec => RetainsArrivalOrder
BY AdmissionImplementsOrder, OrderRefinement, PTL

(* No call is left asleep at its own turn, and none is passed over.        *)
THEOREM CallsAreWoken == Spec => []NoLostWakeup
BY AdmissionImplementsOrder, WakeupsArrive, PTL

THEOREM CallsAreNotSkipped == Spec => []NobodySkipped
BY AdmissionImplementsOrder, TurnsPass, PTL

-----------------------------------------------------------------------------
LEMMA AdmissionTypeStep ==
  ASSUME TypeOK, [Next]_vars
  PROVE  TypeOK'
<1> USE DEF TypeOK, Places, Goto, Release, LockInput
<1>0. OrderTypeOK'
  BY StepsAreOrderSteps, OrderTypeStep
<1>1. CASE UNCHANGED vars
  BY <1>0, <1>1 DEF vars
<1>2. ASSUME NEW c \in Requests,
             \/ Arrive(c) \/ RefuseEarly(c) \/ Proceed(c) \/ CheckTurn(c) \/ WaitOn(c)
             \/ ViewerQuiet(c) \/ RefuseForViewer(c)
             \/ StartGateTimeout(c) \/ RetireTurn(c) \/ NotifyTurn(c) \/ Reply(c)
      PROVE  TypeOK'
  BY <1>0, <1>2 DEF Arrive, RefuseEarly, Proceed, CheckTurn, WaitOn, ViewerQuiet,
     RefuseForViewer, StartGateTimeout, RetireTurn, NotifyTurn, Reply, AfterTurn
<1>3. ASSUME NEW c \in Requests,
             \/ TakeInputGate(c) \/ TakePermit(c) \/ TakeStartGate(c) \/ TakeViewerGate(c)
      PROVE  TypeOK'
  BY <1>0, <1>3 DEF TakeInputGate, TakePermit, TakeStartGate, TakeViewerGate
<1>4. ASSUME NEW c \in Requests, Finish(c) \/ ReturnPermit(c) \/ OpenInputGate(c)
      PROVE  TypeOK'
  BY <1>0, <1>4 DEF Finish, ReturnPermit, OpenInputGate
<1>5. CASE AllReplied
  BY <1>0, <1>5 DEF AllReplied, vars
<1>. QED
  BY <1>1, <1>2, <1>3, <1>4, <1>5 DEF Next, Works

LEMMA InputHeldStep ==
  ASSUME AdmissionInv, [Next]_vars
  PROVE  InputHeld'
<1> USE DEF InputHeld, MustHoldInput, TakesGate, TypeOK, Goto
<1>0. TypeOK /\ InputHeld /\ NoOrderedAtGate
  BY DEF AdmissionInv
<1>1. CASE UNCHANGED vars
  BY <1>0, <1>1 DEF vars
\* Steps on which the moving call does not become a holder.
<1>2. ASSUME NEW c \in Requests,
             \/ Arrive(c) \/ RefuseEarly(c) \/ Proceed(c) \/ CheckTurn(c) \/ WaitOn(c)
             \/ StartGateTimeout(c) \/ RetireTurn(c) \/ NotifyTurn(c) \/ Reply(c)
             \/ TakeStartGate(c)
      PROVE  InputHeld'
  <2>1. inputGate' = inputGate
    BY <1>2 DEF Arrive, RefuseEarly, Proceed, CheckTurn, WaitOn, StartGateTimeout,
       RetireTurn, NotifyTurn, Reply, TakeStartGate
  <2>2. \A d \in Requests : d # c => at'[d] = at[d]
    BY <1>0, <1>2 DEF Arrive, RefuseEarly, Proceed, CheckTurn, WaitOn, StartGateTimeout,
       RetireTurn, NotifyTurn, Reply, TakeStartGate
  <2>3. ~(MustHoldInput(c)') \/ MustHoldInput(c)
    BY <1>0, <1>2 DEF Arrive, RefuseEarly, Proceed, CheckTurn, WaitOn, StartGateTimeout,
       RetireTurn, NotifyTurn, Reply, TakeStartGate, AfterTurn, NoOrderedAtGate
  <2>. QED
    BY <1>0, <2>1, <2>2, <2>3
\* Steps of a holder that stays one, or of a call that needs no gate.
<1>3. ASSUME NEW c \in Requests,
             ViewerQuiet(c) \/ RefuseForViewer(c) \/ TakePermit(c) \/ ReturnPermit(c)
      PROVE  InputHeld'
  BY <1>0, <1>3 DEF ViewerQuiet, RefuseForViewer, TakePermit, ReturnPermit, Lifecycle
\* Taking the gate: it was free, so nobody else had to hold it.
<1>4. ASSUME NEW c \in Requests, TakeInputGate(c) \/ TakeViewerGate(c)
      PROVE  InputHeld'
  <2>1. \A d \in Requests : MustHoldInput(d) => Desktop[d] # Desktop[c]
    BY <1>0, <1>4 DEF TakeInputGate, TakeViewerGate, LockInput, Free
  <2>2. inputGate' = [inputGate EXCEPT ![Desktop[c]] = c]
        /\ \A d \in Requests : d # c => at'[d] = at[d]
    BY <1>0, <1>4 DEF TakeInputGate, TakeViewerGate, LockInput
  <2>3. \A d \in Requests : d # c => (MustHoldInput(d)' <=> MustHoldInput(d))
    BY <2>2
  <2>. QED
    BY <1>0, <2>1, <2>2, <2>3
\* Letting go: only the gates the call itself held open.
<1>5. ASSUME NEW c \in Requests, Finish(c) \/ OpenInputGate(c)
      PROVE  InputHeld'
  <2>1. \A d \in Requests : d # c => (MustHoldInput(d)' <=> MustHoldInput(d))
    BY <1>0, <1>5 DEF Finish, OpenInputGate
  <2>2. \A o \in Desktops : inputGate[o] # c => inputGate'[o] = inputGate[o]
    BY <1>0, <1>5 DEF Finish, OpenInputGate, Release
  <2>3. MustHoldInput(c)' => inputGate' = inputGate /\ MustHoldInput(c)
    BY <1>0, <1>5 DEF Finish, OpenInputGate
  <2>. QED
    BY <1>0, <2>1, <2>2, <2>3
<1>6. CASE AllReplied
  BY <1>0, <1>6 DEF AllReplied, vars
<1>. QED
  BY <1>1, <1>2, <1>3, <1>4, <1>5, <1>6 DEF Next, Works

LEMMA NoOrderedAtGateStep ==
  ASSUME TypeOK, NoOrderedAtGate, [Next]_vars
  PROVE  NoOrderedAtGate'
<1> USE DEF NoOrderedAtGate, TypeOK, TakesGate, Goto
<1>1. CASE UNCHANGED vars
  BY <1>1 DEF vars
<1>2. ASSUME NEW c \in Requests, TakePermit(c)
      PROVE  NoOrderedAtGate'
  BY <1>2 DEF TakePermit, Lifecycle
<1>3. ASSUME NEW c \in Requests, Arrive(c) \/ Works(c), ~TakePermit(c)
      PROVE  NoOrderedAtGate'
  <2>1. \A d \in Requests : at'[d] = "lifecycle" => at[d] = "lifecycle"
    BY <1>3 DEF Arrive, Works, RefuseEarly, Proceed, CheckTurn, WaitOn, TakeInputGate,
       ViewerQuiet, RefuseForViewer, TakeStartGate, StartGateTimeout, TakeViewerGate,
       Finish, ReturnPermit, OpenInputGate, RetireTurn, NotifyTurn, Reply, AfterTurn
  <2>. QED
    BY <2>1
<1>4. CASE AllReplied
  BY <1>4 DEF AllReplied, vars
<1>. QED
  BY <1>1, <1>2, <1>3, <1>4 DEF Next, Works

LEMMA AdmissionInitInv == Init => AdmissionInv
BY OrderInitInv DEF Init, AdmissionInv, OrderInv, TypeOK, InputHeld, MustHoldInput, Places,
       NoOrderedAtGate

THEOREM AdmissionInvariance == Spec => []AdmissionInv
<1>1. AdmissionInv /\ [Next]_vars => AdmissionInv'
  BY AdmissionTypeStep, InputHeldStep, NoOrderedAtGateStep DEF AdmissionInv
<1>. QED
  BY <1>1, AdmissionInitInv, PTL DEF Spec

(* Every variable of the calls and their turns keeps its type.             *)
THEOREM AdmissionTypeCorrect == Spec => []TypeOK
<1>1. AdmissionInv => TypeOK
  BY DEF AdmissionInv
<1>. QED
  BY <1>1, AdmissionInvariance, PTL

(* One call at a time drives the input of a desktop or changes its viewer. *)
THEOREM DesktopHasOneDriver == Spec => []OneDriver
<1>1. AdmissionInv => OneDriver
  BY DEF AdmissionInv, InputHeld, MustHoldInput, OneDriver, DrivesInput
<1>. QED
  BY <1>1, AdmissionInvariance, PTL
=============================================================================
