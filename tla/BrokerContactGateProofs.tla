----------------------- MODULE BrokerContactGateProofs -----------------------
(***************************************************************************)
(* Proofs about BrokerContactGate, for any number of callers, rows, gates  *)
(* and contacts.                                                           *)
(***************************************************************************)
EXTENDS BrokerContactGate, TLAPS

\* A gate that may still bring a contact, or that still blocks the phone.
Pending(g) == gate[g] = "armed" \/ (gate[g] = "resolved" /\ contact[g] # "lost")
Kept == Gates \ stray

\* Who is past the lock and has not lost it holds it.
LockInv ==
  /\ \A a \in open : pc[a] \in Stages
  /\ \A a \in Callers : holder = a => a \in open /\ pc[a] \in Stages \ {"lock"}
  /\ \A a \in open : pc[a] # "lock" => holder = a

GateInv ==
  /\ \A g \in Gates : gate[g] = "unused" => contact[g] = "none"
  /\ ResolvedIsKnown
  /\ stray \subseteq {g \in Gates : gate[g] # "unused"}
  /\ \A g, h \in Kept : Pending(g) /\ Pending(h) => g = h

\* What a caller that holds the lock and observed no gate knows: until it arms
\* one, none is armed that is not stray; and once it found no contact either, none is pending.
ClearInv ==
  \A a \in Callers :
    /\ pc[a] = "arm" => observed[a] = None
    /\ holder = a /\ observed[a] = None /\ own[a] = None /\ pc[a] # "observe" =>
         Armed \subseteq stray
    /\ holder = a /\ observed[a] = None /\ pc[a] \in {"reread", "arm"} =>
         \A g \in Kept : ~Pending(g)

\* What a caller knows of its own gate and of the one it observed.
CallInv ==
  /\ \A a \in Callers :
       /\ pc[a] \in {"idle", "lock", "observe", "look", "reread", "arm", "promote"} =>
            own[a] = None
       /\ pc[a] \in {"idle", "lock", "observe"} => observed[a] = None
       /\ own[a] # None => gate[own[a]] # "unused"
       /\ observed[a] # None => gate[observed[a]] # "unused"
       /\ pc[a] = "post" => contact[own[a]] = "none"
       /\ pc[a] = "reject" => contact[own[a]] = "lost"
       /\ pc[a] \in {"commit", "resolve"} /\ (own[a] # None \/ observed[a] # None) =>
            Listed \cap flagged # {}
  /\ \A a, b \in Callers :
       pc[a] = "post" /\ pc[b] = "post" /\ own[a] = own[b] => a = b

\* Nobody changes the row of the caller that holds the lock, and a caller that is
\* about to replace a link has observed no gate and armed none.
RowInv ==
  \A a \in Callers :
    /\ holder = a => link[broker[a]] = Current(a)
    /\ pc[a] \in {"reread", "arm", "post", "answer", "promote", "reconcile"} =>
         Current(a) = None
    /\ pc[a] = "commit" /\ Current(a) \notin {None, got[a]} =>
         own[a] = None /\ observed[a] = None

Inv == TypeOK /\ LockInv /\ GateInv /\ ClearInv /\ CallInv /\ RowInv

\* The initial states satisfy the invariant.
LEMMA InvInit == Init => Inv
<1> SUFFICES ASSUME Init PROVE Inv
  OBVIOUS
<1> USE ConstantsAssumption DEF Init, Contacts
<1>1. TypeOK
  BY DEF TypeOK, Stages
<1>2. LockInv
  BY DEF LockInv
<1>3. GateInv
  BY DEF GateInv, ResolvedIsKnown, Pending, Kept
<1>4. ClearInv /\ CallInv /\ RowInv
  BY DEF ClearInv, CallInv, RowInv, Current, Armed
<1> QED
  BY <1>1, <1>2, <1>3, <1>4 DEF Inv

\* Every step keeps the types.
LEMMA TypeStep ==
  ASSUME TypeOK, [Next]_vars
  PROVE  TypeOK'
<1> USE ConstantsAssumption DEF TypeOK, Stages, Goto, amo, local, Contacts, Current,
        Finds, Listed
<1>1. ASSUME NEW a \in Callers, Step(a) PROVE TypeOK'
  <2>1. CASE \E b \in Brokers : Begin(a, b)
    BY <2>1 DEF Begin
  <2>2. CASE Lock(a)
    BY <2>2 DEF Lock
  <2>3. CASE Observe(a)
    BY <2>3 DEF Observe
  <2>4. CASE KeepLink(a)
    BY <2>4 DEF KeepLink
  <2>5. CASE LookNothing(a)
    BY <2>5 DEF LookNothing
  <2>6. CASE Reread(a)
    BY <2>6 DEF Reread
  <2>7. CASE Post(a)
    BY <2>7 DEF Post
  <2>8. CASE Answer(a)
    BY <2>8 DEF Answer
  <2>9. CASE Refuse(a)
    BY <2>9 DEF Refuse
  <2>10. CASE Reject(a)
    BY <2>10 DEF Reject, Forget, Close
  <2>11. CASE Promote(a)
    BY <2>11 DEF Promote
  <2>12. CASE Commit(a)
    BY <2>12 DEF Commit, Close
  <2>13. CASE Resolve(a)
    BY <2>13 DEF Resolve, Forget
  <2>14. CASE Stop(a)
    BY <2>14 DEF Stop, Forget, Close
  <2>15. CASE Timeout(a)
    BY <2>15 DEF Timeout, Close
  <2>16. CASE \E c \in Contacts : Relink(a, c)
    BY <2>16 DEF Relink
  <2>17. CASE \E c \in Contacts : LookFound(a, c)
    BY <2>17 DEF LookFound
  <2>18. CASE \E c \in Contacts : Reconcile(a, c)
    BY <2>18 DEF Reconcile
  <2>19. CASE \E g \in Gates : Arm(a, g)
    BY <2>19 DEF Arm
  <2> QED
    BY <1>1, <2>1, <2>2, <2>3, <2>4, <2>5, <2>6, <2>7, <2>8, <2>9, <2>10, <2>11,
       <2>12, <2>13, <2>14, <2>15, <2>16, <2>17, <2>18, <2>19 DEF Step
<1>2. CASE \E g \in Gates : Create(g)
  BY <1>2 DEF Create
<1>3. CASE \E g \in Gates : Drop(g)
  BY <1>3 DEF Drop
<1>4. CASE \E c \in Contacts : List(c)
  BY <1>4 DEF List
<1>5. CASE \E c \in Foreign : StaffCreates(c)
  BY <1>5 DEF StaffCreates
<1>6. CASE \E b \in Brokers, c \in Contacts : Login(b, c)
  BY <1>6 DEF Login
<1>7. CASE UNCHANGED vars
  BY <1>7 DEF vars
<1> QED
  BY <1>1, <1>2, <1>3, <1>4, <1>5, <1>6, <1>7 DEF Next

\* Every step keeps the discipline of the lock.
LEMMA LockStep ==
  ASSUME TypeOK, LockInv, [Next]_vars
  PROVE  LockInv'
<1> USE ConstantsAssumption DEF TypeOK, LockInv, Stages, Goto, amo,
        local
<1>1. ASSUME NEW a \in Callers, Step(a) PROVE LockInv'
  <2>1. CASE \E b \in Brokers : Begin(a, b)
    BY <2>1 DEF Begin
  <2>2. CASE Lock(a)
    BY <2>2 DEF Lock
  <2>3. CASE Observe(a)
    BY <2>3 DEF Observe
  <2>4. CASE KeepLink(a)
    BY <2>4 DEF KeepLink
  <2>5. CASE LookNothing(a)
    BY <2>5 DEF LookNothing
  <2>6. CASE Reread(a)
    BY <2>6 DEF Reread
  <2>7. CASE Post(a)
    BY <2>7 DEF Post
  <2>8. CASE Answer(a)
    BY <2>8 DEF Answer
  <2>9. CASE Refuse(a)
    BY <2>9 DEF Refuse
  <2>10. CASE Reject(a)
    BY <2>10 DEF Reject, Forget, Close
  <2>11. CASE Promote(a)
    BY <2>11 DEF Promote
  <2>12. CASE Commit(a)
    BY <2>12 DEF Commit, Close
  <2>13. CASE Resolve(a)
    BY <2>13 DEF Resolve, Forget
  <2>14. CASE Stop(a)
    BY <2>14 DEF Stop, Forget, Close
  <2>15. CASE Timeout(a)
    BY <2>15 DEF Timeout, Close
  <2>16. CASE \E c \in Contacts : Relink(a, c)
    BY <2>16 DEF Relink
  <2>17. CASE \E c \in Contacts : LookFound(a, c)
    BY <2>17 DEF LookFound
  <2>18. CASE \E c \in Contacts : Reconcile(a, c)
    BY <2>18 DEF Reconcile
  <2>19. CASE \E g \in Gates : Arm(a, g)
    BY <2>19 DEF Arm
  <2> QED
    BY <1>1, <2>1, <2>2, <2>3, <2>4, <2>5, <2>6, <2>7, <2>8, <2>9, <2>10, <2>11,
       <2>12, <2>13, <2>14, <2>15, <2>16, <2>17, <2>18, <2>19 DEF Step
<1>2. CASE \E g \in Gates : Create(g)
  BY <1>2 DEF Create
<1>3. CASE \E g \in Gates : Drop(g)
  BY <1>3 DEF Drop
<1>4. CASE \E c \in Contacts : List(c)
  BY <1>4 DEF List
<1>5. CASE \E c \in Foreign : StaffCreates(c)
  BY <1>5 DEF StaffCreates
<1>6. CASE \E b \in Brokers, c \in Contacts : Login(b, c)
  BY <1>6 DEF Login
<1>7. CASE UNCHANGED vars
  BY <1>7 DEF vars
<1> QED
  BY <1>1, <1>2, <1>3, <1>4, <1>5, <1>6, <1>7 DEF Next

\* Every step keeps the invariant of the gates.
LEMMA GateStep ==
  ASSUME Inv, [Next]_vars
  PROVE  GateInv'
<1> USE ConstantsAssumption DEF Inv, TypeOK, GateInv, ResolvedIsKnown, Pending, Kept,
        Goto, amo, local, Contacts, Listed
<1>1. ASSUME NEW a \in Callers, Step(a) PROVE GateInv'
  <2>1. CASE \E b \in Brokers : Begin(a, b)
    BY <2>1 DEF Begin
  <2>2. CASE Lock(a)
    BY <2>2 DEF Lock
  <2>3. CASE Observe(a)
    BY <2>3 DEF Observe
  <2>4. CASE KeepLink(a)
    BY <2>4 DEF KeepLink
  <2>5. CASE LookNothing(a)
    BY <2>5 DEF LookNothing
  <2>6. CASE Reread(a)
    BY <2>6 DEF Reread
  <2>7. CASE Post(a)
    BY <2>7 DEF Post, CallInv
  <2>8. CASE Answer(a)
    BY <2>8 DEF Answer
  <2>9. CASE Refuse(a)
    BY <2>9 DEF Refuse
  <2>10. CASE Reject(a)
    BY <2>10 DEF Reject, Forget, Close, CallInv
  <2>11. CASE Promote(a)
    BY <2>11 DEF Promote
  <2>12. CASE Commit(a)
    BY <2>12 DEF Commit, Close
  <2>13. CASE Resolve(a)
    <3>a. CASE own[a] = None /\ observed[a] = None
      BY <2>13, <3>a DEF Resolve, Forget
    <3>b. CASE own[a] # None \/ observed[a] # None
      BY <2>13, <3>b DEF Resolve, Forget, CallInv
    <3> QED
      BY <3>a, <3>b
  <2>14. CASE Stop(a)
    BY <2>14 DEF Stop, Forget, Close
  <2>15. CASE Timeout(a)
    BY <2>15 DEF Timeout, Close
  <2>16. CASE \E c \in Contacts : Relink(a, c)
    BY <2>16 DEF Relink
  <2>17. CASE \E c \in Contacts : LookFound(a, c)
    BY <2>17 DEF LookFound
  <2>18. CASE \E c \in Contacts : Reconcile(a, c)
    BY <2>18 DEF Reconcile
  <2>19. CASE \E g \in Gates : Arm(a, g)
    BY <2>19 DEF Arm, ClearInv, LockInv
  <2> QED
    BY <1>1, <2>1, <2>2, <2>3, <2>4, <2>5, <2>6, <2>7, <2>8, <2>9, <2>10, <2>11,
       <2>12, <2>13, <2>14, <2>15, <2>16, <2>17, <2>18, <2>19 DEF Step
<1>2. CASE \E g \in Gates : Create(g)
  BY <1>2 DEF Create
<1>3. CASE \E g \in Gates : Drop(g)
  BY <1>3 DEF Drop
<1>4. CASE \E c \in Contacts : List(c)
  BY <1>4 DEF List
<1>5. CASE \E c \in Foreign : StaffCreates(c)
  BY <1>5 DEF StaffCreates
<1>6. CASE \E b \in Brokers, c \in Contacts : Login(b, c)
  BY <1>6 DEF Login
<1>7. CASE UNCHANGED vars
  BY <1>7 DEF vars
<1> QED
  BY <1>1, <1>2, <1>3, <1>4, <1>5, <1>6, <1>7 DEF Next

\* Every step keeps what the holder of the lock knows.
LEMMA ClearStep ==
  ASSUME Inv, [Next]_vars
  PROVE  ClearInv'
<1> USE ConstantsAssumption DEF Inv, TypeOK, ClearInv, Pending, Kept, Armed, Goto, amo,
        local, Contacts
<1>1. ASSUME NEW a \in Callers, Step(a) PROVE ClearInv'
  <2>1. CASE \E b \in Brokers : Begin(a, b)
    BY <2>1 DEF Begin, LockInv, Stages
  <2>2. CASE Lock(a)
    BY <2>2 DEF Lock
  <2>3. CASE Observe(a)
    BY <2>3 DEF Observe
  <2>4. CASE KeepLink(a)
    BY <2>4 DEF KeepLink
  <2>5. CASE LookNothing(a)
    BY <2>5 DEF LookNothing, Finds, Listed, GateInv, ResolvedIsKnown, CallInv
  <2>6. CASE Reread(a)
    BY <2>6 DEF Reread
  <2>7. CASE Post(a)
    BY <2>7 DEF Post, CallInv
  <2>8. CASE Answer(a)
    BY <2>8 DEF Answer
  <2>9. CASE Refuse(a)
    BY <2>9 DEF Refuse
  <2>10. CASE Reject(a)
    BY <2>10 DEF Reject, Forget, Close, CallInv
  <2>11. CASE Promote(a)
    BY <2>11 DEF Promote
  <2>12. CASE Commit(a)
    BY <2>12 DEF Commit, Close
  <2>13. CASE Resolve(a)
    <3>2. Armed' \subseteq Armed
      BY <2>13 DEF Resolve
    <3>3. \A g \in Gates : Pending(g)' => Pending(g)
      <4>a. CASE own[a] = None /\ observed[a] = None
        BY <2>13, <4>a DEF Resolve
      <4>b. CASE own[a] # None \/ observed[a] # None
        BY <2>13, <4>b DEF Resolve, CallInv
      <4> QED
        BY <4>a, <4>b
    <3>4. UNCHANGED <<holder, stray>>
      BY <2>13 DEF Resolve
    <3>5. \A b \in Callers : b # a =>
            UNCHANGED <<pc[b], observed[b], own[b]>>
      BY <2>13 DEF Resolve, Forget
    <3>6. pc'[a] = "idle" /\ holder # a
      BY <2>13 DEF Resolve, Forget, LockInv, Stages
    <3> HIDE DEF Pending, Armed
    <3> QED
      BY <3>2, <3>3, <3>4, <3>5, <3>6
  <2>14. CASE Stop(a)
    BY <2>14 DEF Stop, Forget, Close
  <2>15. CASE Timeout(a)
    BY <2>15 DEF Timeout, Close
  <2>16. CASE \E c \in Contacts : Relink(a, c)
    BY <2>16 DEF Relink
  <2>17. CASE \E c \in Contacts : LookFound(a, c)
    BY <2>17 DEF LookFound
  <2>18. CASE \E c \in Contacts : Reconcile(a, c)
    BY <2>18 DEF Reconcile
  <2>19. CASE \E g \in Gates : Arm(a, g)
    BY <2>19 DEF Arm, LockInv
  <2> QED
    BY <1>1, <2>1, <2>2, <2>3, <2>4, <2>5, <2>6, <2>7, <2>8, <2>9, <2>10, <2>11,
       <2>12, <2>13, <2>14, <2>15, <2>16, <2>17, <2>18, <2>19 DEF Step
<1>2. CASE \E g \in Gates : Create(g)
  BY <1>2 DEF Create
<1>3. CASE \E g \in Gates : Drop(g)
  BY <1>3 DEF Drop
<1>4. CASE \E c \in Contacts : List(c)
  BY <1>4 DEF List
<1>5. CASE \E c \in Foreign : StaffCreates(c)
  BY <1>5 DEF StaffCreates
<1>6. CASE \E b \in Brokers, c \in Contacts : Login(b, c)
  BY <1>6 DEF Login
<1>7. CASE UNCHANGED vars
  BY <1>7 DEF vars
<1> QED
  BY <1>1, <1>2, <1>3, <1>4, <1>5, <1>6, <1>7 DEF Next

\* Every step keeps what the callers know of their gates.
LEMMA CallStep ==
  ASSUME Inv, [Next]_vars
  PROVE  CallInv'
<1> USE ConstantsAssumption DEF Inv, TypeOK, CallInv, Goto, amo, local, Contacts,
        Listed, Current, Finds
<1>1. ASSUME NEW a \in Callers, Step(a) PROVE CallInv'
  <2>1. CASE \E b \in Brokers : Begin(a, b)
    BY <2>1 DEF Begin
  <2>2. CASE Lock(a)
    BY <2>2 DEF Lock
  <2>3. CASE Observe(a)
    BY <2>3 DEF Observe, Armed
  <2>4. CASE KeepLink(a)
    BY <2>4 DEF KeepLink
  <2>5. CASE LookNothing(a)
    BY <2>5 DEF LookNothing
  <2>6. CASE Reread(a)
    BY <2>6 DEF Reread
  <2>7. CASE Post(a)
    BY <2>7 DEF Post
  <2>8. CASE Answer(a)
    BY <2>8 DEF Answer
  <2>9. CASE Refuse(a)
    BY <2>9 DEF Refuse
  <2>10. CASE Reject(a)
    BY <2>10 DEF Reject, Forget, Close
  <2>11. CASE Promote(a)
    BY <2>11 DEF Promote
  <2>12. CASE Commit(a)
    BY <2>12 DEF Commit, Close
  <2>13. CASE Resolve(a)
    BY <2>13 DEF Resolve, Forget
  <2>14. CASE Stop(a)
    BY <2>14 DEF Stop, Forget, Close
  <2>15. CASE Timeout(a)
    BY <2>15 DEF Timeout, Close
  <2>16. CASE \E c \in Contacts : Relink(a, c)
    BY <2>16 DEF Relink
  <2>17. CASE \E c \in Contacts : LookFound(a, c)
    BY <2>17 DEF LookFound
  <2>18. CASE \E c \in Contacts : Reconcile(a, c)
    BY <2>18 DEF Reconcile
  <2>19. CASE \E g \in Gates : Arm(a, g)
    BY <2>19 DEF Arm, GateInv
  <2> QED
    BY <1>1, <2>1, <2>2, <2>3, <2>4, <2>5, <2>6, <2>7, <2>8, <2>9, <2>10, <2>11,
       <2>12, <2>13, <2>14, <2>15, <2>16, <2>17, <2>18, <2>19 DEF Step
<1>2. CASE \E g \in Gates : Create(g)
  BY <1>2 DEF Create
<1>3. CASE \E g \in Gates : Drop(g)
  BY <1>3 DEF Drop
<1>4. CASE \E c \in Contacts : List(c)
  BY <1>4 DEF List
<1>5. CASE \E c \in Foreign : StaffCreates(c)
  BY <1>5 DEF StaffCreates
<1>6. CASE \E b \in Brokers, c \in Contacts : Login(b, c)
  BY <1>6 DEF Login
<1>7. CASE UNCHANGED vars
  BY <1>7 DEF vars
<1> QED
  BY <1>1, <1>2, <1>3, <1>4, <1>5, <1>6, <1>7 DEF Next

\* Every step keeps what a caller knows of its row.
LEMMA RowStep ==
  ASSUME Inv, [Next]_vars
  PROVE  RowInv'
<1> USE ConstantsAssumption DEF Inv, TypeOK, LockInv, RowInv, Goto, amo, local,
        Contacts, Current
<1>1. ASSUME NEW a \in Callers, Step(a) PROVE RowInv'
  <2>1. CASE \E b \in Brokers : Begin(a, b)
    BY <2>1 DEF Begin, Stages
  <2>2. CASE Lock(a)
    BY <2>2 DEF Lock
  <2>3. CASE Observe(a)
    BY <2>3 DEF Observe
  <2>4. CASE KeepLink(a)
    BY <2>4 DEF KeepLink
  <2>5. CASE LookNothing(a)
    BY <2>5 DEF LookNothing
  <2>6. CASE Reread(a)
    BY <2>6 DEF Reread
  <2>7. CASE Post(a)
    BY <2>7 DEF Post
  <2>8. CASE Answer(a)
    BY <2>8 DEF Answer
  <2>9. CASE Refuse(a)
    BY <2>9 DEF Refuse
  <2>10. CASE Reject(a)
    BY <2>10 DEF Reject, Forget, Close
  <2>11. CASE Promote(a)
    BY <2>11 DEF Promote
  <2>12. CASE Commit(a)
    BY <2>12 DEF Commit, Close
  <2>13. CASE Resolve(a)
    <3>1. UNCHANGED <<link, broker, holder>>
      BY <2>13 DEF Resolve, Forget
    <3>2. \A b \in Callers : b # a =>
            UNCHANGED <<pc[b], snap[b], observed[b], own[b], got[b]>>
      BY <2>13 DEF Resolve, Forget
    <3>3. pc'[a] = "idle" /\ holder # a
      BY <2>13 DEF Resolve, Forget, Stages
    <3> QED
      BY <3>1, <3>2, <3>3
  <2>14. CASE Stop(a)
    BY <2>14 DEF Stop, Forget, Close
  <2>15. CASE Timeout(a)
    BY <2>15 DEF Timeout, Close
  <2>16. CASE \E c \in Contacts : Relink(a, c)
    BY <2>16 DEF Relink, CallInv
  <2>17. CASE \E c \in Contacts : LookFound(a, c)
    BY <2>17 DEF LookFound
  <2>18. CASE \E c \in Contacts : Reconcile(a, c)
    BY <2>18 DEF Reconcile
  <2>19. CASE \E g \in Gates : Arm(a, g)
    BY <2>19 DEF Arm
  <2> QED
    BY <1>1, <2>1, <2>2, <2>3, <2>4, <2>5, <2>6, <2>7, <2>8, <2>9, <2>10, <2>11,
       <2>12, <2>13, <2>14, <2>15, <2>16, <2>17, <2>18, <2>19 DEF Step
<1>2. CASE \E g \in Gates : Create(g)
  BY <1>2 DEF Create
<1>3. CASE \E g \in Gates : Drop(g)
  BY <1>3 DEF Drop
<1>4. CASE \E c \in Contacts : List(c)
  BY <1>4 DEF List
<1>5. CASE \E c \in Foreign : StaffCreates(c)
  BY <1>5 DEF StaffCreates
<1>6. CASE \E b \in Brokers, c \in Contacts : Login(b, c)
  BY <1>6 DEF Login
<1>7. CASE UNCHANGED vars
  BY <1>7 DEF vars
<1> QED
  BY <1>1, <1>2, <1>3, <1>4, <1>5, <1>6, <1>7 DEF Next


\* The invariant holds throughout.
LEMMA Invariance == Spec => []Inv
<1>1. Inv /\ [Next]_vars => Inv'
  <2> SUFFICES ASSUME Inv, [Next]_vars PROVE Inv'
    OBVIOUS
  <2>1. TypeOK /\ LockInv
    BY DEF Inv
  <2>2. TypeOK' /\ LockInv'
    BY <2>1, TypeStep, LockStep
  <2>3. GateInv' /\ ClearInv' /\ CallInv' /\ RowInv'
    BY GateStep, ClearStep, CallStep, RowStep
  <2> QED
    BY <2>2, <2>3 DEF Inv
<1> QED
  BY InvInit, <1>1, PTL DEF Spec

\* The variables of the model keep their types.
THEOREM TypeCorrect == Spec => []TypeOK
<1>1. Init => TypeOK
  BY InvInit DEF Inv
<1>2. TypeOK /\ [Next]_vars => TypeOK'
  BY TypeStep
<1> QED
  BY <1>1, <1>2, PTL DEF Spec

\* Of the gates armed under the lock at most one brings a contact for the phone,
\* whatever crashes, times out or is delayed, and whatever stray callers do.
THEOREM OneCreation == Spec => []OnePost
<1>1. Inv => OnePost
  BY DEF Inv, TypeOK, GateInv, Pending, Kept, OnePost, Contacts
<1> QED
  BY <1>1, Invariance, PTL

\* At most one of these gates is unresolved: two callers that had the lock never
\* make the lookup of a gate throw AMBIGUOUS.
THEOREM OneOpenGate == Spec => []NotAmbiguous
<1>1. Inv => NotAmbiguous
  BY DEF Inv, GateInv, Pending, Kept, NotAmbiguous, Armed
<1> QED
  BY <1>1, Invariance, PTL

\* Every gate is lifted only when its POST created nothing or a broker contact can
\* be found.
THEOREM GatesAreSound == Spec => []ResolvedIsKnown
<1>1. Inv => ResolvedIsKnown
  BY DEF Inv, GateInv
<1> QED
  BY <1>1, Invariance, PTL

\* A provisioner replaces a link only while no creation for the phone is in doubt,
\* except one of a stray caller.
THEOREM NoRelinkInDoubt == Spec => RelinkInClear
<1> DEFINE A == \A b \in Brokers :
      (holder # None /\ link[b] # None /\ link'[b] # link[b] /\ holder' # holder)
          => Armed \subseteq stray
<1>1. Inv /\ [Next]_vars => A
  <2> SUFFICES ASSUME Inv, [Next]_vars, NEW b \in Brokers, holder # None,
                      link[b] # None, link'[b] # link[b], holder' # holder
               PROVE  Armed \subseteq stray
    OBVIOUS
  <2>1. PICK a \in Callers : Commit(a)
    BY DEF Next, Step, vars, amo, local, Begin, Lock, Observe, KeepLink,
       LookNothing,
           Reread, Relink, LookFound, Reconcile, Arm, Post, Answer, Refuse, Reject,
           Promote, Resolve, Stop, Forget, Timeout, Create, Drop, List, StaffCreates, Login
  <2>2. holder = a /\ b = broker[a] /\ got[a] # Current(a) /\ Current(a) # None
    BY <2>1 DEF Commit, Inv, TypeOK, LockInv, RowInv
  <2>3. own[a] = None /\ observed[a] = None
    BY <2>1, <2>2 DEF Commit, Inv, RowInv
  <2> QED
    BY <2>1, <2>2, <2>3 DEF Commit, Inv, ClearInv
<1>2. Spec => [][A]_vars
  BY <1>1, Invariance, PTL DEF Spec
<1> QED
  BY <1>2 DEF RelinkInClear
=============================================================================
