-------------------------- MODULE OneTimeCodeProofs --------------------------
(***************************************************************************)
(* Proofs about OneTimeCode, for any number of calls, limits and times.    *)
(***************************************************************************)
EXTENDS OneTimeCode, SequenceTheorems, FiniteSetTheorems, TLAPS

CodeRecords == [purpose : Purposes, created : Nat, live : BOOLEAN,
                attempts : 0..MaxAttempts]

Calls == Requests \cup Checks

\* The types of the tables.
Tables ==
  /\ clock \in 0..MaxClock
  /\ codes \in Seq(CodeRecords)
  /\ \A o \in 1..Len(codes) : codes[o].created <= clock
  /\ tries \in Seq(Nat) /\ Len(tries) = Len(codes)

\* The types of the calls, and which code a call has.
CallsInv ==
  /\ pc \in [Calls -> Stages] /\ mine \in [Calls -> Nat] /\ began \in [Calls -> Nat]
  /\ read \in [Checks -> Nat] /\ right \in [Checks -> BOOLEAN]
  /\ \A c \in Calls : mine[c] <= Len(codes) /\ began[c] <= clock
  /\ \A r \in Requests :
       /\ pc[r] \in {"send", "sent", "unsend", "failed"} <=> mine[r] # 0
       /\ pc[r] \notin {"compare", "ok", "invalid"}
  /\ \A v \in Checks :
       /\ pc[v] \in {"idle", "compare", "ok", "invalid"}
       /\ pc[v] \in {"compare", "ok"} => mine[v] # 0

\* How a step may change the table: a code keeps its purpose and its time, does not
\* come to life again; and a new one comes with an Insert.
Evolves ==
  /\ codes' \in Seq(CodeRecords)
  /\ \A o \in 1..Len(codes) :
       /\ codes'[o].purpose = codes[o].purpose
       /\ codes'[o].created = codes[o].created
       /\ codes'[o].live => codes[o].live

Grows ==
  /\ Evolves
  /\ \/ Len(codes') = Len(codes) /\ tries' \in Seq(Nat) /\ Len(tries') = Len(tries)
     \/ \E r \in Requests : Insert(r)

LEMMA TablesInit == Init => Tables /\ CallsInv
<1> SUFFICES ASSUME Init PROVE Tables /\ CallsInv
  OBVIOUS
<1>1. codes = <<>> /\ tries = <<>> /\ clock = 0
  BY DEF Init
<1>2. /\ codes \in Seq(CodeRecords) /\ Len(codes) = 0
      /\ tries \in Seq(Nat) /\ Len(tries) = 0
  BY <1>1, EmptySeq
<1>3. Tables
  BY <1>1, <1>2, ConstantsAssumption DEF Tables
<1>4. CallsInv
  BY <1>1, <1>2 DEF Init, CallsInv, Calls, Stages
<1> QED
  BY <1>3, <1>4

\* A table in which some codes were marked is one of the same length.
LEMMA MarkedTable ==
  ASSUME Tables, NEW D \in SUBSET (1..Len(codes)),
         codes' = [o \in DOMAIN codes |->
                     IF o \in D THEN [codes[o] EXCEPT !.live = FALSE] ELSE codes[o]]
  PROVE  /\ Evolves /\ Len(codes') = Len(codes)
         /\ \A o \in 1..Len(codes) :
              codes'[o] = IF o \in D THEN [codes[o] EXCEPT !.live = FALSE] ELSE codes[o]
<1>1. Len(codes) \in Nat /\ DOMAIN codes = 1..Len(codes)
  BY LenProperties DEF Tables
<1>2. \A o \in 1..Len(codes) : codes[o] \in CodeRecords
  BY ElementOfSeq DEF Tables
<1>3. \A o \in 1..Len(codes) :
        codes'[o] = IF o \in D THEN [codes[o] EXCEPT !.live = FALSE] ELSE codes[o]
  BY <1>1
<1>4. \A o \in 1..Len(codes) : codes'[o] \in CodeRecords
  <2> SUFFICES ASSUME NEW o \in 1..Len(codes) PROVE codes'[o] \in CodeRecords
    OBVIOUS
  <2>1. [codes[o] EXCEPT !.live = FALSE] \in CodeRecords
    BY <1>2 DEF CodeRecords
  <2> QED
    BY <1>2, <1>3, <2>1
<1>5. codes' \in [1..Len(codes) -> CodeRecords]
  BY <1>1, <1>4
<1>6. codes' \in Seq(CodeRecords) /\ Len(codes') = Len(codes)
  <2>1. codes' \in Seq(CodeRecords)
    BY <1>1, <1>5, SeqDef
  <2>2. DOMAIN codes' = 1..Len(codes') /\ Len(codes') \in Nat
    BY <2>1, LenProperties
  <2> QED
    BY <1>1, <1>5, <2>1, <2>2
<1>7. ASSUME NEW o \in 1..Len(codes)
      PROVE  /\ codes'[o].purpose = codes[o].purpose
             /\ codes'[o].created = codes[o].created
             /\ codes'[o].live => codes[o].live
  <2>1. codes[o] \in CodeRecords
    BY <1>2
  <2>2. CASE o \in D
    <3>1. codes'[o] = [codes[o] EXCEPT !.live = FALSE]
      BY <1>3, <2>2
    <3> QED
      BY <2>1, <3>1 DEF CodeRecords
  <2>3. CASE o \notin D
    BY <1>3, <2>3
  <2> QED
    BY <2>2, <2>3
<1> QED
  BY <1>3, <1>6, <1>7 DEF Evolves

\* A table in which one code was replaced by one of the same purpose and time.
LEMMA ChangedTable ==
  ASSUME Tables, NEW o \in 1..Len(codes), NEW c \in CodeRecords,
         codes' = [codes EXCEPT ![o] = c],
         c.purpose = codes[o].purpose, c.created = codes[o].created,
         c.live => codes[o].live
  PROVE  Evolves /\ Len(codes') = Len(codes)
<1>1. /\ codes' \in Seq(CodeRecords) /\ Len(codes') = Len(codes)
      /\ \A j \in 1..Len(codes) : codes'[j] = IF j = o THEN c ELSE codes[j]
  BY ExceptSeq DEF Tables
<1> QED
  BY <1>1 DEF Evolves

\* The table evolves with every step.
LEMMA CodesEvolve ==
  ASSUME Tables, CallsInv, [Next]_vars
  PROVE  Grows
<1>0. ASSUME codes' = codes, tries' = tries PROVE Grows
  BY <1>0 DEF Evolves, Grows, Tables
<1>a. ASSUME Evolves, Len(codes') = Len(codes), tries' = tries PROVE Grows
  BY <1>a DEF Grows, Tables
<1> USE ConstantsAssumption DEF Goto, Answer
<1>1. ASSUME NEW r \in Requests, Request(r) PROVE Grows
  <2>1. CASE CheckInterval(r)
    BY <1>0, <2>1 DEF CheckInterval
  <2>2. CASE CheckCount(r)
    BY <1>0, <2>2 DEF CheckCount
  <2>3. CASE ConsumeEarlier(r)
    <3> DEFINE D == {o \in 1..Len(codes) : codes[o].purpose = Purpose[r]}
    <3>1. DOMAIN codes = 1..Len(codes)
      BY LenProperties DEF Tables
    <3>2. codes' = [o \in DOMAIN codes |->
                      IF o \in D THEN [codes[o] EXCEPT !.live = FALSE] ELSE codes[o]]
      BY <2>3, <3>1 DEF ConsumeEarlier
    <3> QED
      BY <2>3, <1>a, <3>2, MarkedTable DEF ConsumeEarlier
  <2>4. CASE Insert(r)
    <3>1. Code(Purpose[r], clock) \in CodeRecords
      BY DEF Code, CodeRecords, Purposes, Tables
    <3>2. codes' = Append(codes, Code(Purpose[r], clock)) /\ pc[r] = "insert"
      BY <2>4 DEF Insert
    <3> QED
      BY <2>4, <3>1, <3>2, AppendProperties DEF Evolves, Grows, Tables
  <2>5. CASE Send(r)
    BY <1>0, <2>5 DEF Send
  <2>6. CASE Withdraw(r)
    <3> DEFINE o == mine[r]
    <3>1. o \in 1..Len(codes) /\ codes[o] \in CodeRecords
      BY <2>6, LenProperties, ElementOfSeq DEF Withdraw, CallsInv, Calls, Tables
    <3>2. codes' = [codes EXCEPT ![o] = [codes[o] EXCEPT !.live = FALSE]]
      BY <2>6, <3>1 DEF Withdraw
    <3>3. [codes[o] EXCEPT !.live = FALSE] \in CodeRecords
      BY <3>1 DEF CodeRecords
    <3> QED
      BY <2>6, <1>a, <3>1, <3>2, <3>3, ChangedTable DEF CodeRecords, Withdraw
  <2> QED
    BY <1>1, <2>1, <2>2, <2>3, <2>4, <2>5, <2>6 DEF Request
<1>2. ASSUME NEW v \in Checks, Check(v) PROVE Grows
  <2>1. CASE NoCode(v)
    BY <1>0, <2>1 DEF NoCode
  <2>2. CASE ReadCode(v)
    BY <1>0, <2>2 DEF ReadCode
  <2>3. CASE Refuse(v)
    <3> DEFINE o == mine[v]
    <3>1. o \in 1..Len(codes) /\ codes[o] \in CodeRecords
      BY <2>3, LenProperties, ElementOfSeq DEF Refuse, CallsInv, Calls, Tables
    <3>2. codes' = [codes EXCEPT ![o] = [codes[o] EXCEPT !.live = FALSE]]
      BY <2>3, <3>1 DEF Refuse
    <3>3. [codes[o] EXCEPT !.live = FALSE] \in CodeRecords
      BY <3>1 DEF CodeRecords
    <3> QED
      BY <2>3, <1>a, <3>1, <3>2, <3>3, ChangedTable DEF CodeRecords, Refuse
  <2>4. CASE CountWrong(v)
    <3> DEFINE o == mine[v]
    <3>1. o \in 1..Len(codes) /\ codes[o] \in CodeRecords
      BY <2>4, LenProperties, ElementOfSeq DEF CountWrong, CallsInv, Calls, Tables
    <3> DEFINE n == read[v] + 1
               l == codes[o].live /\ n < MaxAttempts
    <3>2. codes' = [codes EXCEPT ![o] = [codes[o] EXCEPT !.attempts = n, !.live = l]]
      BY <2>4, <3>1 DEF CountWrong
    <3>3. n \in 0..MaxAttempts
      BY <2>4 DEF CountWrong, CallsInv
    <3>4. l \in BOOLEAN
      OBVIOUS
    <3> HIDE DEF n, l
    <3>5. [codes[o] EXCEPT !.attempts = n, !.live = l] \in CodeRecords
      BY <3>1, <3>3, <3>4 DEF CodeRecords
    <3>6. l => codes[o].live
      BY DEF l
    <3> QED
      <4>1. Evolves /\ Len(codes') = Len(codes)
        BY <3>1, <3>2, <3>5, <3>6, ChangedTable DEF CodeRecords
      <4>2. o \in 1..Len(tries) /\ tries[o] + 1 \in Nat
        BY <3>1, ElementOfSeq DEF Tables
      <4>3. tries' \in Seq(Nat) /\ Len(tries') = Len(tries)
        BY <2>4, <4>2, ExceptSeq DEF CountWrong, Tables
      <4> QED
        BY <4>1, <4>3 DEF Grows
  <2>5. CASE Accept(v)
    <3> DEFINE o == mine[v]
    <3>1. o \in 1..Len(codes) /\ codes[o] \in CodeRecords
      BY <2>5, LenProperties, ElementOfSeq DEF Accept, CallsInv, Calls, Tables
    <3>2. CASE ~Unchanged(v)
      BY <1>0, <2>5, <3>2 DEF Accept
    <3>3. CASE Unchanged(v)
      <4> DEFINE n == codes[o].attempts + 1
      <4>1. codes' = [codes EXCEPT ![o] = [codes[o] EXCEPT !.live = FALSE, !.attempts = n]]
        BY <2>5, <3>1, <3>3 DEF Accept
      <4>2. n \in 0..MaxAttempts
        BY <2>5, <3>1, <3>3 DEF Accept, Unchanged, CodeRecords, CallsInv
      <4> HIDE DEF n
      <4>3. [codes[o] EXCEPT !.live = FALSE, !.attempts = n] \in CodeRecords
        BY <3>1, <4>2 DEF CodeRecords
      <4> QED
        BY <2>5, <1>a, <3>1, <4>1, <4>3, ChangedTable DEF CodeRecords, Accept
    <3> QED
      BY <3>2, <3>3
  <2> QED
    BY <1>2, <2>1, <2>2, <2>3, <2>4, <2>5 DEF Check
<1>3. CASE Tick
  BY <1>0, <1>3 DEF Tick
<1>4. CASE UNCHANGED vars
  BY <1>0, <1>4 DEF vars
<1> QED
  BY <1>1, <1>2, <1>3, <1>4 DEF Next

\* What a code is made of.
LEMMA RecordTypes ==
  ASSUME Tables
  PROVE  \A o \in 1..Len(codes) :
           /\ codes[o] \in CodeRecords
           /\ codes[o].created \in Nat /\ codes[o].purpose \in Purposes
           /\ codes[o].live \in BOOLEAN /\ codes[o].attempts \in 0..MaxAttempts
<1> SUFFICES ASSUME NEW o \in 1..Len(codes)
             PROVE  /\ codes[o] \in CodeRecords
                    /\ codes[o].created \in Nat /\ codes[o].purpose \in Purposes
                    /\ codes[o].live \in BOOLEAN /\ codes[o].attempts \in 0..MaxAttempts
  OBVIOUS
<1>1. codes[o] \in CodeRecords
  BY ElementOfSeq DEF Tables
<1> QED
  BY <1>1 DEF CodeRecords

\* Every step keeps the tables.
LEMMA TablesStep ==
  ASSUME Tables, CallsInv, [Next]_vars
  PROVE  Tables'
<1>1. Len(codes) \in Nat /\ Len(codes') \in Nat
  BY CodesEvolve, LenProperties DEF Tables, Evolves, Grows
<1>2. clock' \in 0..MaxClock /\ clock <= clock'
  <2>1. clock' = clock \/ Tick
    BY DEF Next, Request, Check, CheckInterval, CheckCount, ConsumeEarlier, Insert, Send,
           Withdraw, NoCode, ReadCode, Refuse, CountWrong, Accept, vars
  <2> QED
    BY <2>1, ConstantsAssumption DEF Tables, Tick
<1>3. \A o \in 1..Len(codes') : codes'[o].created <= clock'
  <2>1. CASE Len(codes') = Len(codes)
    <3> SUFFICES ASSUME NEW o \in 1..Len(codes) PROVE codes'[o].created <= clock'
      BY <2>1
    <3>1. codes'[o].created = codes[o].created
      BY CodesEvolve DEF Grows, Evolves
    <3> QED
      BY <1>2, <3>1, RecordTypes DEF Tables
  <2>2. ASSUME NEW r \in Requests, Insert(r)
        PROVE  \A o \in 1..Len(codes') : codes'[o].created <= clock'
    <3>1. Code(Purpose[r], clock) \in CodeRecords
      BY ConstantsAssumption DEF Code, CodeRecords, Purposes, Tables
    <3>2. /\ Len(codes') = Len(codes) + 1
          /\ codes'[Len(codes) + 1] = Code(Purpose[r], clock)
          /\ \A o \in 1..Len(codes) : codes'[o] = codes[o]
      BY <2>2, <3>1, AppendProperties DEF Insert, Tables
    <3>3. \A o \in 1..Len(codes) : codes[o].created \in Nat
      BY RecordTypes
    <3>4. codes'[Len(codes) + 1].created <= clock'
      BY <1>2, <3>2 DEF Code
    <3>5. \A o \in 1..Len(codes) : codes'[o].created <= clock'
      BY <1>2, <3>2, <3>3 DEF Tables
    <3>6. \A o \in 1..Len(codes') : o \in 1..Len(codes) \/ o = Len(codes) + 1
      BY <1>1, <3>2
    <3> QED
      BY <3>4, <3>5, <3>6
  <2> QED
    BY <2>1, <2>2, CodesEvolve DEF Grows
<1>4. tries' \in Seq(Nat) /\ Len(tries') = Len(codes')
  <2>1. ASSUME NEW r \in Requests, Insert(r)
        PROVE  tries' \in Seq(Nat) /\ Len(tries') = Len(codes')
    <3>1. Code(Purpose[r], clock) \in CodeRecords
      BY ConstantsAssumption DEF Code, CodeRecords, Purposes, Tables
    <3> QED
      BY <2>1, <3>1, AppendProperties DEF Insert, Tables
  <2> QED
    BY <2>1, CodesEvolve DEF Grows, Tables
<1> QED
  BY <1>1, <1>2, <1>3, <1>4, CodesEvolve DEF Tables, Evolves, Grows

\* How a step may change the times and the number of codes.
LEMMA Onwards ==
  ASSUME Tables, CallsInv, [Next]_vars
  PROVE  /\ Len(codes) \in Nat /\ Len(codes') \in Nat /\ Len(codes) <= Len(codes')
         /\ clock \in Nat /\ clock' \in Nat /\ clock <= clock'
<1>1. Len(codes) \in Nat /\ Len(codes') \in Nat
  BY CodesEvolve, LenProperties DEF Tables, Evolves, Grows
<1>2. clock \in Nat /\ clock' \in Nat /\ clock <= clock'
  <2>1. clock' = clock \/ Tick
    BY DEF Next, Request, Check, CheckInterval, CheckCount, ConsumeEarlier, Insert, Send,
           Withdraw, NoCode, ReadCode, Refuse, CountWrong, Accept, vars
  <2> QED
    BY <2>1, ConstantsAssumption DEF Tables, Tick
<1>3. ASSUME NEW r \in Requests, Insert(r) PROVE Len(codes') = Len(codes) + 1
  <2>1. Code(Purpose[r], clock) \in CodeRecords
    BY ConstantsAssumption DEF Code, CodeRecords, Purposes, Tables
  <2> QED
    BY <1>3, <2>1, AppendProperties DEF Insert, Tables
<1> QED
  BY <1>1, <1>2, <1>3, CodesEvolve DEF Grows

\* Every step keeps the calls.
LEMMA CallsStep ==
  ASSUME Tables, CallsInv, [Next]_vars
  PROVE  CallsInv'
<1> USE ConstantsAssumption, Onwards DEF CallsInv, Calls, Stages, Goto
<1>1. ASSUME NEW r \in Requests, Request(r) PROVE CallsInv'
  <2>1. CASE CheckInterval(r)
    BY <2>1 DEF CheckInterval
  <2>2. CASE CheckCount(r)
    BY <2>2 DEF CheckCount
  <2>3. CASE ConsumeEarlier(r)
    <3>1. /\ pc[r] = "consume" /\ pc' = [pc EXCEPT ![r] = "insert"]
          /\ UNCHANGED <<clock, began, mine, read, right>>
      BY <2>3 DEF ConsumeEarlier
    <3> QED
      BY <3>1
  <2>4. CASE Insert(r)
    <3>1. Code(Purpose[r], clock) \in CodeRecords
      BY DEF Code, CodeRecords, Purposes, Tables
    <3>2. Len(codes') = Len(codes) + 1
      BY <2>4, <3>1, AppendProperties DEF Insert, Tables
    <3> QED
      BY <2>4, <3>2 DEF Insert
  <2>5. CASE Send(r)
    BY <2>5 DEF Send
  <2>6. CASE Withdraw(r)
    BY <2>6 DEF Withdraw
  <2> QED
    BY <1>1, <2>1, <2>2, <2>3, <2>4, <2>5, <2>6 DEF Request
<1>2. ASSUME NEW v \in Checks, Check(v) PROVE CallsInv'
  <2>1. CASE NoCode(v)
    BY <2>1 DEF NoCode, Answer
  <2>2. CASE ReadCode(v)
    <3>1. PICK o \in Newest(Live(Purpose[v])) :
            /\ mine' = [mine EXCEPT ![v] = o]
            /\ read' = [read EXCEPT ![v] = codes[o].attempts]
      BY <2>2 DEF ReadCode
    <3>2. o \in 1..Len(codes) /\ codes[o].attempts \in Nat
      BY RecordTypes, LenProperties DEF Newest, Live, Tables
    <3>3. PICK b \in BOOLEAN : right' = [right EXCEPT ![v] = b]
      BY <2>2 DEF ReadCode
    <3> QED
      BY <2>2, <3>1, <3>2, <3>3 DEF ReadCode
  <2>3. CASE Refuse(v)
    <3>1. Answer(v, "invalid") /\ clock' = clock
      BY <2>3 DEF Refuse
    <3> QED
      BY <3>1 DEF Answer
  <2>4. CASE CountWrong(v)
    <3>1. Answer(v, "invalid") /\ clock' = clock
      BY <2>4 DEF CountWrong
    <3> QED
      BY <3>1 DEF Answer
  <2>5. CASE Accept(v)
    <3>1. pc[v] = "compare" /\ clock' = clock
      BY <2>5 DEF Accept
    <3>2. CASE Answer(v, "ok")
      BY <3>1, <3>2 DEF Answer
    <3>3. CASE Answer(v, "invalid")
      BY <3>1, <3>3 DEF Answer
    <3> QED
      BY <2>5, <3>2, <3>3 DEF Accept
  <2> QED
    BY <1>2, <2>1, <2>2, <2>3, <2>4, <2>5 DEF Check
<1>3. CASE Tick
  BY <1>3 DEF Tick
<1>4. CASE UNCHANGED vars
  BY <1>4 DEF vars
<1> QED
  BY <1>1, <1>2, <1>3, <1>4 DEF Next

\* The tables and the calls are well-formed in every state.
THEOREM AlwaysTyped == Spec => [](Tables /\ CallsInv)
<1>1. Init => Tables /\ CallsInv
  BY TablesInit
<1>2. Tables /\ CallsInv /\ [Next]_vars => (Tables /\ CallsInv)'
  BY TablesStep, CallsStep
<1> QED
  BY <1>1, <1>2, PTL DEF Spec

\* Attempts never pass the maximum, a code never comes from the future, and a
\* request has a code exactly from its insert on.
THEOREM TypeCorrect == Spec => []TypeOK
<1>1. ASSUME Tables, CallsInv PROVE TypeOK
  <2>1. /\ DOMAIN codes = 1..Len(codes) /\ DOMAIN tries = 1..Len(tries)
        /\ Len(codes) \in Nat
    BY <1>1, LenProperties DEF Tables
  <2>2. \A c \in Calls : mine[c] \in 0..Len(codes)
    BY <1>1, <2>1 DEF CallsInv
  <2>3. \A o \in DOMAIN codes : codes[o].created \in 0..clock
    BY <1>1, <2>1, RecordTypes, ConstantsAssumption DEF Tables
  <2> QED
    BY <1>1, <2>1, <2>2, <2>3, RecordTypes DEF TypeOK, Tables, CallsInv, Calls
<1> QED
  BY <1>1, AlwaysTyped, PTL

----------------------------------------------------------------------------
(* A code is used once.                                                    *)

\* A code that let a verification through is dead, and let no other through.
UsedInv ==
  /\ \A v \in Checks : pc[v] = "ok" => ~codes[mine[v]].live
  /\ \A v, w \in Checks : pc[v] = "ok" /\ pc[w] = "ok" /\ mine[v] = mine[w] => v = w

\* How a verification comes to be let through.
LEMMA LetThrough ==
  ASSUME Tables, CallsInv, [Next]_vars, NEW v \in Checks, pc'[v] = "ok"
  PROVE  \/ pc[v] = "ok" /\ mine'[v] = mine[v]
         \/ /\ Accept(v) /\ Unchanged(v) /\ mine'[v] = mine[v]
            /\ ~codes'[mine[v]].live
            /\ \A w \in Checks \ {v} : pc'[w] = pc[w] /\ mine'[w] = mine[w]
<1> USE DEF CallsInv, Calls, Stages, Goto
<1>1. ASSUME NEW r \in Requests, Request(r) PROVE pc[v] = "ok" /\ mine'[v] = mine[v]
  <2>1. r # v
    BY ConstantsAssumption
  <2>2. pc'[v] = pc[v] /\ mine'[v] = mine[v]
    BY <1>1, <2>1 DEF Request, CheckInterval, CheckCount, ConsumeEarlier, Insert, Send, Withdraw
  <2> QED
    BY <2>2
<1>2. ASSUME NEW w \in Checks, Check(w), w # v PROVE pc[v] = "ok" /\ mine'[v] = mine[v]
  <2>1. CASE NoCode(w)
    BY <1>2, <2>1 DEF NoCode, Answer
  <2>2. CASE ReadCode(w)
    BY <1>2, <2>2 DEF ReadCode
  <2>3. CASE Refuse(w)
    BY <1>2, <2>3 DEF Refuse, Answer
  <2>4. CASE CountWrong(w)
    <3>1. Answer(w, "invalid")
      BY <2>4 DEF CountWrong
    <3> QED
      BY <1>2, <3>1 DEF Answer
  <2>5. CASE Accept(w)
    <3>1. PICK stage \in {"ok", "invalid"} : Answer(w, stage)
      BY <2>5 DEF Accept
    <3> QED
      BY <1>2, <3>1 DEF Answer
  <2> QED
    BY <1>2, <2>1, <2>2, <2>3, <2>4, <2>5 DEF Check
<1>3. ASSUME Check(v)
      PROVE  /\ Accept(v) /\ Unchanged(v) /\ mine'[v] = mine[v]
             /\ ~codes'[mine[v]].live
             /\ \A w \in Checks \ {v} : pc'[w] = pc[w] /\ mine'[w] = mine[w]
  <2>1. ~NoCode(v) /\ ~Refuse(v)
    BY DEF NoCode, Refuse, Answer
  <2>2. ~ReadCode(v)
    BY DEF ReadCode
  <2>3. ~CountWrong(v)
    <3>1. CountWrong(v) => Answer(v, "invalid")
      BY DEF CountWrong
    <3> QED
      BY <3>1 DEF Answer
  <2>4. Accept(v)
    BY <1>3, <2>1, <2>2, <2>3 DEF Check
  <2>5. Unchanged(v)
    <3>1. ~Unchanged(v) => Answer(v, "invalid")
      BY <2>4 DEF Accept
    <3> QED
      BY <3>1 DEF Answer
  <2>6. Answer(v, "ok")
    BY <2>4, <2>5 DEF Accept
  <2>7. mine[v] \in 1..Len(codes) /\ codes[mine[v]] \in CodeRecords
    BY <2>4, LenProperties, ElementOfSeq DEF Accept, Tables
  <2>8. ~codes'[mine[v]].live
    <3> DEFINE n == codes[mine[v]].attempts + 1
    <3>1. codes' = [codes EXCEPT ![mine[v]] =
                      [codes[mine[v]] EXCEPT !.live = FALSE, !.attempts = n]]
      BY <2>4, <2>5, <2>7 DEF Accept
    <3> HIDE DEF n
    <3>2. codes'[mine[v]] = [codes[mine[v]] EXCEPT !.live = FALSE, !.attempts = n]
      <4>1. mine[v] \in DOMAIN codes
        BY <2>7, LenProperties DEF Tables
      <4> QED
        BY <3>1, <4>1
    <3> QED
      BY <2>7, <3>2 DEF CodeRecords
  <2> QED
    BY <2>4, <2>5, <2>6, <2>8 DEF Answer
<1>4. CASE Tick
  BY <1>4 DEF Tick
<1>5. CASE UNCHANGED vars
  BY <1>5 DEF vars
<1> QED
  BY <1>1, <1>2, <1>3, <1>4, <1>5 DEF Next

\* A code lets at most one verification through, however many run at once.
THEOREM CodesAreUsedOnce == Spec => []UsedOnce
<1>1. Init => UsedInv
  BY DEF Init, UsedInv
<1>2. ASSUME Tables, CallsInv, UsedInv, [Next]_vars PROVE UsedInv'
  <2>1. ASSUME NEW v \in Checks, pc'[v] = "ok" PROVE ~codes'[mine'[v]].live
    <3>1. CASE pc[v] = "ok" /\ mine'[v] = mine[v]
      <4>1. ~codes[mine[v]].live /\ mine[v] \in 1..Len(codes)
        BY <1>2, <3>1, LenProperties DEF UsedInv, CallsInv, Calls, Tables
      <4>2. codes'[mine[v]].live => codes[mine[v]].live
        BY <1>2, <4>1, CodesEvolve DEF Grows, Evolves
      <4> QED
        BY <3>1, <4>1, <4>2
    <3>2. CASE ~codes'[mine[v]].live /\ mine'[v] = mine[v]
      BY <3>2
    <3> QED
      BY <1>2, <2>1, <3>1, <3>2, LetThrough
  <2>2. ASSUME NEW v \in Checks, NEW w \in Checks, pc'[v] = "ok", pc'[w] = "ok",
               mine'[v] = mine'[w], v # w
        PROVE  FALSE
    <3>1. ASSUME NEW x \in Checks, NEW y \in Checks, x # y, pc'[y] = "ok",
                 mine'[x] = mine'[y],
                 Unchanged(x), mine'[x] = mine[x],
                 \A z \in Checks \ {x} : pc'[z] = pc[z] /\ mine'[z] = mine[z]
          PROVE  FALSE
      <4>1. pc[y] = "ok" /\ mine[y] = mine[x]
        BY <3>1
      <4>2. ~codes[mine[y]].live
        BY <1>2, <4>1 DEF UsedInv
      <4> QED
        BY <3>1, <4>1, <4>2 DEF Unchanged
    <3>2. CASE Unchanged(v) /\ mine'[v] = mine[v]
               /\ \A z \in Checks \ {v} : pc'[z] = pc[z] /\ mine'[z] = mine[z]
      BY <2>2, <3>1, <3>2
    <3>3. CASE Unchanged(w) /\ mine'[w] = mine[w]
               /\ \A z \in Checks \ {w} : pc'[z] = pc[z] /\ mine'[z] = mine[z]
      BY <2>2, <3>1, <3>3
    <3>4. CASE pc[v] = "ok" /\ mine'[v] = mine[v] /\ pc[w] = "ok" /\ mine'[w] = mine[w]
      BY <1>2, <2>2, <3>4 DEF UsedInv
    <3> QED
      BY <1>2, <2>2, <3>2, <3>3, <3>4, LetThrough
  <2> QED
    BY <2>1, <2>2 DEF UsedInv
<1>3. Spec => []UsedInv
  BY <1>1, <1>2, AlwaysTyped, PTL DEF Spec
<1>4. ASSUME UsedInv PROVE UsedOnce
  <2> SUFFICES ASSUME NEW o \in DOMAIN codes
               PROVE  Cardinality({v \in Checks : pc[v] = "ok" /\ mine[v] = o}) <= 1
    BY DEF UsedOnce
  <2> DEFINE S == {v \in Checks : pc[v] = "ok" /\ mine[v] = o}
  <2>1. S = {} \/ \E v : S = {v}
    BY <1>4 DEF UsedInv
  <2> HIDE DEF S
  <2>2. Cardinality(S) <= 1
    BY <2>1, FS_EmptySet, FS_Singleton
  <2> QED
    BY <2>2 DEF S
<1> QED
  BY <1>3, <1>4, PTL

----------------------------------------------------------------------------
(* A new code extinguishes the old ones.                                   *)

Past == {"insert", "send", "sent", "unsend", "failed"}

\* Once a request has consumed the codes of its purpose, those older than the
\* request are dead, whatever other requests insert meanwhile.
DeadInv ==
  /\ \A r \in Requests : pc[r] \in Past =>
       \A o \in 1..Len(codes) :
         codes[o].purpose = Purpose[r] /\ codes[o].created < began[r] => ~codes[o].live
  /\ \A c \in Calls : mine[c] # 0 => codes[mine[c]].purpose = Purpose[c]

\* What a step does to the stage and the code of a request.
LEMMA Stage ==
  ASSUME Tables, CallsInv, [Next]_vars, NEW r \in Requests
  PROVE  \/ pc'[r] = pc[r] /\ mine'[r] = mine[r]
         \/ Request(r) /\ \A q \in Calls \ {r} : pc'[q] = pc[q] /\ mine'[q] = mine[q]
<1> USE DEF CallsInv, Calls, Stages, Goto
<1>1. ASSUME NEW q \in Requests, Request(q)
      PROVE  \A c \in Calls \ {q} : pc'[c] = pc[c] /\ mine'[c] = mine[c]
  BY <1>1 DEF Request, CheckInterval, CheckCount, ConsumeEarlier, Insert, Send, Withdraw
<1>2. ASSUME NEW v \in Checks, Check(v) PROVE pc'[r] = pc[r] /\ mine'[r] = mine[r]
  <2>0. r # v
    BY ConstantsAssumption
  <2>1. CASE NoCode(v)
    BY <2>0, <2>1 DEF NoCode, Answer
  <2>2. CASE ReadCode(v)
    BY <2>0, <2>2 DEF ReadCode
  <2>3. CASE Refuse(v)
    BY <2>0, <2>3 DEF Refuse, Answer
  <2>4. CASE CountWrong(v)
    <3>1. Answer(v, "invalid")
      BY <2>4 DEF CountWrong
    <3> QED
      BY <2>0, <3>1 DEF Answer
  <2>5. CASE Accept(v)
    <3>1. PICK stage \in {"ok", "invalid"} : Answer(v, stage)
      BY <2>5 DEF Accept
    <3> QED
      BY <2>0, <3>1 DEF Answer
  <2> QED
    BY <1>2, <2>1, <2>2, <2>3, <2>4, <2>5 DEF Check
<1>3. CASE Tick
  BY <1>3 DEF Tick
<1>4. CASE UNCHANGED vars
  BY <1>4 DEF vars
<1> QED
  BY <1>1, <1>2, <1>3, <1>4 DEF Next

\* What an Insert appends.
LEMMA Inserted ==
  ASSUME Tables, NEW r \in Requests, Insert(r)
  PROVE  /\ Len(codes') = Len(codes) + 1 /\ Len(codes) \in Nat
         /\ codes'[Len(codes) + 1].purpose = Purpose[r]
         /\ codes'[Len(codes) + 1].created = clock
         /\ \A o \in 1..Len(codes) : codes'[o] = codes[o]
<1>1. Code(Purpose[r], clock) \in CodeRecords
  BY ConstantsAssumption DEF Code, CodeRecords, Purposes, Tables
<1>2. /\ Len(codes') = Len(codes) + 1 /\ Len(codes) \in Nat
      /\ codes'[Len(codes) + 1] = Code(Purpose[r], clock)
      /\ \A o \in 1..Len(codes) : codes'[o] = codes[o]
  BY <1>1, AppendProperties, LenProperties DEF Insert, Tables
<1> QED
  BY <1>2 DEF Code

\* Where the code of a call comes from.
LEMMA CodeOf ==
  ASSUME Tables, CallsInv, [Next]_vars, NEW c \in Calls, mine'[c] # 0
  PROVE  \/ mine'[c] = mine[c]
         \/ c \in Requests /\ Insert(c) /\ mine'[c] = Len(codes) + 1
         \/ mine'[c] \in Live(Purpose[c]) /\ codes' = codes
<1> USE DEF CallsInv, Calls, Stages, Goto
<1>1. ASSUME NEW q \in Requests, Request(q)
      PROVE  \/ mine'[c] = mine[c]
             \/ c \in Requests /\ Insert(c) /\ mine'[c] = Len(codes) + 1
  <2>1. CASE Insert(q)
    <3>1. CASE c = q
      BY <2>1, <3>1 DEF Insert
    <3>2. CASE c # q
      BY <2>1, <3>2 DEF Insert
    <3> QED
      BY <3>1, <3>2
  <2> QED
    BY <1>1, <2>1 DEF Request, CheckInterval, CheckCount, ConsumeEarlier, Send, Withdraw
<1>2. ASSUME NEW v \in Checks, Check(v)
      PROVE  \/ mine'[c] = mine[c]
             \/ mine'[c] \in Live(Purpose[c]) /\ codes' = codes
  <2>1. CASE ReadCode(v)
    <3>1. PICK o \in Newest(Live(Purpose[v])) : mine' = [mine EXCEPT ![v] = o]
      BY <2>1 DEF ReadCode
    <3>2. o \in Live(Purpose[v]) /\ codes' = codes
      BY <2>1 DEF Newest, ReadCode
    <3> QED
      BY <3>1, <3>2
  <2>2. ASSUME NEW stage, Answer(v, stage) PROVE mine'[c] = mine[c]
    BY <2>2 DEF Answer
  <2>3. CASE NoCode(v)
    BY <2>2, <2>3 DEF NoCode
  <2>4. CASE Refuse(v)
    BY <2>2, <2>4 DEF Refuse
  <2>5. CASE CountWrong(v)
    BY <2>2, <2>5 DEF CountWrong
  <2>6. CASE Accept(v)
    BY <2>2, <2>6 DEF Accept
  <2> QED
    BY <1>2, <2>1, <2>3, <2>4, <2>5, <2>6 DEF Check
<1>3. CASE Tick
  BY <1>3 DEF Tick
<1>4. CASE UNCHANGED vars
  BY <1>4 DEF vars
<1> QED
  BY <1>1, <1>2, <1>3, <1>4 DEF Next

\* A request keeps the time at which it began.
LEMMA Began ==
  ASSUME Tables, CallsInv, [Next]_vars, NEW r \in Requests, pc'[r] \in Past
  PROVE  began'[r] = began[r] /\ (pc[r] \in Past \/ ConsumeEarlier(r))
<1> USE DEF CallsInv, Calls, Stages, Goto, Past
<1>1. ASSUME NEW q \in Requests, Request(q)
      PROVE  began'[r] = began[r] /\ (pc[r] \in Past \/ ConsumeEarlier(r))
  <2>1. CASE CheckInterval(q)
    BY <2>1 DEF CheckInterval
  <2>2. CASE CheckCount(q)
    BY <2>2 DEF CheckCount
  <2>3. CASE ConsumeEarlier(q)
    <3>1. began' = began /\ \A c \in Requests : c # q => pc'[c] = pc[c]
      BY <2>3 DEF ConsumeEarlier
    <3> QED
      BY <2>3, <3>1
  <2>4. CASE Insert(q) \/ Send(q) \/ Withdraw(q)
    BY <2>4 DEF Insert, Send, Withdraw
  <2> QED
    BY <1>1, <2>1, <2>2, <2>3, <2>4 DEF Request
<1>2. ASSUME NEW v \in Checks, Check(v) PROVE began'[r] = began[r] /\ pc[r] \in Past
  <2>0. r # v
    BY ConstantsAssumption
  <2>1. ASSUME NEW stage, Answer(v, stage) PROVE began'[r] = began[r] /\ pc'[r] = pc[r]
    BY <2>0, <2>1 DEF Answer
  <2>2. CASE ReadCode(v)
    BY <2>0, <2>2 DEF ReadCode
  <2>3. CASE NoCode(v) \/ Refuse(v) \/ CountWrong(v) \/ Accept(v)
    BY <2>1, <2>3 DEF NoCode, Refuse, CountWrong, Accept
  <2> QED
    BY <1>2, <2>2, <2>3 DEF Check
<1>3. CASE Tick
  BY <1>3 DEF Tick
<1>4. CASE UNCHANGED vars
  BY <1>4 DEF vars
<1> QED
  BY <1>1, <1>2, <1>3, <1>4 DEF Next

LEMMA DeadStep ==
  ASSUME Tables, CallsInv, CallsInv', DeadInv, [Next]_vars
  PROVE  DeadInv'
<1>0. Len(codes) \in Nat /\ Len(codes') \in Nat /\ Len(codes) <= Len(codes')
  BY Onwards
<1>1. ASSUME NEW r \in Requests, pc'[r] \in Past, NEW o \in 1..Len(codes'),
             codes'[o].purpose = Purpose[r], codes'[o].created < began'[r]
      PROVE  ~codes'[o].live
  <2>1. began'[r] = began[r] /\ began[r] <= clock /\ began[r] \in Nat /\ clock \in Nat
    BY <1>1, Began, Onwards DEF CallsInv, Calls
  <2>2. o \in 1..Len(codes)
    <3>1. ASSUME NEW q \in Requests, Insert(q), o = Len(codes) + 1 PROVE FALSE
      <4>1. codes'[o].created = clock
        BY <3>1, Inserted
      <4> QED
        BY <1>1, <2>1, <4>1
    <3>2. Len(codes') = Len(codes) \/ \E q \in Requests : Insert(q)
      BY CodesEvolve DEF Grows
    <3>3. ASSUME NEW q \in Requests, Insert(q) PROVE Len(codes') = Len(codes) + 1
      BY <3>3, Inserted
    <3> QED
      BY <1>0, <1>1, <3>1, <3>2, <3>3
  <2>3. /\ codes'[o].purpose = codes[o].purpose /\ codes'[o].created = codes[o].created
        /\ codes'[o].live => codes[o].live
    BY <2>2, CodesEvolve DEF Grows, Evolves
  <2>4. CASE pc[r] \in Past
    BY <1>1, <2>1, <2>2, <2>3, <2>4 DEF DeadInv
  <2>5. CASE ConsumeEarlier(r)
    <3> DEFINE D == {p \in 1..Len(codes) : codes[p].purpose = Purpose[r]}
    <3>1. codes' = [p \in DOMAIN codes |->
                      IF p \in D THEN [codes[p] EXCEPT !.live = FALSE] ELSE codes[p]]
      BY <2>5, LenProperties DEF ConsumeEarlier, Tables
    <3>2. codes'[o] = IF o \in D THEN [codes[o] EXCEPT !.live = FALSE] ELSE codes[o]
      BY <2>2, <3>1, MarkedTable
    <3>3. codes'[o] = [codes[o] EXCEPT !.live = FALSE] /\ codes[o] \in CodeRecords
      BY <1>1, <2>2, <2>3, <3>2, RecordTypes
    <3> QED
      BY <3>3 DEF CodeRecords
  <2> QED
    BY <1>1, <2>4, <2>5, Began
<1>2. ASSUME NEW c \in Calls, mine'[c] # 0 PROVE codes'[mine'[c]].purpose = Purpose[c]
  <2>1. CASE mine'[c] = mine[c]
    <3>1. mine[c] \in 1..Len(codes)
      BY <1>0, <1>2, <2>1 DEF CallsInv
    <3>2. codes'[mine[c]].purpose = codes[mine[c]].purpose
      BY <3>1, CodesEvolve DEF Grows, Evolves
    <3> QED
      BY <1>2, <2>1, <3>2 DEF DeadInv
  <2>2. CASE c \in Requests /\ Insert(c) /\ mine'[c] = Len(codes) + 1
    BY <2>2, Inserted
  <2>3. CASE mine'[c] \in Live(Purpose[c]) /\ codes' = codes
    BY <2>3 DEF Live
  <2> QED
    BY <1>2, <2>1, <2>2, <2>3, CodeOf
<1> QED
  BY <1>1, <1>2 DEF DeadInv

\* Once a request has inserted its code, no verification is let through by a code
\* of the purpose that is older than the request, however many of both overlap.
THEOREM EarlierCodesAreDead == Spec => NewestOnly
<1>1. Init => DeadInv
  <2> SUFFICES ASSUME Init PROVE DeadInv
    OBVIOUS
  <2>1. Len(codes) = 0
    BY EmptySeq DEF Init
  <2> QED
    BY <2>1 DEF Init, DeadInv, Past, Calls
<1>2. Spec => [](Tables /\ CallsInv /\ DeadInv)
  BY <1>1, DeadStep, AlwaysTyped, PTL DEF Spec
<1> DEFINE Step(v) == pc[v] # "ok" /\ pc'[v] = "ok" =>
                        ~\E r \in Requests :
                            /\ Purpose[r] = Purpose[v] /\ mine[r] # 0
                            /\ codes[mine[v]].created < began[r]
<1>3. ASSUME Tables, CallsInv, DeadInv, [Next]_vars, NEW v \in Checks PROVE Step(v)
  <2> SUFFICES ASSUME pc[v] # "ok", pc'[v] = "ok",
                      NEW r \in Requests, Purpose[r] = Purpose[v], mine[r] # 0,
                      codes[mine[v]].created < began[r]
               PROVE  FALSE
    OBVIOUS
  <2>1. Accept(v) /\ Unchanged(v)
    BY <1>3, LetThrough
  <2>2. mine[v] \in 1..Len(codes)
    BY <1>3, <2>1, LenProperties DEF Accept, CallsInv, Calls, Tables
  <2>3. codes[mine[v]].purpose = Purpose[r]
    BY <1>3, <2>2 DEF DeadInv, Calls
  <2>4. pc[r] \in Past
    BY <1>3 DEF CallsInv, Past
  <2>5. ~codes[mine[v]].live
    BY <1>3, <2>2, <2>3, <2>4 DEF DeadInv
  <2> QED
    BY <2>1, <2>5 DEF Unchanged
<1>4. ASSUME Tables, CallsInv, DeadInv, [Next]_vars PROVE [\A v \in Checks : Step(v)]_vars
  BY <1>3, <1>4
<1> QED
  BY <1>2, <1>4, PTL DEF Spec, NewestOnly

----------------------------------------------------------------------------
(* The limits, for requests that overlap.                                  *)

\* The requests at some stage; the stages of one that runs, of one that passed the
\* interval and has not inserted, and of one that passed the count as well.
At(stages) == {r \in Requests : pc[r] \in stages}
Busy     == {"count", "consume", "insert", "send", "unsend"}
Waiting  == {"count", "consume", "insert"}
Admitted == {"consume", "insert"}

\* Every code that may still be inserted is counted with those that are there: a
\* request that checks finds the others in one of the two.
RateInv ==
  /\ Cardinality(At(Busy)) <= RequestsAtOnce
  /\ Cardinality(Young) + Cardinality(At(Waiting)) <= RequestsAtOnce
  /\ Cardinality(Recent(clock)) + Cardinality(At(Admitted)) <= PerWindow + RequestsAtOnce - 1
  /\ \A o \in 1..Len(codes) : codes[o].created <= codes[Len(codes)].created

\* One element more makes a set larger by one at most.
LEMMA AddOne ==
  ASSUME NEW S, NEW x, IsFiniteSet(S)
  PROVE  /\ IsFiniteSet(S \cup {x}) /\ Cardinality(S) \in Nat
         /\ Cardinality(S \cup {x}) \in Nat
         /\ Cardinality(S \cup {x}) <= Cardinality(S) + 1
<1>1. /\ IsFiniteSet(S \cup {x})
      /\ Cardinality(S \cup {x}) = IF x \in S THEN Cardinality(S) ELSE Cardinality(S) + 1
  BY FS_AddElement
<1>2. Cardinality(S) \in Nat
  BY FS_CardinalityType
<1>3. Cardinality(S \cup {x}) \in {Cardinality(S), Cardinality(S) + 1}
  BY <1>1
<1> QED
  BY <1>1, <1>2, <1>3

\* There are finitely many codes in a window.
LEMMA RecentFinite ==
  ASSUME Tables, NEW t
  PROVE  /\ Recent(t) \in SUBSET (1..Len(codes))
         /\ IsFiniteSet(Recent(t)) /\ Cardinality(Recent(t)) \in Nat
<1>1. DOMAIN codes = 1..Len(codes) /\ Len(codes) \in Nat
  BY LenProperties DEF Tables
<1>2. Recent(t) \in SUBSET (1..Len(codes))
  BY <1>1 DEF Recent
<1>3. IsFiniteSet(1..Len(codes))
  BY <1>1, FS_Interval
<1>4. IsFiniteSet(Recent(t))
  BY <1>2, <1>3, FS_Subset
<1> QED
  BY <1>2, <1>4, FS_CardinalityType

\* A later window holds no more codes.
LEMMA RecentLater ==
  ASSUME Tables, NEW s \in Nat, NEW t \in Nat, s <= t
  PROVE  Cardinality(Recent(t)) <= Cardinality(Recent(s))
<1>1. \A o \in DOMAIN codes : codes[o].created \in Nat
  BY RecordTypes, LenProperties DEF Tables
<1>2. Recent(t) \in SUBSET Recent(s)
  BY <1>1, ConstantsAssumption DEF Recent
<1> QED
  BY <1>2, RecentFinite, FS_Subset

\* Without an insert the codes of the window get no more.
LEMMA RecentStep ==
  ASSUME Tables, CallsInv, [Next]_vars, ~\E r \in Requests : Insert(r)
  PROVE  /\ Cardinality(Recent(clock))' <= Cardinality(Recent(clock))
         /\ Cardinality(Recent(clock))' \in Nat
<1>1. Len(codes') = Len(codes) /\ codes' \in Seq(CodeRecords)
  BY CodesEvolve DEF Grows, Evolves
<1>2. DOMAIN codes = 1..Len(codes) /\ DOMAIN codes' = 1..Len(codes)
  BY <1>1, LenProperties DEF Tables
<1>3. \A o \in 1..Len(codes) : codes'[o].created = codes[o].created /\ codes[o].created \in Nat
  BY CodesEvolve, RecordTypes DEF Grows, Evolves
<1>4. Recent(clock)' = {o \in 1..Len(codes) : codes[o].created + Window >= clock'}
  BY <1>2, <1>3 DEF Recent
<1>5. Recent(clock') = {o \in 1..Len(codes) : codes[o].created + Window >= clock'}
  BY <1>2 DEF Recent
<1>6. Cardinality(Recent(clock'))<= Cardinality(Recent(clock))
  BY Onwards, RecentLater
<1>7. Cardinality(Recent(clock')) \in Nat
  BY RecentFinite
<1> QED
  BY <1>4, <1>5, <1>6, <1>7

\* The same of the codes younger than the interval.
LEMMA YoungFinite ==
  ASSUME Tables
  PROVE  /\ Young \in SUBSET (1..Len(codes))
         /\ IsFiniteSet(Young) /\ Cardinality(Young) \in Nat
<1>1. DOMAIN codes = 1..Len(codes) /\ Len(codes) \in Nat
  BY LenProperties DEF Tables
<1>2. Young \in SUBSET (1..Len(codes))
  BY <1>1 DEF Young
<1>3. IsFiniteSet(1..Len(codes))
  BY <1>1, FS_Interval
<1>4. IsFiniteSet(Young)
  BY <1>2, <1>3, FS_Subset
<1> QED
  BY <1>2, <1>4, FS_CardinalityType

LEMMA YoungStep ==
  ASSUME Tables, CallsInv, [Next]_vars, ~\E r \in Requests : Insert(r)
  PROVE  Cardinality(Young)' <= Cardinality(Young) /\ Cardinality(Young)' \in Nat
<1>1. Len(codes') = Len(codes) /\ codes' \in Seq(CodeRecords)
  BY CodesEvolve DEF Grows, Evolves
<1>2. DOMAIN codes = 1..Len(codes) /\ DOMAIN codes' = 1..Len(codes)
  BY <1>1, LenProperties DEF Tables
<1>3. \A o \in 1..Len(codes) : codes'[o].created = codes[o].created /\ codes[o].created \in Nat
  BY CodesEvolve, RecordTypes DEF Grows, Evolves
<1>4. Young' = {o \in 1..Len(codes) : clock' - codes[o].created < MinInterval}
  BY <1>2, <1>3 DEF Young
<1>5. Young = {o \in 1..Len(codes) : clock - codes[o].created < MinInterval}
  BY <1>2 DEF Young
<1>6. Young' \in SUBSET Young
  BY <1>3, <1>4, <1>5, Onwards, ConstantsAssumption
<1> QED
  BY <1>6, YoungFinite, FS_Subset, FS_CardinalityType

\* Requests at fewer stages are no more.
LEMMA AtFinite ==
  ASSUME NEW S
  PROVE  /\ IsFiniteSet(At(S)) /\ Cardinality(At(S)) \in Nat
         /\ IsFiniteSet(At(S)') /\ Cardinality(At(S)') \in Nat
<1>1. At(S) \in SUBSET Requests /\ At(S)' \in SUBSET Requests
  BY DEF At
<1> QED
  BY <1>1, FS_Subset, FS_CardinalityType, ConstantsAssumption

\* How a step moves the requests.
LEMMA Moves ==
  ASSUME Tables, CallsInv, [Next]_vars
  PROVE  \/ \A r \in Requests : pc'[r] = pc[r]
         \/ \E r \in Requests :
              /\ Request(r) /\ \A q \in Requests \ {r} : pc'[q] = pc[q]
              /\ \/ CheckInterval(r) /\ pc[r] = "idle"
                    /\ pc'[r] = IF TooSoon THEN "limited" ELSE "count"
                 \/ CheckCount(r) /\ pc[r] = "count" /\ pc'[r] \in {"consume", "limited"}
                 \/ Insert(r) /\ pc[r] = "insert" /\ pc'[r] = "send"
                 \/ pc[r] = "consume" /\ pc'[r] = "insert"
                 \/ pc[r] \in {"send", "unsend"} /\ pc'[r] \in {"sent", "unsend", "failed"}
<1>1. ASSUME NEW r \in Requests, pc'[r] # pc[r]
      PROVE  Request(r) /\ \A q \in Requests \ {r} : pc'[q] = pc[q]
  BY <1>1, Stage DEF Calls
<1>2. ASSUME NEW r \in Requests, Request(r)
      PROVE  \/ CheckInterval(r) /\ pc[r] = "idle"
                /\ pc'[r] = IF TooSoon THEN "limited" ELSE "count"
             \/ CheckCount(r) /\ pc[r] = "count" /\ pc'[r] \in {"consume", "limited"}
             \/ Insert(r) /\ pc[r] = "insert" /\ pc'[r] = "send"
             \/ pc[r] = "consume" /\ pc'[r] = "insert"
             \/ pc[r] \in {"send", "unsend"} /\ pc'[r] \in {"sent", "unsend", "failed"}
  <2> USE DEF Goto, CallsInv, Calls
  <2>1. CASE CheckInterval(r)
    BY <2>1 DEF CheckInterval
  <2>2. CASE CheckCount(r)
    BY <2>2 DEF CheckCount
  <2>3. CASE ConsumeEarlier(r)
    <3>1. pc[r] = "consume" /\ pc' = [pc EXCEPT ![r] = "insert"]
      BY <2>3 DEF ConsumeEarlier
    <3> QED
      BY <3>1
  <2>4. CASE Insert(r)
    BY <2>4 DEF Insert
  <2>5. CASE Send(r) \/ Withdraw(r)
    BY <2>5 DEF Send, Withdraw
  <2> QED
    BY <1>2, <2>1, <2>2, <2>3, <2>4, <2>5 DEF Request
<1> QED
  BY <1>1, <1>2

LEMMA RateStep ==
  ASSUME Tables, CallsInv, RateInv, [Next]_vars
  PROVE  RateInv'
<1>0. /\ Len(codes) \in Nat /\ Len(codes') \in Nat /\ Len(codes) <= Len(codes')
      /\ clock \in Nat /\ clock' \in Nat /\ clock <= clock'
  BY Onwards
<1>a. /\ Cardinality(Young) \in Nat /\ Cardinality(Recent(clock)) \in Nat
      /\ \A t : Cardinality(Recent(t)) \in Nat
  BY RecentFinite, YoungFinite
<1>b. /\ PerWindow \in Nat /\ MinInterval \in Nat /\ Window \in Nat
      /\ RequestsAtOnce \in Nat /\ RequestsAtOnce >= 1
  BY ConstantsAssumption
<1>c. /\ Cardinality(At(Busy)) \in Nat /\ Cardinality(At(Busy)') \in Nat
      /\ Cardinality(At(Waiting)) \in Nat /\ Cardinality(At(Waiting)') \in Nat
      /\ Cardinality(At(Admitted)) \in Nat /\ Cardinality(At(Admitted)') \in Nat
  BY AtFinite
<1>d. At(Waiting)' \in SUBSET At(Busy)' /\ At(Admitted)' \in SUBSET At(Busy)'
  BY DEF At, Busy, Waiting, Admitted
<1>e. /\ Cardinality(At(Waiting)') <= Cardinality(At(Busy)')
      /\ Cardinality(At(Admitted)') <= Cardinality(At(Busy)')
  BY <1>d, AtFinite, FS_Subset
<1>f. \A S : At(S)' \in SUBSET At(S) => Cardinality(At(S)') <= Cardinality(At(S))
  BY AtFinite, FS_Subset
<1>1. Cardinality(At(Busy)') <= RequestsAtOnce
  <2>1. CASE At(Busy)' \in SUBSET At(Busy)
    BY <1>b, <1>c, <1>f, <2>1 DEF RateInv
  <2>2. CASE ~(At(Busy)' \in SUBSET At(Busy))
    <3>1. PICK r \in Requests : CheckInterval(r) /\ \A q \in Requests \ {r} : pc'[q] = pc[q]
      BY <2>2, Moves DEF At, Busy
    <3>2. Running(Requests) = At(Busy)
      BY DEF Running, At, Busy, Closed, CallsInv, Calls, Stages
    <3>3. Cardinality(At(Busy)) < RequestsAtOnce
      BY <3>1, <3>2 DEF CheckInterval, Room
    <3>4. At(Busy)' \in SUBSET (At(Busy) \cup {r})
      BY <3>1 DEF At
    <3>5. /\ IsFiniteSet(At(Busy) \cup {r})
          /\ Cardinality(At(Busy) \cup {r}) <= Cardinality(At(Busy)) + 1
      BY AtFinite, AddOne
    <3>6. Cardinality(At(Busy)') <= Cardinality(At(Busy) \cup {r})
      BY <3>4, <3>5, FS_Subset
    <3>7. Cardinality(At(Busy) \cup {r}) \in Nat
      BY <3>5, FS_CardinalityType
    <3> QED
      BY <1>b, <1>c, <3>3, <3>5, <3>6, <3>7
  <2> QED
    BY <2>1, <2>2
<1>2. ASSUME NEW q \in Requests, Insert(q) PROVE RateInv'
  <2>1. /\ Len(codes') = Len(codes) + 1
        /\ codes'[Len(codes) + 1].created = clock
        /\ \A o \in 1..Len(codes) : codes'[o] = codes[o]
    BY <1>2, Inserted
  <2>2. clock' = clock /\ pc[q] = "insert"
    BY <1>2 DEF Insert
  <2>3. DOMAIN codes = 1..Len(codes) /\ DOMAIN codes' = 1..Len(codes')
    BY CodesEvolve, LenProperties DEF Tables, Grows, Evolves
  <2>4. 1..Len(codes') = 1..Len(codes) \cup {Len(codes) + 1}
    BY <1>0, <2>1
  <2>5. Recent(clock)' = Recent(clock) \cup {Len(codes) + 1}
    <3>1. Recent(clock)' = {o \in 1..Len(codes') : codes'[o].created + Window >= clock}
      BY <2>2, <2>3 DEF Recent
    <3>2. Recent(clock) = {o \in 1..Len(codes) : codes[o].created + Window >= clock}
      BY <2>3 DEF Recent
    <3>3. codes'[Len(codes) + 1].created + Window >= clock
      BY <1>0, <1>b, <2>1
    <3> QED
      BY <2>1, <2>4, <3>1, <3>2, <3>3
  <2>6. Young' \in SUBSET (Young \cup {Len(codes) + 1})
    <3>1. Young' = {o \in 1..Len(codes') : clock - codes'[o].created < MinInterval}
      BY <2>2, <2>3 DEF Young
    <3>2. Young = {o \in 1..Len(codes) : clock - codes[o].created < MinInterval}
      BY <2>3 DEF Young
    <3> QED
      BY <2>1, <2>4, <3>1, <3>2
  <2>7. /\ Cardinality(Recent(clock) \cup {Len(codes) + 1}) <= Cardinality(Recent(clock)) + 1
        /\ Cardinality(Recent(clock))' \in Nat
    <3>1. IsFiniteSet(Recent(clock))
      BY RecentFinite
    <3>2. /\ IsFiniteSet(Recent(clock) \cup {Len(codes) + 1})
          /\ Cardinality(Recent(clock) \cup {Len(codes) + 1}) <= Cardinality(Recent(clock)) + 1
      BY <3>1, AddOne
    <3> QED
      BY <2>5, <3>2, FS_CardinalityType
  <2>8. Cardinality(Young') <= Cardinality(Young) + 1 /\ Cardinality(Young') \in Nat
    <3>1. IsFiniteSet(Young)
      BY YoungFinite
    <3>2. /\ IsFiniteSet(Young \cup {Len(codes) + 1})
          /\ Cardinality(Young \cup {Len(codes) + 1}) <= Cardinality(Young) + 1
      BY <3>1, AddOne
    <3>3. Cardinality(Young') <= Cardinality(Young \cup {Len(codes) + 1}) /\ IsFiniteSet(Young')
      BY <2>6, <3>2, FS_Subset
    <3> QED
      BY <1>a, <3>2, <3>3, FS_CardinalityType
  <2>9. \A S \in {Waiting, Admitted} : At(S)' = At(S) \ {q} /\ q \in At(S)
    BY <1>2, <2>2 DEF Insert, Goto, CallsInv, Calls, At, Waiting, Admitted
  <2>10. \A S \in {Waiting, Admitted} : Cardinality(At(S)') = Cardinality(At(S)) - 1
    BY <2>9, AtFinite, FS_RemoveElement
  <2>11. ASSUME NEW o \in 1..Len(codes') PROVE codes'[o].created <= codes'[Len(codes')].created
    <3>1. CASE o \in 1..Len(codes)
      BY <2>1, <3>1, RecordTypes DEF Tables
    <3>2. CASE o = Len(codes')
      BY <1>0, <2>1, <3>2
    <3> QED
      BY <2>1, <2>4, <3>1, <3>2
  <2>12. Cardinality(Young') + Cardinality(At(Waiting)') <= RequestsAtOnce
    BY <1>a, <1>b, <1>c, <2>8, <2>10 DEF RateInv
  <2>13. Cardinality(Recent(clock))' + Cardinality(At(Admitted)')
           <= PerWindow + RequestsAtOnce - 1
    BY <1>a, <1>b, <1>c, <2>5, <2>7, <2>10 DEF RateInv
  <2> QED
    BY <1>1, <2>11, <2>12, <2>13 DEF RateInv
<1>3. ASSUME ~\E q \in Requests : Insert(q) PROVE RateInv'
  <2>1. /\ Cardinality(Recent(clock))' <= Cardinality(Recent(clock))
        /\ Cardinality(Recent(clock))' \in Nat
        /\ Cardinality(Young)' <= Cardinality(Young) /\ Cardinality(Young)' \in Nat
    BY <1>3, RecentStep, YoungStep
  <2>2. Cardinality(Young)' + Cardinality(At(Waiting)') <= RequestsAtOnce
    <3>1. CASE At(Waiting)' \in SUBSET At(Waiting)
      <4>1. Cardinality(At(Waiting)') <= Cardinality(At(Waiting))
        BY <1>f, <3>1
      <4> QED
        BY <1>a, <1>b, <1>c, <2>1, <4>1 DEF RateInv
    <3>2. CASE ~(At(Waiting)' \in SUBSET At(Waiting))
      <4>1. PICK r \in Requests : CheckInterval(r) /\ ~TooSoon
        BY <3>2, Moves DEF At, Waiting
      <4>2. Young = {}
        <5>1. DOMAIN codes = 1..Len(codes)
          BY LenProperties DEF Tables
        <5>2. ASSUME NEW o \in 1..Len(codes) PROVE ~(clock - codes[o].created < MinInterval)
          <6>1. codes # <<>> /\ Len(codes) \in 1..Len(codes)
            BY <1>0, <5>2, EmptySeq
          <6>2. clock - codes[Len(codes)].created >= MinInterval
            BY <1>0, <1>b, <4>1, <6>1, RecordTypes DEF TooSoon
          <6>3. codes[o].created <= codes[Len(codes)].created
            BY <5>2 DEF RateInv
          <6> QED
            BY <1>0, <1>b, <5>2, <6>1, <6>2, <6>3, RecordTypes
        <5> QED
          BY <5>1, <5>2 DEF Young
      <4>3. Cardinality(Young) = 0
        BY <4>2, FS_EmptySet
      <4> QED
        BY <1>1, <1>a, <1>b, <1>c, <1>e, <2>1, <4>3
    <3> QED
      BY <3>1, <3>2
  <2>3. Cardinality(Recent(clock))' + Cardinality(At(Admitted)')
          <= PerWindow + RequestsAtOnce - 1
    <3>1. CASE At(Admitted)' \in SUBSET At(Admitted)
      <4>1. Cardinality(At(Admitted)') <= Cardinality(At(Admitted))
        BY <1>f, <3>1
      <4> QED
        BY <1>a, <1>b, <1>c, <2>1, <4>1 DEF RateInv
    <3>2. CASE ~(At(Admitted)' \in SUBSET At(Admitted))
      <4>1. PICK r \in Requests : CheckCount(r) /\ pc'[r] \in {"consume", "insert"}
        BY <3>2, Moves DEF At, Admitted
      <4>2. ~(Cardinality(Recent(began[r])) >= PerWindow)
        BY <4>1 DEF CheckCount, Goto, CallsInv, Calls
      <4>3. Cardinality(Recent(clock)) <= Cardinality(Recent(began[r]))
        BY <1>0, RecentLater DEF CallsInv, Calls
      <4> QED
        BY <1>1, <1>a, <1>b, <1>c, <1>e, <2>1, <4>2, <4>3
    <3> QED
      BY <3>1, <3>2
  <2>4. ASSUME NEW o \in 1..Len(codes') PROVE codes'[o].created <= codes'[Len(codes')].created
    <3>1. /\ Len(codes') = Len(codes)
          /\ \A p \in 1..Len(codes) : codes'[p].created = codes[p].created
      BY <1>3, CodesEvolve DEF Grows, Evolves
    <3>2. Len(codes) \in 1..Len(codes)
      BY <1>0, <2>4, <3>1
    <3> QED
      BY <2>4, <3>1, <3>2 DEF RateInv
  <2> QED
    BY <1>1, <2>2, <2>3, <2>4 DEF RateInv
<1> QED
  BY <1>2, <1>3

\* For any number n of requests at once: a window holds at most n - 1 codes more
\* than its limit, and at most n codes are younger than the interval.
THEOREM LimitsHold == Spec => []RateHolds
<1>1. Init => RateInv
  <2> SUFFICES ASSUME Init PROVE RateInv
    OBVIOUS
  <2>1. Len(codes) = 0 /\ DOMAIN codes = {}
    BY EmptySeq DEF Init
  <2>2. /\ Recent(clock) = {} /\ Young = {} /\ At(Busy) = {} /\ At(Waiting) = {}
        /\ At(Admitted) = {}
    BY <2>1 DEF Init, Recent, Young, At, Busy, Waiting, Admitted
  <2>3. Cardinality({}) = 0
    BY FS_EmptySet
  <2> QED
    BY <2>1, <2>2, <2>3, ConstantsAssumption DEF RateInv
<1>2. Spec => [](Tables /\ RateInv)
  BY <1>1, RateStep, AlwaysTyped, PTL DEF Spec
<1>3. ASSUME Tables, RateInv PROVE RateHolds
  BY <1>3, AtFinite, RecentFinite, YoungFinite, ConstantsAssumption DEF RateInv, RateHolds
<1> QED
  BY <1>2, <1>3, PTL
=============================================================================
