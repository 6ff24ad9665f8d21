---------------------------- MODULE OneTimeCode ----------------------------
(***************************************************************************)
(* OtpService: one-time codes sent by SMS.                                 *)
(*                                                                         *)
(* A request checks its limits against the table of codes, consumes the    *)
(* earlier codes of the purpose, inserts a new one and sends it.  A        *)
(* verification reads the newest live code of the purpose and either       *)
(* counts a wrong attempt or consumes the code.  Nothing is a transaction: *)
(* every query is a step, and the steps of several requests and            *)
(* verifications interleave.  One phone and one address are modelled.      *)
(***************************************************************************)
EXTENDS Naturals, FiniteSets, Sequences

CONSTANTS
    Requests, Checks,     \* calls of request() and of verify()
    Purpose,              \* the purpose each of them names
    MinInterval,          \* OTP_PHONE_MIN_INTERVAL_MS
    Window, PerWindow,    \* the tightest limit on codes, and its window
    Ttl,                  \* OTP_TTL_MS
    MaxAttempts,          \* OTP_MAX_ATTEMPTS
    RequestsAtOnce, ChecksAtOnce,   \* how many run at one time
    MaxClock

ASSUME ConstantsAssumption ==
    /\ Requests \cap Checks = {}
    /\ MinInterval \in Nat /\ Window \in Nat /\ PerWindow \in Nat
    /\ IsFiniteSet(Requests)
    /\ RequestsAtOnce \in Nat \ {0} /\ ChecksAtOnce \in Nat
    /\ Ttl \in Nat /\ MaxAttempts \in Nat \ {0} /\ MaxClock \in Nat

VARIABLES
    clock,
    codes,       \* the table phone_otps, in the order of createdAt
    pc, began,   \* stage of a call, and the time it read at the start
    mine,        \* the code a call has inserted or read (0: none)
    read,        \* the attempts a verification has read
    right,       \* does a verification bring the code it has read?
    tries        \* wrong attempts really made on each code

vars == <<clock, codes, pc, began, mine, read, right, tries>>

Purposes == {Purpose[c] : c \in Requests \cup Checks}
Stages   == {"idle", "count", "consume", "insert", "send", "unsend", "compare",
             "sent", "limited", "failed", "ok", "invalid"}
Closed   == {"sent", "limited", "failed", "ok", "invalid"}

Code(p, t) == [purpose |-> p, created |-> t, live |-> TRUE, attempts |-> 0]
Newest(S)  == {o \in S : \A q \in S : q <= o}

Init ==
    /\ clock = 0
    /\ codes = <<>>
    /\ pc = [c \in Requests \cup Checks |-> "idle"]
    /\ began = [c \in Requests \cup Checks |-> 0]
    /\ mine = [c \in Requests \cup Checks |-> 0]
    /\ read = [c \in Checks |-> 0]
    /\ right = [v \in Checks |-> FALSE]
    /\ tries = <<>>

Running(calls) == {c \in calls : pc[c] \notin Closed \cup {"idle"}}
Room(calls, n) == Cardinality(Running(calls)) < n

Goto(c, stage) == pc' = [pc EXCEPT ![c] = stage]

\* What a verification has read is forgotten with its answer.
Answer(v, stage) ==
    /\ Goto(v, stage)
    /\ began' = [began EXCEPT ![v] = 0]
    /\ read' = [read EXCEPT ![v] = 0]
    /\ right' = [right EXCEPT ![v] = FALSE]
    /\ mine' = [mine EXCEPT ![v] = IF stage = "ok" THEN @ ELSE 0]

Tick ==
    /\ clock < MaxClock
    /\ clock' = clock + 1
    /\ UNCHANGED <<codes, pc, began, mine, read, right, tries>>

----------------------------------------------------------------------------
(* request                                                                 *)

\* The newest code of the phone, of any purpose, must be a minute old.
TooSoon == codes # <<>> /\ clock - codes[Len(codes)].created < MinInterval

\* Faulty on purpose: the interval is kept between codes of one purpose only.
CheckOwnInterval(r) ==
    /\ pc[r] = "idle" /\ Room(Requests, RequestsAtOnce)
    /\ began' = [began EXCEPT ![r] = clock]
    /\ Goto(r, IF \E o \in DOMAIN codes : codes[o].purpose = Purpose[r]
                                         /\ clock - codes[o].created < MinInterval
               THEN "limited" ELSE "count")
    /\ UNCHANGED <<clock, codes, mine, read, right, tries>>

CheckInterval(r) ==
    /\ pc[r] = "idle" /\ Room(Requests, RequestsAtOnce)
    /\ began' = [began EXCEPT ![r] = clock]
    /\ Goto(r, IF TooSoon THEN "limited" ELSE "count")
    /\ UNCHANGED <<clock, codes, mine, read, right, tries>>

Recent(t) == {o \in DOMAIN codes : codes[o].created + Window >= t}

CheckCount(r) ==
    /\ pc[r] = "count"
    /\ Goto(r, IF Cardinality(Recent(began[r])) >= PerWindow THEN "limited" ELSE "consume")
    /\ UNCHANGED <<clock, codes, began, mine, read, right, tries>>

\* Faulty on purpose: only the codes that have run out are consumed.
ConsumeExpired(r) ==
    /\ pc[r] = "consume"
    /\ codes' = [o \in DOMAIN codes |->
                    IF codes[o].created + Ttl < clock
                    THEN [codes[o] EXCEPT !.live = FALSE] ELSE codes[o]]
    /\ Goto(r, "insert")
    /\ UNCHANGED <<clock, began, mine, read, right, tries>>

ConsumeEarlier(r) ==
    /\ pc[r] = "consume"
    /\ codes' = [o \in DOMAIN codes |->
                    IF codes[o].purpose = Purpose[r]
                    THEN [codes[o] EXCEPT !.live = FALSE] ELSE codes[o]]
    /\ Goto(r, "insert")
    /\ UNCHANGED <<clock, began, mine, read, right, tries>>

\* Faulty on purpose: the row is dated by its expiry.
InsertByExpiry(r) ==
    /\ pc[r] = "insert"
    /\ codes' = Append(codes, Code(Purpose[r], clock + Ttl))
    /\ tries' = Append(tries, 0)
    /\ mine' = [mine EXCEPT ![r] = Len(codes) + 1]
    /\ Goto(r, "send")
    /\ UNCHANGED <<clock, began, read, right>>

\* createdAt is the time of the insert.
Insert(r) ==
    /\ pc[r] = "insert"
    /\ codes' = Append(codes, Code(Purpose[r], clock))
    /\ tries' = Append(tries, 0)
    /\ mine' = [mine EXCEPT ![r] = Len(codes) + 1]
    /\ Goto(r, "send")
    /\ UNCHANGED <<clock, began, read, right>>

Send(r) ==
    /\ pc[r] = "send"
    /\ \E stage \in {"sent", "unsend"} : Goto(r, stage)
    /\ UNCHANGED <<clock, codes, began, mine, read, right, tries>>

\* The code of a message that did not go out is consumed.
Withdraw(r) ==
    /\ pc[r] = "unsend"
    /\ codes' = [codes EXCEPT ![mine[r]].live = FALSE]
    /\ Goto(r, "failed")
    /\ UNCHANGED <<clock, began, mine, read, right, tries>>

Request(r) ==
    \/ CheckInterval(r) \/ CheckCount(r) \/ ConsumeEarlier(r) \/ Insert(r)
    \/ Send(r) \/ Withdraw(r)

----------------------------------------------------------------------------
(* verify                                                                  *)

Live(p) == {o \in DOMAIN codes : codes[o].live /\ codes[o].purpose = p}

NoCode(v) ==
    /\ pc[v] = "idle" /\ Live(Purpose[v]) = {}
    /\ Answer(v, "invalid")
    /\ UNCHANGED <<clock, codes, tries>>

ReadCode(v) ==
    /\ pc[v] = "idle" /\ Room(Checks, ChecksAtOnce)
    /\ \E o \in Newest(Live(Purpose[v])) :
          /\ mine' = [mine EXCEPT ![v] = o]
          /\ read' = [read EXCEPT ![v] = codes[o].attempts]
    /\ began' = [began EXCEPT ![v] = clock]
    /\ \E b \in BOOLEAN : right' = [right EXCEPT ![v] = b]
    /\ Goto(v, "compare")
    /\ UNCHANGED <<clock, codes, tries>>

TooLate(v) == codes[mine[v]].created + Ttl < began[v]

Refuse(v) ==
    /\ pc[v] = "compare"
    /\ TooLate(v) \/ read[v] >= MaxAttempts
    /\ codes' = [codes EXCEPT ![mine[v]].live = FALSE]
    /\ Answer(v, "invalid")
    /\ UNCHANGED <<clock, tries>>

\* The counter is written as the value that was read plus one.
CountWrong(v) ==
    /\ pc[v] = "compare" /\ ~right[v]
    /\ ~TooLate(v) /\ read[v] < MaxAttempts
    /\ codes' = [codes EXCEPT
           ![mine[v]].attempts = read[v] + 1,
           ![mine[v]].live = @ /\ read[v] + 1 < MaxAttempts]
    /\ tries' = [tries EXCEPT ![mine[v]] = @ + 1]
    /\ Answer(v, "invalid")
    /\ UNCHANGED clock

\* Faulty on purpose: the code is consumed by its id.
UnchangedId(v) == codes[mine[v]].created + Ttl > began[v]

\* The code is consumed only as it was read: updateMany and its count.
Unchanged(v) ==
    LET o == codes[mine[v]] IN
    o.live /\ o.attempts = read[v] /\ o.created + Ttl > began[v]

Accept(v) ==
    /\ pc[v] = "compare" /\ right[v]
    /\ ~TooLate(v) /\ read[v] < MaxAttempts
    /\ Answer(v, IF Unchanged(v) THEN "ok" ELSE "invalid")
    /\ codes' = IF Unchanged(v)
                THEN [codes EXCEPT ![mine[v]].live = FALSE, ![mine[v]].attempts = @ + 1]
                ELSE codes
    /\ UNCHANGED <<clock, tries>>

Check(v) == NoCode(v) \/ ReadCode(v) \/ Refuse(v) \/ CountWrong(v) \/ Accept(v)

Next ==
    \/ Tick
    \/ \E r \in Requests : Request(r)
    \/ \E v \in Checks : Check(v)

Spec == Init /\ [][Next]_vars

----------------------------------------------------------------------------
(* Properties.                                                             *)

TypeOK ==
    /\ clock \in 0..MaxClock
    /\ \A o \in DOMAIN codes :
           /\ codes[o].purpose \in Purposes /\ codes[o].live \in BOOLEAN
           /\ codes[o].attempts \in 0..MaxAttempts
           /\ codes[o].created \in 0..clock
    /\ DOMAIN tries = DOMAIN codes
    /\ pc \in [Requests \cup Checks -> Stages]
    /\ \A c \in Requests \cup Checks : mine[c] \in 0..Len(codes)
    /\ \A r \in Requests : pc[r] \in {"send", "sent", "unsend", "failed"} <=> mine[r] # 0

\* A code lets at most one verification through: a concurrent one finds it
\* consumed (the comment above the last query of verify).
UsedOnce ==
    \A o \in DOMAIN codes :
        Cardinality({v \in Checks : pc[v] = "ok" /\ mine[v] = o}) <= 1

\* "A new request extinguishes the old code" (the head of otp.service.ts): once
\* a request has inserted its code, no verification is let through by a code of
\* the purpose that is older than the request, although several requests overlap
\* and a verification may have read the old code before.
NewestOnly ==
    [][\A v \in Checks : pc[v] # "ok" /\ pc'[v] = "ok" =>
          ~\E r \in Requests :
              /\ Purpose[r] = Purpose[v] /\ mine[r] # 0
              /\ codes[mine[v]].created < began[r]]_vars

\* The same of every earlier code.  No run checks this, the code does not keep it:
\* of two requests that consume before either inserts (otp.service.ts:100), both
\* leave a live code.
NewestEver ==
    [][\A v \in Checks : pc[v] # "ok" /\ pc'[v] = "ok" =>
          ~\E r \in Requests :
              /\ Purpose[r] = Purpose[v] /\ pc[r] = "sent" /\ mine[r] > mine[v]
              /\ codes[mine[r]].created < began[v]]_vars

\* A code stands MaxAttempts wrong attempts, "then it is burnt" (the head of
\* otp.service.ts).  No run checks this: it needs ChecksAtOnce = 1, since two
\* verifications that read the same count write the same count.
AttemptsBounded ==
    \A o \in DOMAIN tries : tries[o] <= MaxAttempts

\* The limits of request, when it overlaps with itself: n requests at once exceed
\* the limit of a window by n - 1 codes at most, and at most n codes are younger
\* than the interval.  The check and the insert are not one step, so less does not
\* hold; that the excess is not worse takes that the later requests, of whatever
\* purpose, see what the earlier ones inserted.
Young == {o \in DOMAIN codes : clock - codes[o].created < MinInterval}

RateHolds ==
    /\ Cardinality(Recent(clock)) <= PerWindow + RequestsAtOnce - 1
    /\ Cardinality(Young) <= RequestsAtOnce
=============================================================================
