------------------------- MODULE BrokerContactGate -------------------------
(***************************************************************************)
(* How a broker gets exactly one contact in amoCRM.                        *)
(*                                                                         *)
(* Three services run one protocol for the phone of a broker:              *)
(* syncBrokerAmoContact (the callers in Fixation), and syncBrokerProfileTo-*)
(* Amo and pushLandingLeadToAmo (all other callers).  Each opens a         *)
(* Serializable transaction, takes the advisory lock of the phone and the  *)
(* broker's row, asks amoCRM for the contact, creates it if there is none, *)
(* links it to the row and commits.  Before the POST it commits a gate to  *)
(* the audit log through another connection; the gate is resolved once the *)
(* outcome of the POST is known, and stops every other POST until then.    *)
(*                                                                         *)
(* The transaction has a timeout.  When it strikes, Postgres frees the     *)
(* locks, but the callback goes on: only its next statement inside the     *)
(* transaction fails.  Calls of amoCRM and of the audit log do not.        *)
(*                                                                         *)
(* One phone is modelled: locks, gates and lookups of two phones share     *)
(* nothing.  Several rows may own it, spelled differently.                 *)
(***************************************************************************)
EXTENDS FiniteSets

CONSTANTS
    Callers,    \* calls of the three services; a caller may call again
    Fixation,   \* the callers that run syncBrokerAmoContact
    Brokers,    \* rows of `brokers` that own the phone
    Gates,      \* gate ids: bounds the POSTs; a gate names its POST's contact
    Foreign,    \* contacts amoCRM gets from elsewhere
    None

Stages == {"lock", "observe", "look", "reread", "arm", "post", "answer",
           "reject", "promote", "reconcile", "commit"}

ASSUME ConstantsAssumption ==
    /\ Fixation \subseteq Callers
    /\ Gates \cap Foreign = {}
    /\ None \notin Callers \cup Brokers \cup Gates \cup Foreign

VARIABLES
    link,      \* Broker.amoContactId, as committed
    gate,      \* the audit log: gate ids armed, and resolved
    contact,   \* amoCRM: what became of each contact
    flagged,   \* contacts that carry the flag IS_BROKER
    holder,    \* who holds the advisory lock of the phone
    open,      \* callers whose transaction is open
    pc, broker,
    snap,      \* per caller: the links in the snapshot of its transaction
    observed,  \* per caller: observedGateId
    own,       \* per caller: durableCreateGateId
    got,       \* per caller: the contact found or expected
    stray      \* history: gates armed after the transaction had timed out

amo   == <<contact, flagged>>
local == <<broker, snap, observed, own>>
vars  == <<link, gate, contact, flagged, holder, open, pc, broker, snap,
           observed, own, got, stray>>

Contacts == Gates \cup Foreign
Listed   == {c \in Contacts : contact[c] = "listed"}
Armed    == {g \in Gates : gate[g] = "armed"}
Current(a) == snap[a][broker[a]]

\* Broker.amoContactId is unique
Taken(links, b, c) == \E other \in Brokers \ {b} : links[other] = c

\* findBrokerContactForFixationByPhone takes the newest broker, or the only
\* contact; findContactByPhone (strict) takes the only contact.  Both throw if
\* that leaves a choice.
Finds(a, c) ==
    IF c = None THEN Listed = {}
    ELSE /\ c \in Listed
         /\ Listed = {c} \/ (a \in Fixation /\ c \in flagged)

Goto(a, stage) == pc' = [pc EXCEPT ![a] = stage]

\* What a call read is forgotten with it.
Forget(a) ==
    /\ Goto(a, "idle")
    /\ snap' = [snap EXCEPT ![a] = [b \in Brokers |-> None]]
    /\ observed' = [observed EXCEPT ![a] = None]
    /\ own' = [own EXCEPT ![a] = None]
    /\ got' = [got EXCEPT ![a] = None]
    /\ UNCHANGED broker

\* The transaction of a ends, and with it the locks.
Close(a) == /\ open' = open \ {a}
            /\ holder' = IF holder = a THEN None ELSE holder

-----------------------------------------------------------------------------

TypeOK ==
    /\ link \in [Brokers -> Contacts \cup {None}]
    /\ gate \in [Gates -> {"unused", "armed", "resolved"}]
    /\ contact \in [Contacts -> {"none", "wire", "hidden", "listed", "lost"}]
    /\ flagged \subseteq Contacts
    /\ holder \in Callers \cup {None}
    /\ open \subseteq Callers
    /\ pc \in [Callers -> Stages \cup {"idle", "resolve"}]
    /\ broker \in [Callers -> Brokers]
    /\ snap \in [Callers -> [Brokers -> Contacts \cup {None}]]
    /\ observed \in [Callers -> Gates \cup {None}]
    /\ own \in [Callers -> Gates \cup {None}]
    /\ got \in [Callers -> Contacts \cup {None}]
    /\ stray \subseteq Gates
    /\ \A a \in Callers : pc[a] \in {"post", "answer", "reject"} => own[a] \in Gates
    /\ \A a \in Callers : pc[a] \in {"promote", "commit"} => got[a] \in Contacts

\* A link that exists already may point to a contact that no longer has the phone.
Init ==
    /\ link \in [Brokers -> Foreign \cup {None}]
    /\ \A b \in Brokers : link[b] # None => ~Taken(link, b, link[b])
    /\ gate = [g \in Gates |-> "unused"]
    /\ contact \in [Contacts -> {"none", "listed"}]
    /\ \A g \in Gates : contact[g] = "none"
    /\ flagged \in SUBSET {c \in Foreign : contact[c] = "listed"}
    /\ holder = None
    /\ open = {}
    /\ pc = [a \in Callers |-> "idle"]
    /\ broker \in [Callers -> Brokers]
    /\ snap = [a \in Callers |-> [b \in Brokers |-> None]]
    /\ observed = [a \in Callers |-> None]
    /\ own = [a \in Callers |-> None]
    /\ got = [a \in Callers |-> None]
    /\ stray = {}

-----------------------------------------------------------------------------
(* The stages of a call.                                                   *)

\* The first statement of the transaction waits for the lock; its snapshot is
\* taken before the wait.
Begin(a, b) ==
    /\ pc[a] = "idle"
    /\ Goto(a, "lock")
    /\ open' = open \cup {a}
    /\ broker' = [broker EXCEPT ![a] = b]
    /\ snap' = [snap EXCEPT ![a] = link]
    /\ UNCHANGED <<link, gate, amo, holder, observed, own, got, stray>>

\* Faulty on purpose: two spellings of the phone give two lock keys.
LockBySpelling(a) ==
    /\ pc[a] = "lock"
    /\ a \in open
    /\ link[broker[a]] = Current(a)
    /\ holder' = a
    /\ Goto(a, "observe")
    /\ UNCHANGED <<link, gate, amo, open, local, got, stray>>

\* SELECT ... FOR UPDATE fails if the row changed since the snapshot.
Lock(a) ==
    /\ pc[a] = "lock"
    /\ a \in open
    /\ holder = None
    /\ link[broker[a]] = Current(a)
    /\ holder' = a
    /\ Goto(a, "observe")
    /\ UNCHANGED <<link, gate, amo, open, local, got, stray>>

Observe(a) ==
    /\ pc[a] = "observe"
    /\ \E g \in Gates \cup {None} :
         /\ Armed = IF g = None THEN {} ELSE {g}
         /\ observed' = [observed EXCEPT ![a] = g]
    /\ Goto(a, "look")
    /\ UNCHANGED <<link, gate, amo, holder, open, broker, snap, own, got, stray>>

\* The row is linked.  A profile without a gate to confirm asks nothing.
KeepLink(a) ==
    /\ pc[a] = "look"
    /\ Current(a) # None
    /\ \/ a \notin Fixation /\ observed[a] = None
       \/ \E c \in Contacts \cup {None} :
            /\ Finds(a, c)
            /\ c \in {Current(a), None}
            /\ observed[a] # None => c = Current(a) /\ c \in flagged
    /\ got' = [got EXCEPT ![a] = Current(a)]
    /\ Goto(a, "commit")
    /\ UNCHANGED <<link, gate, amo, holder, open, local, stray>>

\* Faulty on purpose: the gate observed is ignored.
RelinkAnyway(a, c) ==
    /\ pc[a] = "look"
    /\ a \in Fixation \cap open
    /\ Current(a) \notin {None, c}
    /\ Finds(a, c)
    /\ ~Taken(snap[a], broker[a], c)
    /\ c \in flagged
    /\ got' = [got EXCEPT ![a] = c]
    /\ Goto(a, "commit")
    /\ UNCHANGED <<link, gate, amo, holder, open, local, stray>>

\* A fixation replaces a link that amoCRM contradicts.
Relink(a, c) ==
    /\ pc[a] = "look"
    /\ a \in Fixation \cap open
    /\ Current(a) \notin {None, c}
    /\ Finds(a, c)
    /\ ~Taken(snap[a], broker[a], c)
    /\ observed[a] = None
    /\ c \in flagged
    /\ got' = [got EXCEPT ![a] = c]
    /\ Goto(a, "commit")
    /\ UNCHANGED <<link, gate, amo, holder, open, local, stray>>

\* The row is not linked and amoCRM has a contact.
LookFound(a, c) ==
    /\ pc[a] = "look"
    /\ Current(a) = None
    /\ Finds(a, c)
    /\ a \in Fixation => a \in open /\ ~Taken(snap[a], broker[a], c)
    /\ observed[a] # None => c \in flagged
    /\ got' = [got EXCEPT ![a] = c]
    /\ Goto(a, IF c \in flagged THEN "commit" ELSE "promote")
    /\ UNCHANGED <<link, gate, amo, holder, open, local, stray>>

\* Faulty on purpose: the gate observed does not stop a profile.
LookNothingBlind(a) ==
    /\ pc[a] = "look"
    /\ Current(a) = None
    /\ Finds(a, None)
    /\ Goto(a, IF a \in Fixation THEN "reread" ELSE "arm")
    /\ UNCHANGED <<link, gate, amo, holder, open, local, got, stray>>

\* Neither is there a contact.  A fixation reads its row again.
LookNothing(a) ==
    /\ pc[a] = "look"
    /\ Current(a) = None
    /\ Finds(a, None)
    /\ a \notin Fixation => observed[a] = None
    /\ Goto(a, IF a \in Fixation THEN "reread" ELSE "arm")
    /\ UNCHANGED <<link, gate, amo, holder, open, local, got, stray>>

Reread(a) ==
    /\ pc[a] = "reread"
    /\ a \in open
    /\ observed[a] = None
    /\ Goto(a, "arm")
    /\ UNCHANGED <<link, gate, amo, holder, open, local, got, stray>>

\* Faulty on purpose: the id of the gate is not kept.
ArmUnnamed(a, g) ==
    /\ pc[a] = "arm"
    /\ gate[g] = "unused"
    /\ gate' = [gate EXCEPT ![g] = "armed"]
    /\ stray' = IF a \in open THEN stray ELSE stray \cup {g}
    /\ Goto(a, "post")
    /\ UNCHANGED <<link, amo, holder, open, local, got>>

Arm(a, g) ==
    /\ pc[a] = "arm"
    /\ gate[g] = "unused"
    /\ gate' = [gate EXCEPT ![g] = "armed"]
    /\ own' = [own EXCEPT ![a] = g]
    /\ stray' = IF a \in open THEN stray ELSE stray \cup {g}
    /\ Goto(a, "post")
    /\ UNCHANGED <<link, amo, holder, open, broker, snap, observed, got>>

Post(a) ==
    /\ pc[a] = "post"
    /\ contact' = [contact EXCEPT ![own[a]] = "wire"]
    /\ Goto(a, "answer")
    /\ UNCHANGED <<link, gate, flagged, holder, open, local, got, stray>>

\* The answer names the contact, or there is none; both are reconciled.
Answer(a) ==
    /\ pc[a] = "answer"
    /\ \/ /\ contact[own[a]] \in {"hidden", "listed"}
          /\ got' = [got EXCEPT ![a] = own[a]]
       \/ got' = [got EXCEPT ![a] = None]
    /\ Goto(a, "reconcile")
    /\ UNCHANGED <<link, gate, amo, holder, open, local, stray>>

\* isDefinitiveAmoContactCreateRejection: nothing was created.
Refuse(a) ==
    /\ pc[a] = "answer"
    /\ contact[own[a]] = "wire"
    /\ contact' = [contact EXCEPT ![own[a]] = "lost"]
    /\ Goto(a, "reject")
    /\ UNCHANGED <<link, gate, flagged, holder, open, local, got, stray>>

Reject(a) ==
    /\ pc[a] = "reject"
    /\ gate' = [gate EXCEPT ![own[a]] = "resolved"]
    /\ Close(a)
    /\ Forget(a)
    /\ UNCHANGED <<link, amo, stray>>

Promote(a) ==
    /\ pc[a] = "promote"
    /\ flagged' = flagged \cup {got[a]}
    /\ Goto(a, "reconcile")
    /\ UNCHANGED <<link, gate, contact, holder, open, local, got, stray>>

\* One of the six lookups finds the expected contact, marked as a broker.
Reconcile(a, c) ==
    /\ pc[a] = "reconcile"
    /\ Finds(a, c)
    /\ got[a] \in {None, c}
    /\ c \in flagged
    /\ got' = [got EXCEPT ![a] = c]
    /\ Goto(a, "commit")
    /\ UNCHANGED <<link, gate, amo, holder, open, local, stray>>

\* The holder lookup sees the snapshot; the unique index sees what is there.
Commit(a) ==
    /\ pc[a] = "commit"
    /\ a \in open
    /\ a \in Fixation => ~Taken(snap[a], broker[a], got[a])
    /\ ~Taken(link, broker[a], got[a])
    /\ link' = [link EXCEPT ![broker[a]] = got[a]]
    /\ Close(a)
    /\ Goto(a, "resolve")
    /\ UNCHANGED <<gate, amo, local, got, stray>>

\* durableCreateGateId || observedGateId
Resolve(a) ==
    /\ pc[a] = "resolve"
    /\ LET g == IF own[a] # None THEN own[a] ELSE observed[a]
       IN  gate' = IF g = None THEN gate ELSE [gate EXCEPT ![g] = "resolved"]
    /\ Forget(a)
    /\ UNCHANGED <<link, amo, holder, open, stray>>

\* Faulty on purpose: a `finally` resolves the gate whatever happened.
StopResolving(a) ==
    /\ pc[a] # "idle"
    /\ Close(a)
    /\ Forget(a)
    /\ gate' = IF own[a] = None THEN gate ELSE [gate EXCEPT ![own[a]] = "resolved"]
    /\ UNCHANGED <<link, amo, stray>>

\* The callback throws or asks for reconciliation, a statement or the commit
\* fails, or the process dies.
Stop(a) ==
    /\ pc[a] # "idle"
    /\ Close(a)
    /\ Forget(a)
    /\ UNCHANGED <<link, gate, amo, stray>>

\* The transaction times out, at any stage; the callback does not notice yet.
Timeout(a) ==
    /\ a \in open
    /\ Close(a)
    /\ UNCHANGED <<link, gate, amo, pc, local, got, stray>>

-----------------------------------------------------------------------------
(* The others: amoCRM, its staff, and a login.                             *)

Create(g) ==
    /\ contact[g] = "wire"
    /\ contact' = [contact EXCEPT ![g] = "hidden"]
    /\ flagged' = flagged \cup {g}
    /\ UNCHANGED <<link, gate, holder, open, pc, local, got, stray>>

Drop(g) ==
    /\ contact[g] = "wire"
    /\ contact' = [contact EXCEPT ![g] = "lost"]
    /\ UNCHANGED <<link, gate, flagged, holder, open, pc, local, got, stray>>

List(c) ==
    /\ contact[c] = "hidden"
    /\ contact' = [contact EXCEPT ![c] = "listed"]
    /\ UNCHANGED <<link, gate, flagged, holder, open, pc, local, got, stray>>

StaffCreates(c) ==
    /\ contact[c] = "none"
    /\ contact' = [contact EXCEPT ![c] = "hidden"]
    /\ \E marked \in SUBSET {c} : flagged' = flagged \cup marked
    /\ UNCHANGED <<link, gate, holder, open, pc, local, got, stray>>

\* syncBrokerFromAmo overwrites the link without the advisory lock; only the
\* lock of the row delays it.
Login(b, c) ==
    /\ c \in Listed \cap flagged
    /\ \A a \in Callers : holder = a => broker[a] # b
    /\ ~Taken(link, b, c)
    /\ link' = [link EXCEPT ![b] = c]
    /\ UNCHANGED <<gate, amo, holder, open, pc, local, got, stray>>

Step(a) ==
    \/ \E b \in Brokers : Begin(a, b)
    \/ Lock(a) \/ Observe(a) \/ KeepLink(a) \/ LookNothing(a) \/ Reread(a)
    \/ \E c \in Contacts : Relink(a, c) \/ LookFound(a, c) \/ Reconcile(a, c)
    \/ \E g \in Gates : Arm(a, g)
    \/ Post(a) \/ Answer(a) \/ Refuse(a) \/ Reject(a) \/ Promote(a)
    \/ Commit(a) \/ Resolve(a) \/ Stop(a) \/ Timeout(a)

Next ==
    \/ \E a \in Callers : Step(a)
    \/ \E g \in Gates : Create(g) \/ Drop(g)
    \/ \E c \in Contacts : List(c)
    \/ \E c \in Foreign : StaffCreates(c)
    \/ \E b \in Brokers, c \in Contacts : Login(b, c)

Spec == Init /\ [][Next]_vars

-----------------------------------------------------------------------------

\* Of the gates that are armed under the lock, at most one brings a contact: while
\* its POST is on its way, or has created a contact, no other such POST is sent.
\* The comments at client-fixation.service.ts:232 and auth.service.ts:1426 give
\* this as the purpose of the lock; it must survive crashes at every stage,
\* timeouts at every stage, and what stray callers do beside it.
OnePost ==
    \A g, h \in Gates \ stray :
        {contact[g], contact[h]} \subseteq {"wire", "hidden", "listed"} => g = h

\* The comments promise that of all gates.  No run checks this, the code does not
\* keep it: a callback whose transaction timed out before it armed its gate
\* (auth.service.ts:1461) creates a contact beside the one of the next caller.
OnePostEver ==
    \A g, h \in Gates :
        {contact[g], contact[h]} \subseteq {"wire", "hidden", "listed"} => g = h

\* AMO_BROKER_CONTACT_GATE_AMBIGUOUS, which would block the phone for all three
\* services for good, never comes from two callers that had the lock.
NotAmbiguous == \A g, h \in Armed \ stray : g = h

\* A gate is lifted only when its POST created nothing, or when every later
\* lookup finds a broker contact, so that a slow POST that lands after its gate
\* was lifted for another contact cannot be followed by one more.
ResolvedIsKnown ==
    \A g \in Gates : gate[g] = "resolved" =>
        contact[g] = "lost" \/ Listed \cap flagged # {}

\* A provisioner replaces the link of a row only while no creation for the phone
\* is in doubt (AMO_FIXATION_BROKER_CONTACT_RELINK_UNSAFE), except one of a
\* stray caller: else a row would take the contact that a dead caller created for
\* another row.
RelinkInClear ==
    [][\A b \in Brokers :
        (holder # None /\ link[b] # None /\ link'[b] # link[b] /\ holder' # holder)
            => Armed \subseteq stray]_vars
=============================================================================
