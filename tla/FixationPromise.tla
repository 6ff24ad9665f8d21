-------------------------- MODULE FixationPromise --------------------------
(***************************************************************************)
(* What the cabinet promises of the fixations of one client (a phone),     *)
(* whoever writes them: a request to create a lead goes out only for a row *)
(* that says so, and only when every earlier request for the phone that    *)
(* may have created a lead is linked to that lead; a row stops saying so   *)
(* only when nothing came of its request, or by being linked to the lead   *)
(* that did; a link is to a lead of the same client, and for good.         *)
(*                                                                         *)
(* There is no lease, no queue, no crash and no listing here.              *)
(***************************************************************************)
CONSTANTS Rows, Leads, Phones, None

VARIABLES
  state,   \* of a row: "absent", "open" (may be sent), "doubt" or "settled"
  link,    \* the lead a settled row is linked to, or None
  phone,   \* the client of a row, None before it is stored
  sent,    \* rows whose request is under way
  origin   \* the row whose request created a lead, None before that

vars == <<sent, origin, state, link, phone>>

Created(l) == origin[l] # None
Outstanding(r) == r \in sent \/ \E l \in Leads : origin[l] = r
Owned(r) == \E l \in Leads : link[r] = l /\ origin[l] = r

Init ==
  /\ state = [r \in Rows |-> "absent"]
  /\ link = [r \in Rows |-> None]
  /\ phone = [r \in Rows |-> None]
  /\ sent = {}
  /\ origin = [l \in Leads |-> None]

\* A new row announces a request, or records what was found without one.
Store(r, p) ==
  /\ state[r] = "absent"
  /\ phone' = [phone EXCEPT ![r] = p]
  /\ \/ /\ state' = [state EXCEPT ![r] = "doubt"]
        /\ UNCHANGED link
     \/ /\ state' = [state EXCEPT ![r] = "settled"]
        /\ \/ UNCHANGED link
           \/ \E l \in Leads : /\ Created(l) /\ phone[origin[l]] = p
                               /\ link' = [link EXCEPT ![r] = l]
  /\ UNCHANGED <<sent, origin>>

Announce(r) ==
  /\ state[r] = "open"
  /\ state' = [state EXCEPT ![r] = "doubt"]
  /\ UNCHANGED <<link, phone, sent, origin>>

Post(r) ==
  /\ state[r] = "doubt"
  /\ ~ Outstanding(r)
  /\ \A s \in Rows : Outstanding(s) /\ phone[s] = phone[r] => Owned(s)
  /\ sent' = sent \cup {r}
  /\ UNCHANGED <<state, link, phone, origin>>

Create(r, l) ==
  /\ r \in sent
  /\ ~ Created(l)
  /\ sent' = sent \ {r}
  /\ origin' = [origin EXCEPT ![l] = r]
  /\ UNCHANGED <<state, link, phone>>

Lose(r) ==
  /\ r \in sent
  /\ sent' = sent \ {r}
  /\ UNCHANGED <<state, link, phone, origin>>

\* Nothing came of the request: the row may be sent again.
Reopen(r) ==
  /\ state[r] = "doubt"
  /\ ~ Outstanding(r)
  /\ state' = [state EXCEPT ![r] = "open"]
  /\ UNCHANGED <<link, phone, sent, origin>>

Settle(r, l) ==
  /\ state[r] \in {"open", "doubt"}
  /\ Created(l) /\ phone[origin[l]] = phone[r]
  /\ Outstanding(r) => origin[l] = r
  /\ state' = [state EXCEPT ![r] = "settled"]
  /\ link' = [link EXCEPT ![r] = l]
  /\ UNCHANGED <<phone, sent, origin>>

\* Whatever happens to leases, listings, queues and stages.  It is named, and
\* comes first, because that is what most steps of an implementation are: TLC
\* then need not try the others.
Other == UNCHANGED vars

Next ==
  \/ Other
  \/ \E r \in Rows : Lose(r) \/ Post(r) \/ Announce(r) \/ Reopen(r)
  \/ \E r \in Rows, p \in Phones : Store(r, p)
  \/ \E r \in Rows, l \in Leads : Create(r, l) \/ Settle(r, l)

Spec == Init /\ [][Next]_vars
=============================================================================
