---------------------------- MODULE GrowOnlyMap ----------------------------
(***************************************************************************)
(* What include/uhash promises its callers: a map from keys to indices     *)
(* that only grows, each new key getting the next index and keeping it,    *)
(* with one call at a time.                                                *)
(***************************************************************************)
EXTENDS Integers, FiniteSets

CONSTANTS
  Keys, IdxMax,
  Refused  \* what an insertion returns that had no memory

VARIABLES
  index,  \* the function from the keys inserted so far to their indices
  call    \* the call being served, or what the last one returned

NoCall(result) == [kind |-> "none", result |-> result]

Inserting(key, strict) == [kind |-> "insert", key |-> key, strict |-> strict]
Searching(key)         == [kind |-> "search", key |-> key]
Leaving(result)        == [kind |-> "leave", result |-> result]

Idle == call.kind = "none"
Size == Cardinality(DOMAIN index)

Init == index = [k \in {} |-> 0] /\ call = NoCall(0)

\* A call comes in; an insertion is turned away when the map is full.
Call ==
  /\ Idle
  /\ UNCHANGED index
  /\ \E k \in Keys :
       \/ call' = Searching(k)
       \/ \E s \in BOOLEAN :
            call' = IF Size = IdxMax THEN NoCall(0) ELSE Inserting(k, s)

\* A search tells the key's index, 0 when there is none.
Search ==
  /\ call.kind = "search"
  /\ call' = NoCall(IF call.key \in DOMAIN index THEN index[call.key] ELSE 0)
  /\ UNCHANGED index

\* An insertion of a key that is there changes nothing.
Known ==
  /\ call.kind = "insert" /\ call.key \in DOMAIN index
  /\ call' = NoCall(IF call.strict THEN 0 ELSE index[call.key])
  /\ UNCHANGED index

\* An insertion of a new key gives it the next index.
Add ==
  /\ call.kind = "insert" /\ call.key \notin DOMAIN index
  /\ index' = [k \in DOMAIN index \cup {call.key} |->
                 IF k = call.key THEN Size + 1 ELSE index[k]]
  /\ call' = Leaving(Size + 1)

\* Only the first insertion may be refused, for want of memory.
Refuse ==
  /\ call.kind = "insert" /\ Size = 0
  /\ UNCHANGED index
  /\ call' = Leaving(Refused)

Leave == call.kind = "leave" /\ call' = NoCall(call.result) /\ UNCHANGED index

Next == Call \/ Search \/ Known \/ Add \/ Refuse \/ Leave

Spec == Init /\ [][Next]_<<index, call>>
=============================================================================
