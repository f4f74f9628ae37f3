------------------------------ MODULE ConvMap ------------------------------
(***************************************************************************)
(* The conversation map (sessions.rs): an LRU map from fingerprints to     *)
(* sessions, which remember the key a conversation used last.  Each        *)
(* operation runs under the map's lock.                                    *)
(***************************************************************************)
EXTENDS Naturals, Sequences, SequencesExt

CONSTANTS
  Convs,    \* conversation fingerprints
  MapMax,   \* CONVERSATION_MAP_MAX
  EvictTo   \* EVICT_THRESHOLD

ASSUME ConvMapAssumption ==
  MapMax \in Nat /\ EvictTo \in Nat /\ EvictTo < MapMax

VARIABLES
  order,    \* the fingerprints in the map, most recently used first
  session,  \* the session of each fingerprint, NoSession if it is not in the map
  counter   \* session numbers given out

convVars == <<order, session, counter>>

Known(fp) == fp \in ToSet(order)

\* A slot of the key pool, 0 for none; how often it was used; its number.
SessionType == [token : Nat, count : Nat, num : Nat]
NoSession == [token |-> 0, count |-> 0, num |-> 0]

ConvInit == order = <<>> /\ session = [c \in Convs |-> NoSession] /\ counter = 0

UseFirst(fp) ==
  <<fp>> \o RemoveAt(order, CHOOSE i \in DOMAIN order : order[i] = fp)

\* Seeded fault: the session forgets its key.
TokenForgotten(fp) == 0

\* What touch() returns as token_index.
TokenOf(fp) == session[fp].token

Touch(fp) ==
  /\ order' = IF Known(fp) THEN UseFirst(fp) ELSE order
  /\ UNCHANGED <<session, counter>>

\* Seeded fault: the most recently used conversations are evicted.
EvictNewest ==
  IF Len(order) >= MapMax THEN SubSeq(order, Len(order) - EvictTo + 1, Len(order))
                          ELSE order

\* A full map is cut down to EvictTo before a new conversation comes in.
Evict == IF Len(order) >= MapMax THEN SubSeq(order, 1, EvictTo) ELSE order

Update(fp, token) ==
  /\ order' = UseFirst(fp)
  /\ session' = [session EXCEPT ![fp].token = token, ![fp].count = @ + 1]
  /\ UNCHANGED counter

Create(fp, token) ==
  /\ order' = <<fp>> \o Evict
  /\ session' = [c \in Convs |->
       CASE c = fp -> [token |-> token, count |-> 1, num |-> counter + 1]
         [] c # fp /\ c \in ToSet(order') -> session[c]
         [] OTHER -> NoSession]
  /\ counter' = counter + 1

Track(fp, token) ==
  IF Known(fp) THEN Update(fp, token) ELSE Create(fp, token)
=============================================================================
