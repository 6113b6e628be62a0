----------------------------- MODULE IceStorage -----------------------------
(***************************************************************************)
(* The server that keeps the ICE descriptions (icestorage.py), as the      *)
(* handlers of its HTTP requests.  tornado runs one handler at a time.  A   *)
(* token, one of 26^32, is known to whom the server has answered with it:  *)
(* the model has this user instead.                                        *)
(***************************************************************************)
EXTENDS Naturals, FiniteSets

CONSTANTS
  Ids,      \* the ids a description is found by
  Users,    \* who stores descriptions
  Offers,   \* the descriptions
  None      \* no entry, no id, no answer

ASSUME StorageAssumption == None \notin Ids \cup Offers \cup [offer : Offers, owner : Users]

VARIABLE data   \* id -> [offer, owner], or None

\* Every request begins by removing what has not been stored or updated for five
\* minutes.  Other users' requests come at any time.
expireSettings(i) == data' = [data EXCEPT ![i] = None]

FreeIds == {i \in Ids : data[i] = None}

\* PUT: answers with the id and the token.
Put(offer, i, user) ==
  /\ i \in FreeIds
  /\ data' = [data EXCEPT ![i] = [offer |-> offer, owner |-> user]]

\* GET: the answer is the description, or None for 404.
Found(i) == IF data[i] = None THEN None ELSE data[i].offer

\* Mutant: any token will do.
TokenAny(i, user) == TRUE

TokenFits(i, user) == user = data[i].owner

\* POST.  With a wrong token the handler ends with an error, before it stores.
Post(offer, i, user) ==
  /\ data[i] # None /\ TokenFits(i, user)
  /\ data' = [data EXCEPT ![i].offer = offer]
=============================================================================
