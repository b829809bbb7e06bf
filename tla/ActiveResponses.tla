-------------------------- MODULE ActiveResponses --------------------------
(***************************************************************************)
(* The table _activeResponses of a serving router (src/src/PerfectWS.ts).  *)
(* Clients choose request ids, so two clients may choose the same one.  A  *)
(* response is stored under its request id as long as it is the only one   *)
(* of that id; when a second client comes both move to keys made of client *)
(* and request id, and stay there.  A response is the object made for one  *)
(* request of one client, here the pair of both.                           *)
(***************************************************************************)
EXTENDS Naturals

CONSTANTS Clients, RequestIds, None

ASSUME ActiveResponsesAssumption == None \notin Clients

VARIABLES
  direct,  \* request id -> client of the response stored under it, or None
  keyed,   \* responses stored under a key of client and request id
  live     \* history: responses that were opened and not released

tableVars == <<direct, keyed, live>>

Responses == Clients \X RequestIds

TableTypeOK ==
  /\ direct \in [RequestIds -> Clients \cup {None}]
  /\ keyed \subseteq Responses
  /\ live \subseteq Responses

TableInit ==
  /\ direct = [r \in RequestIds |-> None]
  /\ keyed = {}
  /\ live = {}

\* _getActiveResponse finds a response of client c and request r.
Found(c, r) == direct[r] = c \/ <<c, r>> \in keyed

SetActiveResponse(c, r) ==
  IF direct[r] \in {None, c}
  THEN direct' = [direct EXCEPT ![r] = c] /\ UNCHANGED keyed
  ELSE /\ direct' = [direct EXCEPT ![r] = None]
       /\ keyed' = keyed \cup {<<direct[r], r>>, <<c, r>>}

\* Mutant of DeleteActiveResponses: whatever is stored under the id is deleted.
DeleteAnyResponses(R) ==
  /\ direct' = [r \in RequestIds |->
        IF \E c \in Clients : <<c, r>> \in R THEN None ELSE direct[r]]
  /\ keyed' = keyed \ R

\* _deleteActiveResponse of each response of R: it deletes the entry that is
\* this response, under its id or under its key.
DeleteActiveResponses(R) ==
  /\ direct' = [r \in RequestIds |->
        IF <<direct[r], r>> \in R THEN None ELSE direct[r]]
  /\ keyed' = {p \in keyed : p \in R => direct[p[2]] = p[1]}

\* _onRequest makes a response for a request it does not find in the table.
Open(c, r) ==
  /\ ~Found(c, r)
  /\ SetActiveResponse(c, r)
  /\ live' = live \cup {<<c, r>>}

\* releaseResponse of the responses of R; its guard lets it run once for each.
Release(R) ==
  /\ R \subseteq live
  /\ DeleteActiveResponses(R)
  /\ live' = live \ R

TableNext ==
  \/ \E c \in Clients, r \in RequestIds : Open(c, r)
  \/ \E R \in SUBSET live : Release(R)

TableSpec == TableInit /\ [][TableNext]_tableVars

-----------------------------------------------------------------------------

\* A lookup finds the response of a client exactly while it is open, however
\* many clients use the same request id and in whatever order they come and go:
\* none answers for another one, is lost, or outlives its release.
LookupIsExact ==
  \A c \in Clients, r \in RequestIds : Found(c, r) <=> <<c, r>> \in live

=============================================================================
