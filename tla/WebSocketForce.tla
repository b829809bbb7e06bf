---------------------------- MODULE WebSocketForce ----------------------------
(***************************************************************************)
(* WebSocketForce (src/src/utils/WebSocketForce.ts): a socket that can be  *)
(* closed at once, whatever its peer does.  It keeps the close listeners   *)
(* itself, and tells them once: when the native socket closes or when it   *)
(* is forced to close, whichever comes first.  A listener runs its own     *)
(* code while it is told, so the list may change under the dispatch.       *)
(***************************************************************************)
EXTENDS Sequences, SequencesExt

CONSTANTS Sockets

VARIABLES
  readyState, \* socket -> its readyState; closed at once when it is forced
  told,       \* sockets with _closeEventDispatched
  listeners,  \* socket -> _virtualCloseListeners
  turn,       \* socket -> entries of the dispatch whose turn is still to come
  spent,      \* socket -> entries called so far by the dispatch under way
  reason      \* socket -> the reason its close event carries

socketVars == <<readyState, told, listeners, turn, spent, reason>>

ReadyStates == {"connecting", "open", "closing", "closed"}
Reasons == {"goodbye", "other"}   \* goodbye: 1000 'Router unregistered'

\* An entry made after the dispatch took its copy is not one of the copy.
Entry(s, l, once) == [listener |-> l, once |-> once, late |-> s \in told]

Names(entries) == {entries[i].listener : i \in DOMAIN entries}

addEventListener(s, entries, l, once) ==
  IF l \in Names(entries) THEN entries ELSE Append(entries, Entry(s, l, once))

\* What a filter leaves of a sequence: the elements at the indices of I, in their
\* order.  (Like SelectSeq, whose recursion hides it from the provers.)
Subsequence(q, I) ==
  [n \in 1 .. Cardinality(I) |-> q[CHOOSE i \in I : Cardinality(I \cap 1 .. i) = n]]

removeEventListeners(entries, L) ==
  Subsequence(entries, {i \in DOMAIN entries : entries[i].listener \notin L})

\* The native handler is registered as long as there is a listener to tell.
NativeCloseHandler(s) == listeners[s] # <<>>

\* Mutant of StillListed: the copy is called without looking at the list.
ListedOrNot(s, e) == TRUE

\* A previous listener may have removed this entry during the same dispatch.
StillListed(s, e) == e \in ToSet(listeners[s])

\* A wrapper around a new native socket.
NewSocket(s, n) ==
  /\ readyState' = [readyState EXCEPT ![s] = n]
  /\ told' = told \ {s}
  /\ UNCHANGED <<turn, spent, reason>>

\* _triggerVirtualCloseListeners up to its loop.
StartDispatch(s, why) ==
  /\ told' = told \cup {s}
  /\ reason' = [reason EXCEPT ![s] = why]
  /\ turn' = [turn EXCEPT ![s] = listeners[s]]

\* After the loop: the listeners that wanted to be called once are removed.
EndDispatch(s) ==
  /\ listeners' = [listeners EXCEPT ![s] =
       removeEventListeners(@, {e.listener : e \in {x \in spent[s] : x.once}})]
  /\ spent' = [spent EXCEPT ![s] = {}]
  /\ reason' = [reason EXCEPT ![s] = "other"]

SocketInit ==
  /\ readyState = [s \in Sockets |-> "closed"]
  /\ told = {}
  /\ listeners = [s \in Sockets |-> <<>>]
  /\ turn = [s \in Sockets |-> <<>>]
  /\ spent = [s \in Sockets |-> {}]
  /\ reason = [s \in Sockets |-> "other"]

=============================================================================
