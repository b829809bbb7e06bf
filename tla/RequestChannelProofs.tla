------------------------ MODULE RequestChannelProofs ------------------------
(* One request, for any number of sockets, restarts, attempts and chunks:   *)
(* whatever is lost and repeated, the handler runs once in the life of a    *)
(* serving process, the caller is given the chunks in order and whole, a    *)
(* request under way is watched, and the server closes the caller's working *)
(* socket only when the message it sends was lost on as many others as it   *)
(* has attempts.  And as long as no socket delivers after the next one's    *)
(* synchronisation is served, a request whose delivery is confirmed stays   *)
(* known to a server that does not restart, so that one lost connection     *)
(* does not fail it.                                                        *)
EXTENDS RequestChannel, SequenceTheorems, FiniteSetTheorems, TLAPS

Chunks == {stream[i] : i \in 1 .. Len(stream)}

\* A chunk on its way is one of the stream, and a result one of a handler that
\* returned; the packets of both have been numbered.
TrueReplies ==
  {m \in [type : Replies, n : Nat] :
     /\ m.n <= packet
     /\ m.type = "chunk" /\ restarts = 0 => m.n \in Chunks
     /\ m.type = "ok" => completed}

\* What the caller acknowledges it has accepted.
TrueRequests == {m \in [type : Requests, n : Nat] : m.type = "ack" => m.n \in seen}

Channels ==
  /\ toClient \in [Sockets -> Seq(TrueReplies)]
  /\ toServer \in [Sockets -> Seq(TrueRequests)]

RequestTypes ==
  /\ packet \in Nat
  /\ seen \subseteq 0 .. packet
  /\ {got, stream} \subseteq Seq(Nat)
  /\ cur \in 0 .. MaxSocket
  /\ payload \in Kinds \cup {"chunk"}
  /\ {runs, restarts} \subseteq Nat
  /\ completed \in BOOLEAN
  /\ response \in {"none", "handling", "finishing"}

\* A request that was not accepted since the last restart has not run since.
RunIsRemembered ==
  /\ runs <= 1 + restarts
  /\ "req" \notin processed => runs <= restarts /\ response = "none"

\* Before the request is accepted there is nothing of it.
NothingYet ==
  restarts = 0 /\ "req" \notin processed =>
    stream = <<>> /\ ~completed /\ sending = "off"

\* What the serving router is sending.
SendIsTrue ==
  /\ response = "none" => sending = "off"
  /\ sending # "off" /\ payload = "ok" => completed
  /\ response = "handling" /\ sending # "off" => payload = "chunk"
  /\ restarts = 0 /\ sending # "off" /\ payload = "chunk" =>
       stream # <<>> /\ packet = stream[Len(stream)]

\* The caller has accepted all chunks but perhaps the last, and that one too
\* when the handler goes on.
AllSeen == Chunks \subseteq seen

ChunksAreSeen ==
  restarts = 0 =>
    /\ Chunks \subseteq 1 .. packet
    /\ \A i \in 1 .. Len(stream) - 1 : stream[i] \in seen
    /\ response = "handling" /\ sending = "off" => AllSeen
    /\ completed => AllSeen /\ response # "handling"

\* The callback was given what was accepted before the request was settled.
GotIsPrefix ==
  restarts = 0 =>
    /\ Len(got) <= Len(stream)
    /\ \A i \in 1 .. Len(got) : got[i] = stream[i]
    /\ outcome = "none" => Len(got) = IF AllSeen THEN Len(stream) ELSE Len(stream) - 1
    /\ outcome = "ok" => got = stream

RequestInv ==
  /\ Channels /\ RequestTypes
  /\ RunIsRemembered /\ NothingYet
  /\ SendIsTrue /\ ChunksAreSeen /\ GotIsPrefix
  /\ outcome = "ok" => completed

LEMMA InitRequest == Init => RequestInv
<1> SUFFICES ASSUME Init PROVE RequestInv
  OBVIOUS
<1>1. Channels
  BY RequestChannelAssumption DEF Init, Channels
<1>2. RequestTypes
  <2>1. packet \in Nat /\ cur \in 0 .. MaxSocket
    BY RequestChannelAssumption DEF Init
  <2>2. {got, stream} \subseteq Seq(Nat) /\ {runs, restarts} \subseteq Nat
    BY DEF Init
  <2>3. QED
    BY <2>1, <2>2 DEF Init, RequestTypes, Kinds
<1>3. stream = <<>> /\ got = <<>> /\ Chunks = {} /\ AllSeen
  <2>1. stream = <<>> /\ got = <<>>
    BY DEF Init
  <2>2. 1 .. Len(stream) = {}
    BY <2>1
  <2>3. QED
    BY <2>1, <2>2 DEF Chunks, AllSeen
<1>4. QED
  BY <1>1, <1>2, <1>3 DEF Init, RequestInv, RunIsRemembered, NothingYet, SendIsTrue,
                          ChunksAreSeen, GotIsPrefix

-----------------------------------------------------------------------------
(* The queues.                                                             *)

LEMMA QueueChanges ==
  ASSUME NEW R, NEW f \in [Sockets -> R], NEW s, NEW q \in R
  PROVE  [f EXCEPT ![s] = q] \in [Sockets -> R]
OBVIOUS

LEMMA PutKeeps ==
  ASSUME NEW S, toServer \in [Sockets -> Seq(S)], NEW m \in S, NEW s, Put(s, m)
  PROVE  toServer' \in [Sockets -> Seq(S)]
<1> DEFINE q == IF s \in attached THEN Append(toServer[s], m) ELSE toServer[s]
<1>1. toServer' = [toServer EXCEPT ![s] = q]
  BY Zenon DEF Put
<1>2. CASE s \in Sockets
  <2>1. q \in Seq(S)
    BY <1>2, AppendProperties
  <2>2. [toServer EXCEPT ![s] = q] \in [Sockets -> Seq(S)]
    BY <2>1, QueueChanges
  <2>3. QED
    BY <1>1, <2>2, Zenon
<1>3. CASE s \notin Sockets
  <2> HIDE DEF q
  <2>1. QED
    BY <1>1, <1>3
<1>4. QED
  BY <1>2, <1>3

LEMMA ReadsKeeps ==
  ASSUME NEW S, toServer \in [Sockets -> Seq(S)], NEW s \in Sockets, NEW t, Reads(s, t)
  PROVE  /\ toServer' \in [Sockets -> Seq(S)]
         /\ Head(toServer[s]) \in S
<1>1. toServer[s] \in Seq(S) /\ toServer[s] # <<>>
  BY DEF Reads, Holds
<1>2. Head(toServer[s]) \in S /\ Tail(toServer[s]) \in Seq(S)
  BY <1>1, HeadTailProperties
<1>3. toServer' = [toServer EXCEPT ![s] = Tail(toServer[s])]
  BY DEF Reads, Holds
<1>4. [toServer EXCEPT ![s] = Tail(toServer[s])] \in [Sockets -> Seq(S)]
  BY <1>2, QueueChanges
<1>5. QED
  BY <1>2, <1>3, <1>4, Zenon

LEMMA OvertakeKeeps ==
  ASSUME NEW S, toServer \in [Sockets -> Seq(S)], NEW s \in Sockets, NEW t, Holds(s, t), Overtake(s)
  PROVE  toServer' \in [Sockets -> Seq(S)]
<1>1. toServer[s] \in Seq(S) /\ toServer[s] # <<>>
  BY DEF Holds
<1>2. Tail(toServer[s]) \in Seq(S)
  BY <1>1, HeadTailProperties
<1>3. \A o \in Sockets : toServer[o] \in Seq(S) /\ <<>> \in Seq(S)
  BY EmptySeq
<1>4. QED
  BY <1>2, <1>3 DEF Overtake

LEMMA AnswerKeeps ==
  ASSUME NEW S, toClient \in [Sockets -> Seq(S)], NEW s, NEW ms \in Seq(S), Answer(s, ms)
  PROVE  toClient' \in [Sockets -> Seq(S)]
<1> DEFINE q == IF s = cur THEN toClient[s] \o ms ELSE toClient[s]
<1>1. toClient' = [toClient EXCEPT ![s] = q]
  BY Zenon DEF Answer
<1>2. CASE s \in Sockets
  <2>1. q \in Seq(S)
    BY <1>2, ConcatProperties
  <2>2. [toClient EXCEPT ![s] = q] \in [Sockets -> Seq(S)]
    BY <2>1, QueueChanges
  <2>3. QED
    BY <1>1, <2>2, Zenon
<1>3. CASE s \notin Sockets
  <2> HIDE DEF q
  <2>1. QED
    BY <1>1, <1>3
<1>4. QED
  BY <1>2, <1>3

LEMMA GetsKeeps ==
  ASSUME NEW S, toClient \in [Sockets -> Seq(S)], cur \in 0 .. MaxSocket, NEW T, Gets(T)
  PROVE  /\ toClient' \in [Sockets -> Seq(S)]
         /\ Head(toClient[cur]) \in S
<1>1. cur \in Sockets /\ toClient[cur] \in Seq(S)
  BY RequestChannelAssumption DEF Gets, Sockets
<1>2. Head(toClient[cur]) \in S /\ Tail(toClient[cur]) \in Seq(S)
  BY <1>1, HeadTailProperties DEF Gets
<1>3. toClient' = [toClient EXCEPT ![cur] = Tail(toClient[cur])]
  BY DEF Gets
<1>4. [toClient EXCEPT ![cur] = Tail(toClient[cur])] \in [Sockets -> Seq(S)]
  BY <1>2, QueueChanges
<1>5. QED
  BY <1>2, <1>3, <1>4, Zenon

LEMMA DetachKeeps ==
  ASSUME NEW S, toServer \in [Sockets -> Seq(S)], NEW D, Detach(D)
  PROVE  toServer' \in [Sockets -> Seq(S)]
<1>1. \A q \in Sockets : toServer[q] \in Seq(S) /\ <<>> \in Seq(S)
  BY EmptySeq
<1>2. QED
  BY <1>1 DEF Detach

LEMMA SendKeeps ==
  ASSUME NEW S, toServer \in [Sockets -> Seq(S)], Msg("req") \in S, Msg("abort") \in S,
         NEW t, NEW p, SendOrWait(t, p)
  PROVE  toServer' \in [Sockets -> Seq(S)]
BY PutKeeps DEF SendOrWait, Content

\* Messages without a number are true.
LEMMA PlainMessages ==
  /\ \A t \in Requests \ {"ack"} : Msg(t) \in TrueRequests
  /\ packet \in Nat => \A t \in Replies \ {"chunk", "ok"} : Msg(t) \in TrueReplies
BY DEF Msg, TrueRequests, TrueReplies

-----------------------------------------------------------------------------
(* Steps that accept nothing at the caller and begin no packet at the       *)
(* server: they may move, stop or release what is being sent.               *)

LEMMA Calm ==
  ASSUME RequestInv, Channels', cur' \in 0 .. MaxSocket,
         UNCHANGED <<received, packet, payload, history>>,
         outcome' = "none" => outcome = "none",
         outcome' = "ok" => outcome = "ok",
         response' \in {response, "none"},
         response' = "none" => sending' = "off",
         response' # "none" => (sending' = "off" <=> sending = "off"),
         "req" \in processed' <=> "req" \in processed
  PROVE  RequestInv'
<1>1. /\ UNCHANGED <<seen, got, stream, runs, completed, restarts, Chunks, AllSeen>>
  BY DEF received, history, Chunks, AllSeen
<1>2. RequestTypes' /\ RunIsRemembered' /\ NothingYet'
  BY <1>1 DEF RequestInv, RequestTypes, RunIsRemembered, NothingYet
<1>3. SendIsTrue'
  BY <1>1 DEF RequestInv, SendIsTrue
<1>4. ChunksAreSeen'
  BY <1>1 DEF RequestInv, ChunksAreSeen
<1>5. GotIsPrefix' /\ (outcome' = "ok" => completed')
  BY <1>1 DEF RequestInv, GotIsPrefix
<1>6. QED
  BY <1>2, <1>3, <1>4, <1>5 DEF RequestInv

\* The messages that are true stay true in such a step.
LEMMA SameTruth ==
  ASSUME UNCHANGED <<received, packet, history>>
  PROVE  TrueReplies' = TrueReplies /\ TrueRequests' = TrueRequests
BY DEF received, history, TrueReplies, TrueRequests, Chunks

\* What the caller does but accept a chunk or a final response.
LEMMA CallerStep ==
  ASSUME RequestInv, UNCHANGED <<received, serverVars>>, cur' = cur,
         toServer' \in [Sockets -> Seq(TrueRequests)],
         toClient' \in [Sockets -> Seq(TrueReplies)],
         outcome' \in {outcome} \cup Failures
  PROVE  RequestInv'
<1>1. UNCHANGED <<packet, payload, history, response, sending, processed>>
  BY DEF serverVars, handlerVars, sendVars
<1>2. Channels'
  BY <1>1, SameTruth DEF Channels
<1>3. cur' \in 0 .. MaxSocket
  BY DEF RequestInv, RequestTypes
<1>4. response = "none" => sending = "off"
  BY DEF RequestInv, SendIsTrue
<1>5. QED
  BY <1>1, <1>2, <1>3, <1>4, Calm DEF Failures

LEMMA CallerMoves ==
  ASSUME RequestInv,
         \/ Start \/ UserAbort \/ RequestTimeout \/ BecomeReady \/ RetryFails
         \/ \E t \in Threads : Woken(t) \/ ReconnectTimeout(t)
         \/ \E t \in RequestThreads : Confirm(t)
  PROVE  RequestInv'
<1>1. /\ UNCHANGED <<received, serverVars, toClient>> /\ cur' = cur
      /\ outcome' \in {outcome} \cup Failures
  BY DEF Start, UserAbort, RequestTimeout, BecomeReady, RetryFails, Woken,
         ReconnectTimeout, Confirm, Settle, Failures
<1>2. /\ toServer \in [Sockets -> Seq(TrueRequests)]
      /\ toClient \in [Sockets -> Seq(TrueReplies)]
  BY DEF RequestInv, Channels
<1>3. Msg("req") \in TrueRequests /\ Msg("abort") \in TrueRequests /\ Msg("has") \in TrueRequests
  BY PlainMessages DEF Requests
<1>4. toServer' \in [Sockets -> Seq(TrueRequests)]
  <2>1. \/ UNCHANGED toServer
        \/ Put(cur, Msg("has"))
        \/ \E t, p : SendOrWait(t, p)
    BY DEF Start, UserAbort, RequestTimeout, BecomeReady, RetryFails, Woken,
           ReconnectTimeout, Confirm, BeginAbort
  <2>2. QED
    BY <1>2, <1>3, <2>1, PutKeeps, SendKeeps
<1>5. QED
  BY <1>1, <1>2, <1>4, CallerStep

\* Answers that settle nothing with a result.
LEMMA CallerHears ==
  ASSUME RequestInv, GetRequestAck \/ GetAbortAck \/ GetSyncReply \/ GetHasReply
  PROVE  RequestInv'
<1>1. UNCHANGED <<received, serverVars>> /\ cur' = cur /\ outcome' \in {outcome} \cup Failures
  BY DEF GetRequestAck, GetAbortAck, GetSyncReply, GetHasReply, Settle, Failures
<1>2. /\ toServer \in [Sockets -> Seq(TrueRequests)]
      /\ toClient \in [Sockets -> Seq(TrueReplies)]
      /\ cur \in 0 .. MaxSocket
  BY DEF RequestInv, Channels, RequestTypes
<1>3. Msg("req") \in TrueRequests /\ Msg("abort") \in TrueRequests
  BY PlainMessages DEF Requests
<1>4. toServer' \in [Sockets -> Seq(TrueRequests)]
  <2>1. UNCHANGED toServer \/ \E t, p : SendOrWait(t, p)
    BY DEF GetRequestAck, GetAbortAck, GetSyncReply, GetHasReply
  <2>2. QED
    BY <1>2, <1>3, <2>1, SendKeeps
<1>5. toClient' \in [Sockets -> Seq(TrueReplies)]
  <2>1. \E T : Gets(T)
    BY DEF GetRequestAck, GetAbortAck, GetSyncReply, GetHasReply
  <2>2. QED
    BY <1>2, <2>1, GetsKeeps
<1>6. QED
  BY <1>1, <1>4, <1>5, CallerStep

LEMMA ConnectionChanges ==
  ASSUME RequestInv, SetServer \/ CloseAtCaller
  PROVE  RequestInv'
<1>1. UNCHANGED <<received, packet, payload, history, response, sending, processed, outcome>>
  BY DEF SetServer, CloseAtCaller, serverVars, handlerVars, sendVars
<1>2. cur' \in 0 .. MaxSocket
  BY RequestChannelAssumption DEF RequestInv, RequestTypes, SetServer, CloseAtCaller
<1>3. toClient' \in [Sockets -> Seq(TrueReplies)]
  <2>1. <<>> \in Seq(TrueReplies)
    BY EmptySeq
  <2>2. QED
    BY <2>1 DEF RequestInv, Channels, SetServer, CloseAtCaller
<1>4. toServer' \in [Sockets -> Seq(TrueRequests)]
  <2>1. \E m \in TrueRequests :
          \/ UNCHANGED toServer
          \/ toServer' = [toServer EXCEPT ![cur'] = <<m>>]
    BY PlainMessages DEF SetServer, CloseAtCaller, Requests
  <2>2. \A m \in TrueRequests : <<m>> \in Seq(TrueRequests)
    OBVIOUS
  <2>3. QED
    BY <2>1, <2>2, QueueChanges DEF RequestInv, Channels
<1>5. Channels'
  BY <1>1, <1>3, <1>4, SameTruth DEF Channels
<1>6. response = "none" => sending = "off"
  BY DEF RequestInv, SendIsTrue
<1>7. QED
  BY <1>1, <1>2, <1>5, <1>6, Calm

-----------------------------------------------------------------------------
(* The server.                                                             *)

\* Steps of the server that are calm.
LEMMA ServerStep ==
  ASSUME RequestInv, UNCHANGED <<callerVars, packet, payload, history>>,
         toServer' \in [Sockets -> Seq(TrueRequests)],
         toClient' \in [Sockets -> Seq(TrueReplies)],
         \/ response' = "none" /\ sending' = "off"
         \/ response' = response /\ (sending' = "off" <=> sending = "off"),
         "req" \in processed' <=> "req" \in processed
  PROVE  RequestInv'
<1>1. UNCHANGED <<received, outcome, cur>>
  BY DEF callerVars
<1>2. Channels'
  BY <1>1, SameTruth DEF Channels
<1>3. /\ cur' \in 0 .. MaxSocket
      /\ response = "none" => sending = "off"
  BY <1>1 DEF RequestInv, RequestTypes, SendIsTrue
<1>4. QED
  BY <1>1, <1>2, <1>3, Calm

LEMMA ServerAnswers ==
  ASSUME RequestInv, NEW s \in Sockets,
         ServeDuplicate(s) \/ ServeAbort(s) \/ ServeSync(s) \/ ServeHas(s)
  PROVE  RequestInv'
<1>1. /\ UNCHANGED <<callerVars, packet, payload, history>>
      /\ "req" \in processed' <=> "req" \in processed
      /\ \/ response' = "none" /\ sending' = "off"
         \/ response' = response /\ (sending' = "off" <=> sending = "off")
  BY DEF ServeDuplicate, ServeAbort, ServeSync, ServeHas, AbortResponse, ReleaseResponse,
         Resumed, serverVars, handlerVars, sendVars
<1>2. /\ toServer \in [Sockets -> Seq(TrueRequests)]
      /\ toClient \in [Sockets -> Seq(TrueReplies)]
      /\ packet \in Nat
  BY DEF RequestInv, Channels, RequestTypes
<1>3. toServer' \in [Sockets -> Seq(TrueRequests)]
  <2>1. CASE ServeSync(s)
    <3>1. Overtake(s) /\ \E t : Holds(s, t)
      BY <2>1 DEF ServeSync
    <3>2. QED
      BY <1>2, <3>1, OvertakeKeeps
  <2>2. CASE ServeDuplicate(s) \/ ServeAbort(s) \/ ServeHas(s)
    <3>1. \E t : Reads(s, t)
      BY <2>2 DEF ServeDuplicate, ServeAbort, ServeHas
    <3>2. QED
      BY <1>2, <3>1, ReadsKeeps
  <2>3. QED
    BY <2>1, <2>2
<1>4. toClient' \in [Sockets -> Seq(TrueReplies)]
  <2>1. \/ UNCHANGED toClient
        \/ \E m \in TrueReplies : Answer(s, <<m>>)
    BY <1>2, PlainMessages
       DEF ServeDuplicate, ServeAbort, ServeSync, ServeHas, Replies, Kinds
  <2>2. \A m \in TrueReplies : <<m>> \in Seq(TrueReplies)
    OBVIOUS
  <2>3. QED
    BY <1>2, <2>1, <2>2, AnswerKeeps
<1>5. QED
  BY <1>1, <1>3, <1>4, ServerStep

LEMMA ServerLoses ==
  ASSUME RequestInv, ChunkTimeout \/ ForgetAbort \/ \E s \in Sockets : CloseAtServer(s)
  PROVE  RequestInv'
<1>1. /\ UNCHANGED <<callerVars, packet, payload, history, processed, toClient>>
      /\ \/ response' = "none" /\ sending' = "off"
         \/ response' = response /\ (sending' = "off" <=> sending = "off")
  BY DEF ChunkTimeout, ForgetAbort, CloseAtServer, OutOfTries, ReleaseResponse, sendVars
<1>2. /\ toServer \in [Sockets -> Seq(TrueRequests)]
      /\ toClient \in [Sockets -> Seq(TrueReplies)]
  BY DEF RequestInv, Channels
<1>3. toServer' \in [Sockets -> Seq(TrueRequests)]
  <2>1. UNCHANGED toServer \/ \E D : Detach(D)
    BY DEF ChunkTimeout, ForgetAbort, CloseAtServer
  <2>2. QED
    BY <1>2, <2>1, DetachKeeps
<1>4. QED
  BY <1>1, <1>2, <1>3, ServerStep

\* What is being sent is a true reply.
LEMMA ResumeStep ==
  ASSUME RequestInv, ResumeSend
  PROVE  RequestInv'
<1>1. /\ UNCHANGED <<callerVars, packet, payload, history, processed, response, toServer>>
      /\ sending = "resume" /\ sending' \in {"acking", "waiting"}
      /\ UNCHANGED toClient \/ Answer(ref, <<Numbered(payload, packet)>>)
  BY DEF ResumeSend, Attempt
<1>2. Numbered(payload, packet) \in TrueReplies
  <2>1. /\ payload \in Replies /\ packet \in Nat
        /\ payload = "ok" => completed
    BY <1>1 DEF RequestInv, RequestTypes, SendIsTrue, Replies
  <2>2. payload = "chunk" /\ restarts = 0 => packet \in Chunks
    BY <1>1 DEF RequestInv, RequestTypes, SendIsTrue, Chunks
  <2>3. QED
    BY <2>1, <2>2 DEF Numbered, TrueReplies
<1>3. toClient' \in [Sockets -> Seq(TrueReplies)]
  <2>1. <<Numbered(payload, packet)>> \in Seq(TrueReplies)
    BY <1>2
  <2>2. QED
    BY <1>1, <2>1, AnswerKeeps DEF RequestInv, Channels
<1>4. QED
  BY <1>1, <1>3, ServerStep DEF RequestInv, Channels

\* The ACK of a chunk lets the handler go on: the caller has accepted it.
LEMMA AckStep ==
  ASSUME RequestInv, NEW s \in Sockets, ServeAck(s)
  PROVE  RequestInv'
<1>1. /\ UNCHANGED <<callerVars, packet, payload, history, processed, toClient>>
      /\ Reads(s, "ack")
  BY DEF ServeAck, ReleaseResponse, sendVars
<1>2. /\ toServer' \in [Sockets -> Seq(TrueRequests)]
      /\ Head(toServer[s]) \in TrueRequests
  BY <1>1, ReadsKeeps DEF RequestInv, Channels
<1>3. ASSUME sending = "acking", Head(toServer[s]).n = packet, response = "handling",
             sending' = "off", response' = response
      PROVE  RequestInv'
  <2>1. packet \in seen
    BY <1>1, <1>2, <1>3 DEF TrueRequests, Reads, Holds
  <2>2. UNCHANGED <<seen, got, stream, runs, completed, restarts, outcome, cur, Chunks, AllSeen>>
    BY <1>1 DEF callerVars, received, history, Chunks, AllSeen
  <2>3. restarts = 0 => AllSeen
    <3>1. restarts = 0 =>
            /\ stream # <<>> /\ packet = stream[Len(stream)]
            /\ \A i \in 1 .. Len(stream) - 1 : stream[i] \in seen
      BY <1>3 DEF RequestInv, SendIsTrue, ChunksAreSeen
    <3>2. Len(stream) \in Nat
      BY DEF RequestInv, RequestTypes
    <3>3. QED
      BY <2>1, <3>1, <3>2 DEF AllSeen, Chunks
  <2>4. Channels'
    BY <1>1, <1>2, SameTruth DEF RequestInv, Channels, callerVars
  <2>5. RequestTypes' /\ RunIsRemembered' /\ NothingYet' /\ SendIsTrue'
    BY <1>1, <1>3, <2>2
       DEF RequestInv, RequestTypes, RunIsRemembered, NothingYet, SendIsTrue
  <2>6. ChunksAreSeen'
    BY <1>1, <1>3, <2>2, <2>3 DEF RequestInv, ChunksAreSeen
  <2>7. GotIsPrefix' /\ (outcome' = "ok" => completed')
    BY <2>2 DEF RequestInv, GotIsPrefix
  <2>8. QED
    BY <2>4, <2>5, <2>6, <2>7 DEF RequestInv
<1>4. CASE \/ response' = "none" /\ sending' = "off"
           \/ response' = response /\ (sending' = "off" <=> sending = "off")
  BY <1>1, <1>2, <1>4, ServerStep DEF RequestInv, Channels
<1>5. QED
  BY <1>3, <1>4 DEF ServeAck, ReleaseResponse, sendVars

\* The request is accepted, for the first time since the last restart.
LEMMA RequestStep ==
  ASSUME RequestInv, NEW s \in Sockets, ServeRequest(s)
  PROVE  RequestInv'
<1>1. /\ UNCHANGED <<callerVars, completed, restarts>>
      /\ Reads(s, "req")
      /\ "req" \notin processed /\ "req" \in processed'
  BY DEF ServeRequest, Known
<1>2. UNCHANGED <<seen, got, outcome, cur>>
  BY <1>1 DEF callerVars, received
<1>3. /\ runs <= restarts /\ response = "none" /\ sending = "off"
      /\ restarts = 0 => stream = <<>> /\ ~completed
  BY <1>1 DEF RequestInv, RunIsRemembered, NothingYet, SendIsTrue
<1>4. /\ \/ /\ response' = "handling" /\ runs' = runs + 1 /\ stream' = <<>>
            /\ UNCHANGED <<payload, packet, sending>>
            /\ Answer(s, <<Msg("reqAck")>>)
         \/ /\ response' = "finishing" /\ UNCHANGED <<runs, stream>>
            /\ payload' = "aborted" /\ packet' = packet + 1 /\ sending' = "acking"
            /\ Answer(s, <<Msg("reqAck"), Numbered("aborted", packet')>>)
  BY DEF ServeRequest, sendVars
<1>5. RequestTypes' /\ RunIsRemembered' /\ NothingYet' /\ SendIsTrue'
  <2>1. stream' \in Seq(Nat)
    BY <1>4, EmptySeq DEF RequestInv, RequestTypes
  <2>2. /\ packet' \in Nat /\ runs' \in Nat /\ seen \subseteq 0 .. packet'
        /\ payload' \in Kinds \cup {"chunk"}
    BY <1>4 DEF RequestInv, RequestTypes, Kinds
  <2>3. RequestTypes'
    BY <1>1, <1>2, <1>4, <2>1, <2>2 DEF RequestInv, RequestTypes
  <2>4. RunIsRemembered' /\ NothingYet'
    BY <1>1, <1>3, <1>4 DEF RequestInv, RequestTypes, RunIsRemembered, NothingYet
  <2>5. SendIsTrue'
    BY <1>3, <1>4 DEF SendIsTrue
  <2>6. QED
    BY <2>3, <2>4, <2>5
<1>6. restarts = 0 => stream' = stream /\ Chunks' = Chunks /\ AllSeen' = AllSeen
  BY <1>2, <1>3, <1>4 DEF Chunks, AllSeen
<1>7. restarts = 0 => Chunks = {}
  BY <1>3 DEF Chunks
<1>8. ChunksAreSeen'
  BY <1>1, <1>2, <1>3, <1>4, <1>6, <1>7
     DEF RequestInv, RequestTypes, ChunksAreSeen, AllSeen
<1>9. GotIsPrefix' /\ (outcome' = "ok" => completed')
  BY <1>1, <1>2, <1>6 DEF RequestInv, GotIsPrefix
<1>10. Channels'
  <2>1. TrueReplies \subseteq TrueReplies' /\ TrueRequests' = TrueRequests
    BY <1>1, <1>2, <1>4, <1>6 DEF RequestInv, RequestTypes, TrueReplies, TrueRequests
  <2>2. Msg("reqAck") \in TrueReplies
    BY PlainMessages DEF RequestInv, RequestTypes, Replies
  <2>3. packet' = packet + 1 => Numbered("aborted", packet') \in TrueReplies'
    BY DEF RequestInv, RequestTypes, TrueReplies, Numbered, Replies, Kinds
  <2>4. toClient \in [Sockets -> Seq(TrueReplies')]
    BY <2>1, SeqMonotonic DEF RequestInv, Channels
  <2>5. <<Msg("reqAck")>> \in Seq(TrueReplies')
    BY <2>1, <2>2
  <2>6. packet' = packet + 1 =>
          <<Msg("reqAck"), Numbered("aborted", packet')>> \in Seq(TrueReplies')
    BY <2>1, <2>2, <2>3
  <2>7. toClient' \in [Sockets -> Seq(TrueReplies')]
    BY <1>4, <2>4, <2>5, <2>6, AnswerKeeps
  <2>8. toServer' \in [Sockets -> Seq(TrueRequests)]
    BY <1>1, ReadsKeeps DEF RequestInv, Channels
  <2>9. QED
    BY <2>1, <2>7, <2>8 DEF Channels
<1>11. QED
  BY <1>5, <1>8, <1>9, <1>10 DEF RequestInv

LEMMA RestartStep ==
  ASSUME RequestInv, Restart
  PROVE  RequestInv'
<1>1. /\ UNCHANGED <<callerVars, toClient, stream, runs, completed, payload, packet>>
      /\ restarts' = restarts + 1 /\ processed' = {}
      /\ response' = "none" /\ sending' = "off"
      /\ Detach(attached)
  BY DEF Restart, ReleaseResponse
<1>2. UNCHANGED <<seen, got, outcome, cur>>
  BY <1>1 DEF callerVars, received
<1>3. restarts \in Nat
  BY DEF RequestInv, RequestTypes
<1>4. TrueReplies \subseteq TrueReplies' /\ TrueRequests' = TrueRequests
  BY <1>1, <1>2, <1>3 DEF TrueReplies, TrueRequests
<1>5. Channels'
  <2>1. toClient' \in [Sockets -> Seq(TrueReplies')]
    BY <1>1, <1>4, SeqMonotonic DEF RequestInv, Channels
  <2>2. toServer' \in [Sockets -> Seq(TrueRequests)]
    BY <1>1, DetachKeeps DEF RequestInv, Channels
  <2>3. QED
    BY <1>4, <2>1, <2>2 DEF Channels
<1>6. RequestTypes' /\ RunIsRemembered' /\ NothingYet' /\ SendIsTrue'
  BY <1>1, <1>2, <1>3
     DEF RequestInv, RequestTypes, RunIsRemembered, NothingYet, SendIsTrue
<1>7. ChunksAreSeen' /\ GotIsPrefix' /\ (outcome' = "ok" => completed')
  BY <1>1, <1>2, <1>3 DEF RequestInv, ChunksAreSeen, GotIsPrefix
<1>8. QED
  BY <1>5, <1>6, <1>7 DEF RequestInv

-----------------------------------------------------------------------------
(* New packets.                                                            *)

\* The handler sends a chunk, or the response is finished.
LEMMA SendsNext ==
  ASSUME RequestInv, NEW what \in {"chunk", "ok", "timeout"}, SendJSON(what),
         response = "handling",
         UNCHANGED <<callerVars, toServer, processed, runs, restarts>>,
         what = "chunk" => /\ sending = "off" /\ response' = response
                           /\ completed' = completed
                           /\ stream' = Append(stream, packet'),
         what # "chunk" => response' = "finishing" /\ stream' = stream,
         what = "ok" => sending = "off" /\ completed' = TRUE,
         what = "timeout" => completed' = completed
  PROVE  RequestInv'
<1>1. /\ payload' = what /\ packet' = packet + 1
      /\ sending' \in {"acking", "waiting"}
      /\ UNCHANGED toClient \/ Answer(ref, <<Numbered(what, packet')>>)
  BY DEF SendJSON, Attempt
<1>2. UNCHANGED <<seen, got, outcome, cur>>
  BY DEF callerVars, received
<1>3. /\ packet \in Nat /\ stream \in Seq(Nat) /\ Len(stream) \in Nat
      /\ completed \in BOOLEAN /\ seen \subseteq 0 .. packet
  BY DEF RequestInv, RequestTypes
<1>4. /\ Len(stream') = IF what = "chunk" THEN Len(stream) + 1 ELSE Len(stream)
      /\ \A i \in 1 .. Len(stream) : stream'[i] = stream[i]
      /\ what = "chunk" => stream'[Len(stream')] = packet + 1
      /\ stream' \in Seq(Nat)
      /\ what = "chunk" => stream' # <<>>
  <2>1. CASE what = "chunk"
    <3>1. stream' = Append(stream, packet + 1) /\ packet + 1 \in Nat
      BY <1>1, <1>3, <2>1
    <3>2. QED
      BY <1>3, <2>1, <3>1, AppendProperties
  <2>2. CASE what # "chunk"
    BY <1>3, <2>2
  <2>3. QED
    BY <2>1, <2>2
<1>5. Chunks' = IF what = "chunk" THEN Chunks \cup {packet + 1} ELSE Chunks
  <2>1. CASE what = "chunk"
    <3>1. /\ Len(stream') = Len(stream) + 1 /\ stream'[Len(stream) + 1] = packet + 1
          /\ \A i \in 1 .. Len(stream) : stream'[i] = stream[i]
      BY <1>4, <2>1
    <3>2. 1 .. Len(stream') = 1 .. Len(stream) \cup {Len(stream) + 1}
      BY <1>3, <3>1
    <3>3. Chunks' = {stream[i] : i \in 1 .. Len(stream)} \cup {packet + 1}
      BY <3>1, <3>2, Zenon DEF Chunks
    <3>4. QED
      BY <2>1, <3>3 DEF Chunks
  <2>2. CASE what # "chunk"
    BY <2>2 DEF Chunks
  <2>3. QED
    BY <2>1, <2>2
<1>6. /\ restarts = 0 => Chunks \subseteq 1 .. packet
      /\ restarts = 0 => ~completed
      /\ restarts = 0 /\ sending = "off" => AllSeen
      /\ restarts = 0 => "req" \in processed
      /\ what = "ok" => completed'
  BY <1>3 DEF RequestInv, ChunksAreSeen, RunIsRemembered
<1>7. RequestTypes' /\ RunIsRemembered' /\ NothingYet'
  <2>1. completed' \in BOOLEAN /\ payload' \in Kinds \cup {"chunk"}
    BY <1>1, <1>3 DEF Kinds
  <2>2. seen' \subseteq 0 .. packet' /\ packet' \in Nat
    BY <1>1, <1>2, <1>3
  <2>3. RequestTypes'
    BY <1>2, <1>4, <2>1, <2>2 DEF RequestInv, RequestTypes
  <2>4. QED
    BY <1>6, <2>3 DEF RequestInv, RunIsRemembered, NothingYet
<1>8. SendIsTrue'
  BY <1>1, <1>4, <1>6 DEF SendIsTrue
<1>9. AllSeen' = IF what = "chunk" THEN FALSE ELSE AllSeen
  <2>1. packet + 1 \notin seen
    BY <1>3
  <2>2. QED
    BY <1>2, <1>5, <2>1 DEF AllSeen
<1>10. ChunksAreSeen'
  <2> SUFFICES ASSUME restarts = 0 PROVE ChunksAreSeen'
    BY DEF ChunksAreSeen
  <2>1. Chunks' \subseteq 1 .. packet'
    BY <1>1, <1>3, <1>5, <1>6
  <2>2. \A i \in 1 .. Len(stream') - 1 : stream'[i] \in seen'
    <3>1. CASE what = "chunk"
      BY <1>2, <1>3, <1>4, <1>6, <3>1 DEF AllSeen, Chunks
    <3>2. CASE what # "chunk"
      BY <1>2, <3>2 DEF RequestInv, ChunksAreSeen
    <3>3. QED
      BY <3>1, <3>2
  <2>3. completed' => AllSeen' /\ response' # "handling"
    BY <1>6, <1>9
  <2>4. response' = "handling" => sending' # "off"
    BY <1>1
  <2>5. QED
    BY <2>1, <2>2, <2>3, <2>4 DEF ChunksAreSeen
<1>11. GotIsPrefix' /\ (outcome' = "ok" => completed')
  <2>1. outcome' = "ok" => completed'
    BY <1>2, <1>6 DEF RequestInv
  <2>2. ASSUME restarts = 0 PROVE GotIsPrefix'
    <3>1. /\ Len(got) \in Nat
          /\ Len(got) <= Len(stream)
          /\ \A i \in 1 .. Len(got) : got[i] = stream[i]
          /\ outcome = "none" => Len(got) = IF AllSeen THEN Len(stream) ELSE Len(stream) - 1
          /\ outcome # "ok"
      BY <1>6, <2>2 DEF RequestInv, RequestTypes, GotIsPrefix
    <3>2. Len(got) <= Len(stream') /\ \A i \in 1 .. Len(got) : got[i] = stream'[i]
      BY <1>3, <1>4, <3>1
    <3>3. outcome = "none" => Len(got) = IF AllSeen' THEN Len(stream') ELSE Len(stream') - 1
      BY <1>3, <1>4, <1>6, <1>9, <2>2, <3>1
    <3>4. QED
      BY <1>2, <3>1, <3>2, <3>3 DEF GotIsPrefix
  <2>3. QED
    BY <2>1, <2>2 DEF GotIsPrefix
<1>12. Channels'
  <2>1. TrueReplies \subseteq TrueReplies' /\ TrueRequests' = TrueRequests
    <3>1. completed => completed'
      BY <1>3
    <3>2. QED
      BY <1>1, <1>2, <1>3, <1>5, <3>1 DEF TrueReplies, TrueRequests
  <2>2. Numbered(what, packet') \in TrueReplies'
    BY <1>1, <1>3, <1>5, <1>6 DEF TrueReplies, Numbered, Replies, Kinds
  <2>3. toClient \in [Sockets -> Seq(TrueReplies')]
    BY <2>1, SeqMonotonic DEF RequestInv, Channels
  <2>4. <<Numbered(what, packet')>> \in Seq(TrueReplies')
    BY <2>2
  <2>5. toClient' \in [Sockets -> Seq(TrueReplies')]
    BY <1>1, <2>3, <2>4, AnswerKeeps
  <2>6. QED
    BY <2>1, <2>5 DEF RequestInv, Channels
<1>13. QED
  BY <1>7, <1>8, <1>10, <1>11, <1>12 DEF RequestInv

LEMMA HandlerStep ==
  ASSUME RequestInv, HandlerStreams \/ HandlerReturns \/ ResponseTimeout
  PROVE  RequestInv'
<1>1. CASE HandlerStreams
  BY <1>1, SendsNext DEF HandlerStreams
<1>2. CASE HandlerReturns
  BY <1>2, SendsNext DEF HandlerReturns, Finish
<1>3. CASE ResponseTimeout
  BY <1>3, SendsNext DEF ResponseTimeout, Finish
<1>4. QED
  BY <1>1, <1>2, <1>3

-----------------------------------------------------------------------------
(* What the caller accepts.                                                *)

\* A final response: a result comes when the callback was given all chunks.
LEMMA FinalStep ==
  ASSUME RequestInv, GetFinal
  PROVE  RequestInv'
<1> DEFINE m == Head(toClient[cur])
<1>1. /\ UNCHANGED <<serverVars, got, cur>>
      /\ seen' = seen \cup {m.n}
      /\ Gets(Kinds)
      /\ UNCHANGED toServer \/ Put(cur, Numbered("ack", m.n))
  BY DEF GetFinal
<1>2. \/ m.n \in seen
      \/ outcome # "none" /\ outcome' = outcome
      \/ outcome = "none" /\ outcome' = ResultOf(m)
  BY DEF GetFinal, FirstTime, Settled, Settle
<1>3. m.n \in seen => outcome' = outcome
  BY DEF GetFinal, FirstTime
<1>4. /\ m \in TrueReplies
      /\ toClient' \in [Sockets -> Seq(TrueReplies)]
  BY <1>1, GetsKeeps DEF RequestInv, Channels, RequestTypes
<1>5. UNCHANGED <<stream, runs, completed, restarts, packet, payload, sending, response,
                  processed, Chunks>>
  BY <1>1 DEF serverVars, handlerVars, sendVars, history, Chunks
<1>6. m.n \in Nat /\ m.n <= packet
  BY <1>4 DEF TrueReplies
<1>7. RequestTypes' /\ RunIsRemembered' /\ NothingYet' /\ SendIsTrue'
  <2>1. seen' \subseteq 0 .. packet'
    <3>1. seen \subseteq 0 .. packet /\ packet \in Nat /\ packet' = packet
      BY <1>5 DEF RequestInv, RequestTypes
    <3>2. m.n \in 0 .. packet
      BY <1>6, <3>1
    <3> HIDE DEF m
    <3>3. QED
      BY <1>1, <3>1, <3>2
  <2>2. RequestTypes'
    BY <1>1, <1>5, <2>1 DEF RequestInv, RequestTypes
  <2>3. QED
    BY <1>5, <2>2 DEF RequestInv, RunIsRemembered, NothingYet, SendIsTrue
<1>8. ChunksAreSeen'
  BY <1>1, <1>5 DEF RequestInv, ChunksAreSeen, AllSeen
<1>9. outcome' = "ok" => outcome = "ok" \/ (outcome = "none" /\ completed)
  <2>1. ResultOf(m) = "ok" => completed
    BY <1>4 DEF ResultOf, TrueReplies
  <2>2. QED
    BY <1>2, <1>3, <2>1
<1>10. GotIsPrefix'
  <2>1. outcome' = "none" => AllSeen' = AllSeen /\ outcome = "none"
    <3>1. outcome' = "none" => outcome = "none" /\ m.n \in seen
      BY <1>2, <1>3 DEF ResultOf
    <3>2. m.n \in seen => seen' = seen
      BY <1>1
    <3>3. QED
      BY <1>5, <3>1, <3>2 DEF AllSeen
  <2>2. restarts = 0 /\ outcome = "none" /\ completed => got = stream
    <3>1. restarts = 0 /\ outcome = "none" /\ completed =>
            Len(got) = Len(stream) /\ \A i \in 1 .. Len(got) : got[i] = stream[i]
      BY DEF RequestInv, GotIsPrefix, ChunksAreSeen
    <3>2. got \in Seq(Nat) /\ stream \in Seq(Nat)
      BY DEF RequestInv, RequestTypes
    <3>3. QED
      BY <3>1, <3>2, SeqEqual
  <2>3. QED
    BY <1>1, <1>5, <1>9, <2>1, <2>2 DEF RequestInv, GotIsPrefix
<1>11. outcome' = "ok" => completed'
  BY <1>5, <1>9 DEF RequestInv
<1>12. Channels'
  <2>1. TrueReplies' = TrueReplies
    BY <1>5 DEF TrueReplies
  <2>2. TrueRequests \subseteq TrueRequests' /\ Numbered("ack", m.n) \in TrueRequests'
    BY <1>1, <1>6 DEF TrueRequests, Numbered, Requests
  <2>3. toServer \in [Sockets -> Seq(TrueRequests')]
    BY <2>2, SeqMonotonic DEF RequestInv, Channels
  <2>4. toServer' \in [Sockets -> Seq(TrueRequests')]
    BY <1>1, <2>2, <2>3, PutKeeps
  <2>5. QED
    BY <1>4, <2>1, <2>4 DEF Channels
<1>13. QED
  BY <1>7, <1>8, <1>10, <1>11, <1>12 DEF RequestInv

\* A chunk: one that was not accepted before is the last of the stream.
LEMMA ChunkStep ==
  ASSUME RequestInv, GetChunk
  PROVE  RequestInv'
<1> DEFINE m == Head(toClient[cur])
<1>1. /\ UNCHANGED <<serverVars, outcome, cur>>
      /\ Gets({"chunk"})
      /\ seen' = seen \cup {m.n}
      /\ got' = IF m.n \notin seen /\ outcome = "none" THEN Append(got, m.n) ELSE got
  BY DEF GetChunk, FirstTime, Settled
<1>2. /\ m \in TrueReplies /\ m.type = "chunk"
      /\ toClient' \in [Sockets -> Seq(TrueReplies)]
  BY <1>1, GetsKeeps DEF RequestInv, Channels, RequestTypes, Gets
<1>3. UNCHANGED <<stream, runs, completed, restarts, packet, payload, sending, response,
                  processed, Chunks>>
  BY <1>1 DEF serverVars, handlerVars, sendVars, history, Chunks
<1>4. /\ m.n \in Nat /\ m.n <= packet
      /\ restarts = 0 => m.n \in Chunks
  BY <1>2 DEF TrueReplies
<1>5. got \in Seq(Nat) /\ stream \in Seq(Nat) /\ Len(got) \in Nat /\ Len(stream) \in Nat
  BY DEF RequestInv, RequestTypes
<1>6. /\ Append(got, m.n) \in Seq(Nat)
      /\ Len(Append(got, m.n)) = Len(got) + 1
      /\ \A i \in 1 .. Len(got) : Append(got, m.n)[i] = got[i]
      /\ Append(got, m.n)[Len(got) + 1] = m.n
  BY <1>4, <1>5, AppendProperties
<1>7. RequestTypes' /\ RunIsRemembered' /\ NothingYet' /\ SendIsTrue'
  <2>1. seen' \subseteq 0 .. packet' /\ got' \in Seq(Nat)
    <3>1. seen \subseteq 0 .. packet /\ packet \in Nat /\ packet' = packet
      BY <1>3 DEF RequestInv, RequestTypes
    <3>2. m.n \in 0 .. packet
      BY <1>4, <3>1
    <3> HIDE DEF m
    <3>3. seen' \subseteq 0 .. packet'
      BY <1>1, <3>1, <3>2
    <3>4. got' \in Seq(Nat)
      BY <1>1, <1>5, <1>6
    <3>5. QED
      BY <3>3, <3>4
  <2>2. RequestTypes'
    BY <1>1, <1>3, <2>1 DEF RequestInv, RequestTypes
  <2>3. QED
    BY <1>3, <2>2 DEF RequestInv, RunIsRemembered, NothingYet, SendIsTrue
<1>8. ChunksAreSeen'
  BY <1>1, <1>3 DEF RequestInv, ChunksAreSeen, AllSeen
<1>9. ASSUME restarts = 0
      PROVE  GotIsPrefix'
  <2>1. CASE m.n \in seen
    <3>1. seen' = seen /\ got' = got /\ AllSeen' = AllSeen
      BY <1>1, <1>3, <2>1 DEF AllSeen
    <3>2. QED
      BY <1>1, <1>3, <3>1 DEF RequestInv, GotIsPrefix
  <2>2. CASE m.n \notin seen
    <3>1. stream # <<>> /\ m.n = stream[Len(stream)] /\ ~AllSeen
      <4>1. PICK i \in 1 .. Len(stream) : m.n = stream[i]
        BY <1>4, <1>9 DEF Chunks
      <4>2. i \notin 1 .. Len(stream) - 1
        BY <1>9, <2>2, <4>1 DEF RequestInv, ChunksAreSeen
      <4>3. i = Len(stream) /\ Len(stream) # 0
        BY <1>5, <4>1, <4>2
      <4>4. ~AllSeen
        BY <1>4, <1>9, <2>2 DEF AllSeen
      <4>5. QED
        BY <4>1, <4>3, <4>4
    <3>2. AllSeen'
      BY <1>1, <1>3, <1>5, <1>9, <3>1 DEF RequestInv, ChunksAreSeen, Chunks, AllSeen
    <3>3. CASE outcome = "none"
      <4>1. /\ Len(got) = Len(stream) - 1
            /\ \A i \in 1 .. Len(got) : got[i] = stream[i]
        BY <1>9, <3>1, <3>3 DEF RequestInv, GotIsPrefix
      <4>2. got' = Append(got, m.n)
        BY <1>1, <2>2, <3>3
      <4>3. Len(got') = Len(stream) /\ \A i \in 1 .. Len(got') : got'[i] = stream[i]
        BY <1>5, <1>6, <3>1, <4>1, <4>2
      <4>4. QED
        BY <1>1, <1>3, <1>5, <3>2, <3>3, <4>3 DEF GotIsPrefix
    <3>4. CASE outcome # "none"
      BY <1>1, <1>3, <1>9, <3>4 DEF RequestInv, GotIsPrefix
    <3>5. QED
      BY <3>3, <3>4
  <2>3. QED
    BY <2>1, <2>2
<1>10. GotIsPrefix' /\ (outcome' = "ok" => completed')
  BY <1>1, <1>3, <1>9 DEF RequestInv, GotIsPrefix
<1>11. Channels'
  <2>1. TrueReplies' = TrueReplies
    BY <1>3 DEF TrueReplies
  <2>2. /\ TrueRequests \subseteq TrueRequests'
        /\ Numbered("ack", m.n) \in TrueRequests'
        /\ Msg("unknown") \in TrueRequests'
    BY <1>1, <1>4 DEF TrueRequests, Numbered, Msg, Requests
  <2>3. toServer \in [Sockets -> Seq(TrueRequests')]
    BY <2>2, SeqMonotonic DEF RequestInv, Channels
  <2> DEFINE ack == <<Numbered("ack", m.n)>>
             told == IF Released /\ FirstTime(m.n) THEN <<Msg("unknown")>> ELSE <<>>
             q == IF up /\ cur \in attached THEN toServer[cur] \o ack \o told ELSE toServer[cur]
  <2>4. toServer' = [toServer EXCEPT ![cur] = q]
    BY Zenon DEF GetChunk
  <2>5. cur \in Sockets
    BY <1>1, RequestChannelAssumption DEF Gets, RequestInv, RequestTypes, Sockets
  <2>6. ack \in Seq(TrueRequests') /\ told \in Seq(TrueRequests')
    BY <2>2, EmptySeq
  <2>7. q \in Seq(TrueRequests')
    <3> HIDE DEF ack, told
    <3>1. toServer[cur] \o ack \in Seq(TrueRequests')
      BY <2>3, <2>5, <2>6, ConcatProperties
    <3>2. QED
      BY <2>3, <2>5, <2>6, <3>1, ConcatProperties
  <2>8. [toServer EXCEPT ![cur] = q] \in [Sockets -> Seq(TrueRequests')]
    <3> HIDE DEF q
    <3>1. QED
      BY <2>3, <2>7, QueueChanges
  <2>9. toServer' \in [Sockets -> Seq(TrueRequests')]
    BY <2>4, <2>8, Zenon
  <2>10. QED
    BY <1>2, <2>1, <2>9 DEF Channels
<1>12. QED
  BY <1>7, <1>8, <1>10, <1>11 DEF RequestInv

-----------------------------------------------------------------------------

LEMMA StepRequest == RequestInv /\ [Next]_vars => RequestInv'
<1> SUFFICES ASSUME RequestInv, [Next]_vars PROVE RequestInv'
  OBVIOUS
<1>1. CASE \/ Start \/ UserAbort \/ RequestTimeout \/ BecomeReady \/ RetryFails
           \/ \E t \in Threads : Woken(t) \/ ReconnectTimeout(t)
           \/ \E t \in RequestThreads : Confirm(t)
  BY <1>1, CallerMoves
<1>2. CASE SetServer \/ CloseAtCaller
  BY <1>2, ConnectionChanges
<1>3. CASE GetMessage
  BY <1>3, CallerHears, FinalStep, ChunkStep DEF GetMessage
<1>4. CASE \E s \in Sockets : Serve(s)
  BY <1>4, ServerAnswers, RequestStep, AckStep DEF Serve
<1>5. CASE ChunkTimeout \/ ForgetAbort \/ \E s \in Sockets : CloseAtServer(s)
  BY <1>5, ServerLoses
<1>6. CASE ResumeSend
  BY <1>6, ResumeStep
<1>7. CASE HandlerStreams \/ HandlerReturns \/ ResponseTimeout
  BY <1>7, HandlerStep
<1>8. CASE Restart
  BY <1>8, RestartStep
<1>9. CASE UNCHANGED vars
  <2>1. UNCHANGED <<callerVars, packet, payload, history, response, sending, processed,
                    toServer, toClient>>
    BY <1>9 DEF vars, serverVars, handlerVars, sendVars
  <2>2. QED
    BY <2>1, ServerStep DEF RequestInv, Channels
<1>10. QED
  BY <1>1, <1>2, <1>3, <1>4, <1>5, <1>6, <1>7, <1>8, <1>9 DEF Next

\* The inductive invariant of the request channel holds.
THEOREM RequestInvHolds == Spec => []RequestInv
<1>1. QED
  BY InitRequest, StepRequest, PTL DEF Spec

\* The handler is called at most once in the life of a serving process.
THEOREM RequestRunsOnce == Spec => []HandledOnce
<1>1. RequestInv => HandledOnce
  BY DEF RequestInv, RunIsRemembered, HandledOnce
<1>2. QED
  BY <1>1, RequestInvHolds, PTL

-----------------------------------------------------------------------------
(* The watch of a request under way: retryOnClose.                          *)

Phases == {"off", "initial", "acking", "acked", "waiting", "woken", "done"}

\* The socket of a send that waits for its ACK, or got it, is one there was; what
\* is watched was confirmed, so that retryOnClose never sends it again.
WatchInv ==
  /\ pc \in [Threads -> Phases]
  /\ pc[Abort] # "off" => Settled
  /\ cur \in Nat /\ server \in 0 .. cur
  /\ (ready => up) /\ (up => cur > 0)
  /\ ~Settled => \A t \in RequestThreads : pc[t] \in {"acking", "acked"} => server > 0
  /\ armed \/ retry # "off" => confirmed
  /\ pc[Resend] = "off"
  /\ RetryIsKept

LEMMA ThreadsDiffer ==
  /\ {Main, Resend, Abort} \subseteq Threads
  /\ Main # Abort /\ Resend # Abort /\ Main # Resend
  /\ \A t \in RequestThreads : t \in Threads /\ t # Abort
  /\ \A s \in Sockets : Replay(s) \in Threads /\ Replay(s) \notin {Main, Resend, Abort}
BY DEF Threads, RequestThreads, Main, Resend, Abort, Replay

LEMMA WatchedByCaller ==
  ASSUME WatchInv, [Next]_vars,
         \/ Start \/ UserAbort \/ RequestTimeout \/ BecomeReady \/ RetryFails
         \/ SetServer \/ CloseAtCaller
         \/ \E t \in Threads : Woken(t) \/ ReconnectTimeout(t)
  PROVE  WatchInv'
<1> USE ThreadsDiffer DEF Settled
<1>1. CASE Start
  BY <1>1 DEF Start, SendOrWait, WatchInv, RetryIsKept, Phases
<1>2. CASE UserAbort \/ RequestTimeout
  <2>1. outcome' # "none" /\ UNCHANGED <<cur, up, ready>> /\ server' \in {0, cur, server}
    BY <1>2 DEF UserAbort, RequestTimeout, Settle
  <2>2. ASSUME NEW p \in [Threads -> Phases], p[Resend] = "off", BeginAbort(p)
        PROVE  pc' \in [Threads -> Phases] /\ pc'[Resend] = "off"
    BY <2>2 DEF BeginAbort, SendOrWait, Phases
  <2>3. /\ AllDone \in [Threads -> Phases]
        /\ [t \in Threads |-> IF pc[t] = "waiting" THEN "woken" ELSE pc[t]] \in [Threads -> Phases]
        /\ AllDone[Resend] = "off" /\ pc[Resend] = "off"
    BY DEF AllDone, WatchInv, Phases
  <2>4. pc' \in [Threads -> Phases] /\ pc'[Resend] = "off" /\ confirmed'
    BY <1>2, <2>2, <2>3 DEF UserAbort, RequestTimeout, Settle
  <2>5. QED
    BY <2>1, <2>4 DEF WatchInv, RetryIsKept
<1>3. CASE BecomeReady
  BY <1>3 DEF BecomeReady, WatchInv, RetryIsKept, Phases
<1>4. CASE RetryFails
  BY <1>4 DEF RetryFails, Settle, AllDone, WatchInv, RetryIsKept, Phases
<1>5. CASE SetServer \/ CloseAtCaller
  BY <1>5 DEF SetServer, CloseAtCaller, PcAfterClose, RetryAfterClose, WatchInv, RetryIsKept, Phases
<1>6. ASSUME NEW t \in Threads, Woken(t)
      PROVE  WatchInv'
  BY <1>6 DEF Woken, SendOrWait, WatchInv, RetryIsKept, Phases
<1>7. ASSUME NEW t \in Threads, ReconnectTimeout(t)
      PROVE  WatchInv'
  BY <1>7 DEF ReconnectTimeout, Settle, AllDone, WatchInv, RetryIsKept, Phases
<1>8. QED
  BY <1>1, <1>2, <1>3, <1>4, <1>5, <1>6, <1>7

LEMMA WatchedByConfirm ==
  ASSUME WatchInv, NEW t \in RequestThreads, Confirm(t)
  PROVE  WatchInv'
<1>1. /\ pc' = [pc EXCEPT ![t] = "done"]
      /\ pc[t] = "acked" /\ UNCHANGED <<outcome, cur, up, ready, server>>
      /\ confirmed'
      /\ \/ Settled \/ armed' \/ retry' # "off" \/ t = Resend
         \/ t \notin {Main, Resend} /\ UNCHANGED <<armed, retry>>
  BY DEF Confirm, StartsRetry
<1>2. QED
  BY <1>1, ThreadsDiffer DEF WatchInv, RetryIsKept, Settled, Phases

LEMMA WatchedByMessages ==
  ASSUME WatchInv, cur \in 0 .. MaxSocket, GetMessage
  PROVE  WatchInv'
<1> USE ThreadsDiffer DEF Settled
<1>1. CASE GetRequestAck
  BY <1>1 DEF GetRequestAck, WatchInv, RetryIsKept, Phases
<1>2. CASE GetAbortAck
  BY <1>2 DEF GetAbortAck, AllDone, WatchInv, RetryIsKept, Phases
<1>3. CASE GetSyncReply
  <2>1. cur \in Sockets
    BY <1>3, RequestChannelAssumption DEF GetSyncReply, Gets, Sockets
  <2>2. QED
    BY <1>3, <2>1 DEF GetSyncReply, SendOrWait, Settle, AllDone, WatchInv, RetryIsKept, Phases
<1>4. CASE GetHasReply
  <2>1. UNCHANGED <<cur, up, ready>>
    BY <1>4 DEF GetHasReply
  <2>2. CASE UNCHANGED <<pc, server, confirmed, outcome, armed, retry>>
    BY <2>1, <2>2 DEF WatchInv, RetryIsKept
  <2>3. CASE server' = cur /\ armed' = TRUE /\ UNCHANGED <<pc, confirmed, outcome>> /\ confirmed
    BY <2>1, <2>3, <1>4 DEF WatchInv, RetryIsKept, GetHasReply, Gets
  <2>4. CASE Settle("unknownRequest")
    BY <2>1, <2>4 DEF Settle, AllDone, WatchInv, RetryIsKept, Phases
  <2>5. QED
    BY <1>4, <2>2, <2>3, <2>4 DEF GetHasReply, Delivered, WatchInv
<1>5. CASE GetFinal
  BY <1>5 DEF GetFinal, ResultOf, Settle, AllDone, WatchInv, RetryIsKept, Phases
<1>6. CASE GetChunk
  BY <1>6 DEF GetChunk, WatchInv, RetryIsKept, Phases
<1>7. QED
  BY <1>1, <1>2, <1>3, <1>4, <1>5, <1>6 DEF GetMessage

LEMMA StepWatch ==
  ASSUME RequestInv, WatchInv, [Next]_vars
  PROVE  WatchInv'
<1>1. CASE UNCHANGED callerVars
  BY <1>1 DEF callerVars, WatchInv, RetryIsKept, Settled
<1>2. cur \in 0 .. MaxSocket
  BY DEF RequestInv, RequestTypes
<1>3. CASE \/ \E s \in Sockets : Serve(s) \/ CloseAtServer(s)
           \/ HandlerStreams \/ HandlerReturns \/ ResponseTimeout \/ ResumeSend
           \/ ChunkTimeout \/ ForgetAbort \/ Restart
  <2>1. UNCHANGED callerVars
    BY <1>3 DEF Serve, ServeDuplicate, ServeRequest, ServeAbort, ServeSync, ServeHas, ServeAck,
                CloseAtServer, HandlerStreams, HandlerReturns, ResponseTimeout, Finish,
                ResumeSend, ChunkTimeout, ForgetAbort, Restart
  <2>2. QED
    BY <1>1, <2>1
<1>4. QED
  BY <1>1, <1>2, <1>3, WatchedByCaller, WatchedByConfirm, WatchedByMessages DEF Next, vars

LEMMA InitWatch == Init => WatchInv
BY ThreadsDiffer DEF Init, WatchInv, RetryIsKept, Phases, Settled

\* A request under way is watched: the loss of its socket from the ACK on starts
\* retryOnClose.
THEOREM RetriesAreKept == Spec => []RetryIsKept
<1>1. RequestInv /\ WatchInv /\ [Next]_vars => WatchInv'
  BY StepWatch
<1>2. WatchInv => RetryIsKept
  BY DEF WatchInv
<1>3. QED
  BY <1>1, <1>2, InitWatch, RequestInvHolds, PTL DEF Spec

\* The callback is given the chunks of the handler in order, each once, and all
\* of them before a result, whatever sockets are lost and packets repeated.
THEOREM StreamsArriveWhole == Spec => []StreamIsIntact
<1>1. RequestInv => StreamIsIntact
  BY DEF RequestInv, GotIsPrefix, StreamIsIntact
<1>2. QED
  BY <1>1, RequestInvHolds, PTL


-----------------------------------------------------------------------------
(* The sockets of the response and the attempts of its send.  An attempt is *)
(* over when its socket is closed, so there are no more attempts than       *)
(* sockets that the server has lost.                                        *)

Lost == (1 .. cur) \ attached

PlaceInv ==
  /\ attached \subseteq 1 .. cur
  /\ ref # 0 => ref \in attached

TriesInv ==
  /\ tries \in Nat
  /\ sending = "waiting" => tries = 0
  /\ sending = "acking" => tries <= Cardinality(Lost) + 1
  /\ sending = "resume" => tries <= Cardinality(Lost)

LEMMA AttachedAre ==
  ASSUME RequestInv, PlaceInv
  PROVE  /\ MaxSocket \in Nat /\ cur \in 0 .. MaxSocket
         /\ attached \subseteq 1 .. cur
         /\ attached \subseteq Sockets
         /\ \A o \in attached : o \in Nat /\ 1 <= o /\ o <= cur
<1>1. MaxSocket \in Nat /\ cur \in 0 .. MaxSocket /\ attached \subseteq 1 .. cur
  BY RequestChannelAssumption DEF PlaceInv, RequestInv, RequestTypes
<1>2. 1 .. cur \subseteq 1 .. MaxSocket
  BY <1>1
<1>3. \A o \in attached : o \in Nat /\ 1 <= o /\ o <= cur
  BY <1>1
<1>4. QED
  BY <1>1, <1>2, <1>3 DEF Sockets

LEMMA LostAre ==
  ASSUME RequestInv, PlaceInv
  PROVE  IsFiniteSet(Lost) /\ Cardinality(Lost) \in Nat
<1>1. cur \in Nat
  BY AttachedAre
<1>2. IsFiniteSet(1 .. cur)
  BY <1>1, FS_Interval
<1>3. IsFiniteSet(Lost)
  BY <1>2, FS_Subset DEF Lost
<1>4. QED
  BY <1>3, FS_CardinalityType

\* Steps that neither move the response nor attach or detach a socket.
LEMMA PlacesStay ==
  ASSUME RequestInv, PlaceInv, TriesInv, UNCHANGED <<cur, attached>>,
         ref' \in {0, ref} \/ ref' \in attached,
         tries' \in Nat, sending' = "waiting" => tries' = 0,
         sending' = "acking" => \/ tries' <= 1
                                \/ sending = "acking" /\ tries' = tries
                                \/ sending = "resume" /\ tries' = tries + 1,
         sending' = "resume" => sending \in {"waiting", "resume"} /\ tries' = tries
  PROVE  PlaceInv' /\ TriesInv'
<1>1. PlaceInv'
  BY DEF PlaceInv
<1>2. PICK n : n = Cardinality(Lost) /\ n \in Nat /\ Cardinality(Lost)' = n
  BY LostAre DEF Lost
<1>3. TriesInv'
  BY <1>2 DEF TriesInv
<1>4. QED
  BY <1>1, <1>3

LEMMA PlacesRest ==
  ASSUME RequestInv, PlaceInv, TriesInv, UNCHANGED <<cur, attached, ref, sending, tries>>
  PROVE  PlaceInv' /\ TriesInv'
<1>1. tries \in Nat /\ (sending = "waiting" => tries = 0)
  BY DEF TriesInv
<1>2. QED
  BY <1>1, PlacesStay

LEMMA PlacesServed ==
  ASSUME RequestInv, PlaceInv, TriesInv, NEW s \in Sockets, Serve(s)
  PROVE  PlaceInv' /\ TriesInv'
<1>1. /\ UNCHANGED <<cur, attached>> /\ s \in attached
      /\ tries \in Nat /\ (sending = "waiting" => tries = 0)
  BY DEF Serve, ServeDuplicate, ServeRequest, ServeAbort, ServeSync, ServeHas, ServeAck,
         Reads, Holds, callerVars, serverVars, TriesInv
<1>2. CASE ServeDuplicate(s) \/ ServeHas(s)
  BY <1>1, <1>2, PlacesRest DEF ServeDuplicate, ServeHas, serverVars, handlerVars, sendVars
<1>3. CASE ServeRequest(s)
  BY <1>1, <1>3, PlacesStay DEF ServeRequest, sendVars
<1>4. CASE ServeAbort(s)
  BY <1>1, <1>4, PlacesStay DEF ServeAbort, AbortResponse, ReleaseResponse, sendVars
<1>5. CASE ServeSync(s)
  BY <1>1, <1>5, PlacesStay DEF ServeSync, ReleaseResponse, Resumed, sendVars
<1>6. CASE ServeAck(s)
  BY <1>1, <1>6, PlacesStay DEF ServeAck, ReleaseResponse, sendVars
<1>7. QED
  BY <1>2, <1>3, <1>4, <1>5, <1>6 DEF Serve

LEMMA PlacesHandled ==
  ASSUME RequestInv, PlaceInv, TriesInv,
         \/ HandlerStreams \/ HandlerReturns \/ ResponseTimeout
         \/ ResumeSend \/ ChunkTimeout \/ ForgetAbort
  PROVE  PlaceInv' /\ TriesInv'
<1>1. /\ UNCHANGED <<cur, attached>> /\ ref' \in {0, ref}
      /\ tries \in Nat /\ (sending = "waiting" => tries = 0)
  BY DEF HandlerStreams, HandlerReturns, ResponseTimeout, ResumeSend, ChunkTimeout, ForgetAbort,
         Finish, ReleaseResponse, callerVars, TriesInv
<1>2. CASE HandlerStreams \/ HandlerReturns \/ ResponseTimeout
  BY <1>1, <1>2, PlacesStay DEF HandlerStreams, HandlerReturns, ResponseTimeout, Finish, SendJSON,
                                Attempt
<1>3. CASE ResumeSend
  BY <1>1, <1>3, PlacesStay DEF ResumeSend, Attempt
<1>4. CASE ChunkTimeout \/ ForgetAbort
  BY <1>1, <1>4, PlacesStay DEF ChunkTimeout, ForgetAbort, ReleaseResponse, sendVars
<1>5. QED
  BY <1>2, <1>3, <1>4

\* A new socket is attached: none is lost by it.
LEMMA PlacesGrow ==
  ASSUME RequestInv, PlaceInv, TriesInv, SetServer
  PROVE  PlaceInv' /\ TriesInv'
<1>0. PICK c : c = cur + 1
  OBVIOUS
<1>1. /\ cur \in Nat /\ cur' = c /\ attached' = attached \cup {c} /\ attached \subseteq 1 .. cur
      /\ UNCHANGED <<ref, sending, tries>>
  BY <1>0, AttachedAre DEF SetServer, handlerVars, sendVars
<1>2. (1 .. c) \ (attached \cup {c}) = (1 .. cur) \ attached
  BY <1>0, <1>1
<1>3. Lost' = Lost
  BY <1>1, <1>2 DEF Lost
<1>4. 1 .. cur \subseteq 1 .. c /\ c \in 1 .. c
  BY <1>0, <1>1
<1>5. PlaceInv'
  BY <1>1, <1>4 DEF PlaceInv
<1>6. TriesInv'
  BY <1>1, <1>3 DEF TriesInv
<1>7. QED
  BY <1>5, <1>6

\* A socket that is closed is one more that is lost.
LEMMA LostGrows ==
  ASSUME RequestInv, PlaceInv, cur' = cur, NEW s \in attached, s \notin attached',
         attached' \subseteq attached
  PROVE  /\ Cardinality(Lost) \in Nat /\ Cardinality(Lost') \in Nat
         /\ Cardinality(Lost) + 1 <= Cardinality(Lost')
<1>1. s \in 1 .. cur /\ s \notin Lost /\ s \in Lost' /\ Lost \cup {s} \subseteq Lost'
  BY AttachedAre DEF Lost
<1>2. IsFiniteSet(Lost) /\ Cardinality(Lost) \in Nat
  BY LostAre
<1>3. IsFiniteSet(1 .. cur)
  BY AttachedAre, FS_Interval
<1>4. IsFiniteSet(Lost')
  BY <1>3, FS_Subset DEF Lost
<1>5. Cardinality(Lost \cup {s}) = Cardinality(Lost) + 1
  BY <1>1, <1>2, FS_AddElement
<1>6. Cardinality(Lost \cup {s}) <= Cardinality(Lost')
  BY <1>1, <1>4, FS_Subset
<1>7. QED
  BY <1>2, <1>4, <1>5, <1>6, FS_CardinalityType

LEMMA PlacesShrink ==
  ASSUME RequestInv, PlaceInv, TriesInv, NEW s \in Sockets, CloseAtServer(s)
  PROVE  PlaceInv' /\ TriesInv'
<1>1. cur' = cur /\ s \in attached /\ s \notin attached' /\ attached' \subseteq attached
  BY DEF CloseAtServer, Detach, callerVars
<1>2. PICK n, k : /\ n = Cardinality(Lost) /\ n \in Nat
                  /\ k = Cardinality(Lost)' /\ k \in Nat /\ n + 1 <= k
  BY <1>1, LostGrows
<1>3. /\ ref' # 0 => ref' \in attached'
      /\ \/ UNCHANGED <<sending, tries>>
         \/ sending' = "waiting" /\ tries' = 0
         \/ sending' = "resume" /\ sending = "acking" /\ tries' = tries
         \/ sending' = "off" /\ tries' = 0
  BY DEF CloseAtServer, Detach, ReleaseResponse, PlaceInv
<1>4. PlaceInv'
  BY <1>1, <1>3 DEF PlaceInv
<1>5. TriesInv'
  BY <1>2, <1>3 DEF TriesInv
<1>6. QED
  BY <1>4, <1>5

LEMMA PlacesRestart ==
  ASSUME Restart
  PROVE  PlaceInv' /\ TriesInv'
<1>1. attached' = {} /\ ref' = 0 /\ sending' = "off" /\ tries' = 0
  BY DEF Restart, Detach, ReleaseResponse
<1>2. QED
  BY <1>1 DEF PlaceInv, TriesInv

LEMMA StepPlaces ==
  ASSUME RequestInv, PlaceInv, TriesInv, [Next]_vars
  PROVE  PlaceInv' /\ TriesInv'
<1>1. CASE SetServer
  BY <1>1, PlacesGrow
<1>2. CASE \E s \in Sockets : Serve(s)
  BY <1>2, PlacesServed
<1>3. CASE \E s \in Sockets : CloseAtServer(s)
  BY <1>3, PlacesShrink
<1>4. CASE \/ HandlerStreams \/ HandlerReturns \/ ResponseTimeout
           \/ ResumeSend \/ ChunkTimeout \/ ForgetAbort
  BY <1>4, PlacesHandled
<1>5. CASE Restart
  BY <1>5, PlacesRestart
<1>6. CASE \/ Start \/ UserAbort \/ RequestTimeout \/ BecomeReady \/ RetryFails
           \/ \E t \in Threads : Woken(t) \/ ReconnectTimeout(t)
           \/ \E t \in RequestThreads : Confirm(t)
           \/ CloseAtCaller \/ GetMessage
  <2>1. UNCHANGED serverVars /\ cur' = cur
    BY <1>6 DEF Start, UserAbort, RequestTimeout, BecomeReady, RetryFails, Woken, ReconnectTimeout,
                Confirm, CloseAtCaller, GetMessage, GetChunk, GetRequestAck, GetAbortAck,
                GetSyncReply, GetHasReply, GetFinal
  <2>2. QED
    BY <2>1, PlacesRest DEF serverVars, handlerVars, sendVars
<1>7. CASE UNCHANGED vars
  BY <1>7, PlacesRest DEF vars, callerVars, serverVars, handlerVars, sendVars
<1>8. QED
  BY <1>1, <1>2, <1>3, <1>4, <1>5, <1>6, <1>7 DEF Next

LEMMA InitPlaces == Init => PlaceInv /\ TriesInv
BY DEF Init, PlaceInv, TriesInv

\* A send out of attempts, with its response on a socket still open, was made
\* on as many other sockets.
LEMMA OutOfTriesIsLate ==
  ASSUME RequestInv, PlaceInv, TriesInv, NEW s \in Sockets, CloseAtServer(s), OutOfTries(s)
  PROVE  /\ SendAttempts <= Cardinality(Lost) + 1
         /\ SendAttempts < cur
<1>1. /\ tries >= SendAttempts /\ tries <= Cardinality(Lost) + 1
      /\ ref \in attached /\ s \in attached /\ ref # s
      /\ tries \in Nat /\ SendAttempts \in Nat
  BY RequestChannelAssumption DEF OutOfTries, TriesInv, PlaceInv, CloseAtServer
<1>2. IsFiniteSet(1 .. cur) /\ Cardinality(1 .. cur) = cur /\ cur \in Nat
  BY AttachedAre, FS_Interval
<1>3. ref \in 1 .. cur /\ s \in 1 .. cur /\ s \notin Lost /\ ref \notin Lost
  BY <1>1, AttachedAre DEF Lost
<1>4. IsFiniteSet(Lost) /\ Cardinality(Lost) \in Nat
  BY LostAre
<1>5. PICK L : L = Lost \cup {s}
  OBVIOUS
<1>6. IsFiniteSet(L) /\ Cardinality(L) = Cardinality(Lost) + 1 /\ ref \notin L
  BY <1>1, <1>3, <1>4, <1>5, FS_AddElement
<1>7. Cardinality(L \cup {ref}) = Cardinality(L) + 1
  BY <1>6, FS_AddElement
<1>8. Cardinality(L \cup {ref}) <= cur
  <2>1. L \cup {ref} \subseteq 1 .. cur
    BY <1>3, <1>5 DEF Lost
  <2>2. QED
    BY <1>2, <2>1, FS_Subset
<1>9. QED
  BY <1>1, <1>2, <1>4, <1>6, <1>7, <1>8

\* The server closes the working socket of the caller only for a final response
\* that was lost on as many other sockets as it has attempts.
THEOREM WorkingSocketsAreKept == Spec => WorkingSocketIsKept
<1> DEFINE Kept == up /\ cur \notin Fallible /\ cur \in attached \ attached' /\ restarts' = restarts
                     => Cardinality((1 .. cur - 1) \ attached') >= SendAttempts
<1>1. RequestInv /\ PlaceInv /\ TriesInv /\ [Next]_vars => [Kept]_vars
  <2> SUFFICES ASSUME RequestInv, PlaceInv, TriesInv, Next,
                      up, cur \notin Fallible, cur \in attached, cur \notin attached',
                      restarts' = restarts
               PROVE  Cardinality((1 .. cur - 1) \ attached') >= SendAttempts
    OBVIOUS
  <2>1. CASE \E s \in Sockets : CloseAtServer(s)
    <3>1. PICK s \in Sockets : CloseAtServer(s)
      BY <2>1
    <3>2. s # cur /\ OutOfTries(s) /\ attached' = attached \ {s, cur} /\ s \in attached
      BY <3>1 DEF CloseAtServer, Detach
    <3>3. SendAttempts <= Cardinality(Lost) + 1
      BY <3>1, <3>2, OutOfTriesIsLate
    <3>4. cur \in Nat /\ s \in 1 .. cur - 1 /\ s \notin Lost
      BY <3>2, AttachedAre DEF Lost
    <3>5. (1 .. cur - 1) \ attached' = Lost \cup {s}
      <4>1. cur \notin Lost
        BY DEF Lost
      <4>2. \A x : x \in 1 .. cur /\ x # cur <=> x \in 1 .. cur - 1
        BY <3>4
      <4>3. QED
        BY <3>2, <3>4, <4>1, <4>2 DEF Lost
    <3>6. IsFiniteSet(Lost) /\ Cardinality(Lost) \in Nat
      BY LostAre
    <3>7. Cardinality(Lost \cup {s}) = Cardinality(Lost) + 1
      BY <3>4, <3>6, FS_AddElement
    <3>8. QED
      BY <3>3, <3>5, <3>6, <3>7, RequestChannelAssumption
  <2>2. CASE Restart
    BY <2>2 DEF Restart, RequestInv, RequestTypes
  <2>3. CASE SetServer
    BY <2>3 DEF SetServer
  <2>4. CASE \E s \in Sockets : Serve(s)
    BY <2>4 DEF Serve, ServeDuplicate, ServeRequest, ServeAbort, ServeSync, ServeHas, ServeAck,
                serverVars
  <2>5. CASE \/ HandlerStreams \/ HandlerReturns \/ ResponseTimeout
             \/ ResumeSend \/ ChunkTimeout \/ ForgetAbort
    BY <2>5 DEF HandlerStreams, HandlerReturns, ResponseTimeout, ResumeSend, ChunkTimeout,
                ForgetAbort, Finish
  <2>6. CASE \/ Start \/ UserAbort \/ RequestTimeout \/ BecomeReady \/ RetryFails
             \/ \E t \in Threads : Woken(t) \/ ReconnectTimeout(t)
             \/ \E t \in RequestThreads : Confirm(t)
             \/ CloseAtCaller \/ GetMessage
    BY <2>6 DEF Start, UserAbort, RequestTimeout, BecomeReady, RetryFails, Woken,
                ReconnectTimeout, Confirm, CloseAtCaller, GetMessage, GetChunk, GetRequestAck,
                GetAbortAck, GetSyncReply, GetHasReply, GetFinal, serverVars
  <2>7. QED
    BY <2>1, <2>2, <2>3, <2>4, <2>5, <2>6 DEF Next
<1>2. RequestInv /\ PlaceInv /\ TriesInv /\ [Next]_vars => (RequestInv /\ PlaceInv /\ TriesInv)'
  BY StepRequest, StepPlaces
<1>3. QED
  BY <1>1, <1>2, InitRequest, InitPlaces, PTL DEF Spec, WorkingSocketIsKept

-----------------------------------------------------------------------------
(* One loss is invisible.  A request whose delivery is confirmed is known   *)
(* to the server until it is settled, so no answer that says otherwise is   *)
(* ever under way, as long as nothing but connections fails, and fewer of   *)
(* them than a chunk has attempts.                                          *)

\* No message of the queue is of a type in T; none behind the first is.
Lacks(queue, T) == \A i \in 1 .. Len(queue) : queue[i].type \notin T
Leads(queue, T) == \A i \in 2 .. Len(queue) : queue[i].type \notin T

LEMMA TailLacks ==
  ASSUME NEW S, NEW queue \in Seq(S), queue # <<>>, NEW T, Leads(queue, T)
  PROVE  Lacks(Tail(queue), T)
<1>1. /\ Len(queue) \in Nat \ {0}
      /\ Len(Tail(queue)) = Len(queue) - 1
      /\ \A i \in 1 .. Len(Tail(queue)) : Tail(queue)[i] = queue[i + 1]
  BY HeadTailProperties, EmptySeq
<1>2. \A i \in 1 .. Len(Tail(queue)) : i + 1 \in 2 .. Len(queue)
  BY <1>1
<1>3. QED
  BY <1>1, <1>2 DEF Lacks, Leads

LEMMA JoinLeads ==
  ASSUME NEW S, NEW queue \in Seq(S), NEW ms \in Seq(S), NEW T, Lacks(ms, T), Leads(queue, T)
  PROVE  Leads(queue \o ms, T)
<1>1. /\ Len(queue) \in Nat /\ Len(ms) \in Nat
      /\ Len(queue \o ms) = Len(queue) + Len(ms)
      /\ \A i \in 1 .. Len(queue) + Len(ms) :
           (queue \o ms)[i] = IF i <= Len(queue) THEN queue[i] ELSE ms[i - Len(queue)]
  BY ConcatProperties, LenProperties
<1>2. SUFFICES ASSUME NEW i \in 2 .. Len(queue) + Len(ms)
               PROVE  (queue \o ms)[i].type \notin T
  BY <1>1 DEF Leads
<1>3. CASE i <= Len(queue)
  BY <1>1, <1>3 DEF Leads
<1>4. CASE i > Len(queue)
  <2>1. i - Len(queue) \in 1 .. Len(ms) /\ (queue \o ms)[i] = ms[i - Len(queue)]
    BY <1>1, <1>4
  <2>2. QED
    BY <2>1 DEF Lacks
<1>5. QED
  BY <1>1, <1>3, <1>4

LEMMA JoinLacks ==
  ASSUME NEW S, NEW queue \in Seq(S), NEW ms \in Seq(S), NEW T, Lacks(queue, T), Lacks(ms, T)
  PROVE  Lacks(queue \o ms, T)
<1>1. /\ Len(queue) \in Nat /\ Len(ms) \in Nat
      /\ Len(queue \o ms) = Len(queue) + Len(ms)
      /\ \A i \in 1 .. Len(queue) + Len(ms) :
           (queue \o ms)[i] = IF i <= Len(queue) THEN queue[i] ELSE ms[i - Len(queue)]
  BY ConcatProperties, LenProperties
<1>2. SUFFICES ASSUME NEW i \in 1 .. Len(queue) + Len(ms)
               PROVE  (queue \o ms)[i].type \notin T
  BY <1>1 DEF Lacks
<1>3. CASE i <= Len(queue)
  BY <1>1, <1>3 DEF Lacks
<1>4. CASE i > Len(queue)
  <2>1. i - Len(queue) \in 1 .. Len(ms) /\ (queue \o ms)[i] = ms[i - Len(queue)]
    BY <1>1, <1>4
  <2>2. QED
    BY <2>1 DEF Lacks
<1>5. QED
  BY <1>1, <1>3, <1>4

LEMMA JoinHead ==
  ASSUME NEW S, NEW queue \in Seq(S), NEW ms \in Seq(S)
  PROVE  /\ queue # <<>> => Head(queue \o ms) = Head(queue) /\ queue \o ms # <<>>
         /\ queue = <<>> => queue \o ms = ms
<1>1. /\ Len(queue) \in Nat /\ Len(ms) \in Nat
      /\ queue \o ms \in Seq(S)
      /\ Len(queue \o ms) = Len(queue) + Len(ms)
      /\ \A i \in 1 .. Len(queue) + Len(ms) :
           (queue \o ms)[i] = IF i <= Len(queue) THEN queue[i] ELSE ms[i - Len(queue)]
  BY ConcatProperties, LenProperties
<1>2. CASE queue # <<>>
  <2>1. Len(queue) > 0
    BY <1>1, <1>2, EmptySeq
  <2>2. Len(queue \o ms) > 0 /\ (queue \o ms)[1] = queue[1]
    BY <1>1, <2>1
  <2>3. QED
    BY <1>1, <1>2, <2>1, <2>2
<1>3. CASE queue = <<>>
  BY <1>3
<1>4. QED
  BY <1>2, <1>3

LEMMA LackLeads ==
  ASSUME NEW queue, NEW T, Lacks(queue, T)
  PROVE  Leads(queue, T)
<1>1. \A i \in 2 .. Len(queue) : i \in 1 .. Len(queue)
  OBVIOUS
<1>2. QED
  BY <1>1 DEF Lacks, Leads

LEMMA SingleLacks ==
  ASSUME NEW m, NEW T
  PROVE  /\ Leads(<<m>>, T)
         /\ m.type \notin T => Lacks(<<m>>, T)
         /\ Lacks(<<>>, T) /\ Leads(<<>>, T)
BY DEF Lacks, Leads

Syncs == {"syncWith", "syncWithout"}
SyncReplies == {"syncKnown", "syncUnknown"}

\* The next message on socket s is its synchronisation.
SyncIsNext(s) == toServer[s] # <<>> /\ Head(toServer[s]).type \in Syncs

\* The server was not replaced, and no chunk is out of attempts yet.
Unbroken == restarts = 0 /\ cur <= SendAttempts

\* The caller has the ACK of the request.
Acknowledged == confirmed \/ \E t \in RequestThreads : pc[t] = "acked"

\* What messages under way tell of the request.
LossRequests ==
  {m \in TrueRequests :
     /\ m.type \in {"abort", "unknown"} => Settled
     /\ m.type = "has" => confirmed
     /\ m.type = "req" => hasSent}

LossReplies ==
  {m \in TrueReplies :
     /\ m.type = "chunk" /\ response = "finishing" => m.n # packet
     /\ Unbroken => /\ m.type = "reqAck" => "req" \in processed
                    /\ m.type = "hasNo" => Settled}

LossQueues ==
  /\ toServer \in [Sockets -> Seq(LossRequests)]
  /\ toClient \in [Sockets -> Seq(LossReplies)]

\* A synchronisation and its answer come before all other messages of a socket.
SyncsLead == \A q \in Sockets : Leads(toServer[q], Syncs)
AnswersLead == \A q \in Sockets : Leads(toClient[q], SyncReplies)

\* The socket of the response is synchronised, and one that is not has
\* delivered nothing to the caller.
AnswersFollow ==
  /\ ref # 0 => ~SyncIsNext(ref)
  /\ cur \in attached /\ SyncIsNext(cur) => toClient[cur] = <<>>

\* A synchronisation that does not name the request is older than the request.
UnnamedIsNew ==
  \A q \in attached :
    SyncIsNext(q) /\ Head(toServer[q]).type = "syncWithout" /\ ~Settled =>
      /\ "req" \notin processed
      /\ \A o \in attached : o < q => Lacks(toServer[o], {"req"})

\* An older socket has nothing to deliver, unless the newer one's
\* synchronisation is still to be read.
SyncComesFirst ==
  \A o, q \in attached : o < q => SyncIsNext(q) \/ toServer[o] = <<>>

SyncOrder == SyncsLead /\ AnswersLead /\ AnswersFollow /\ UnnamedIsNew /\ SyncComesFirst

\* The caller: a lost connection is noticed as such with the second one.
CallerFacts ==
  /\ pc \in [Threads -> Phases]
  /\ pc[Abort] # "off" => Settled
  /\ Settled => retry = "off" /\ ~armed
  /\ armed => confirmed /\ cur > 0
  /\ retry # "off" => confirmed
  /\ retry = "querying" => cur >= 2
  /\ retry = "waiting" => cur >= 1 /\ (up => cur >= 2)
  /\ retry = "failed" => cur >= 3 \/ (cur = 2 /\ ~up)

\* The server: a request it accepted has its response until it is settled.
ServerFacts ==
  /\ "req" \in processed => hasSent
  /\ pendingAbort => Settled
  /\ response = "finishing" /\ packet \in seen => Settled
  /\ response = "finishing" /\ sending # "off" => payload # "chunk"
  /\ Unbroken /\ "req" \in processed /\ ~Settled => response # "none"

\* A delivery that is confirmed is one the server knows.
ConfirmedIsKnown ==
  Unbroken /\ Acknowledged /\ ~Settled =>
    /\ "req" \in processed
    /\ \A q \in Sockets :
         q = cur /\ toClient[q] # <<>> => Head(toClient[q]).type # "syncUnknown"

\* How a request may have failed.
LossesAreTwo ==
  /\ outcome # "sendFailed"
  /\ Unbroken => outcome # "unknownRequest"
  /\ outcome = "reconnectFailed" => cur >= 3 \/ (cur = 2 /\ ~up)

LossInv ==
  /\ LossQueues /\ SyncOrder
  /\ CallerFacts /\ ServerFacts
  /\ ConfirmedIsKnown /\ LossesAreTwo

LEMMA SeqGrows ==
  ASSUME NEW A, NEW B, A \subseteq B
  PROVE  /\ \A q \in Seq(A) : q \in Seq(B)
         /\ \A f \in [Sockets -> Seq(A)] : f \in [Sockets -> Seq(B)]
<1>1. \A q \in Seq(A) : q \in Seq(B)
  OBVIOUS
<1>2. QED
  BY <1>1

\* Messages with something to say are added to the caller's socket.
Adds(queue, next) ==
  \E ms \in Seq(LossRequests') : Lacks(ms, Syncs) /\ next = queue \o ms

CallerSends ==
  /\ toServer' \in [Sockets -> Seq(LossRequests')]
  /\ \A q \in Sockets : \/ toServer'[q] = toServer[q]
                        \/ q = cur /\ Adds(toServer[q], toServer'[q])

\* What was told stays true while the caller learns.
Learns ==
  /\ cur' = cur /\ seen \subseteq seen'
  /\ Settled => Settled'
  /\ confirmed => confirmed'
  /\ hasSent => hasSent'

LEMMA LearnedIsTrue ==
  ASSUME Learns, UNCHANGED serverVars
  PROVE  LossRequests \subseteq LossRequests' /\ LossReplies \subseteq LossReplies'
<1>1. UNCHANGED <<packet, completed, restarts, stream, response, processed>>
  BY DEF serverVars, handlerVars, sendVars, history
<1>2. TrueReplies' = TrueReplies
  BY <1>1 DEF TrueReplies, Chunks
<1>3. TrueRequests \subseteq TrueRequests'
  BY DEF TrueRequests, Learns
<1>4. LossRequests \subseteq LossRequests'
  BY <1>3 DEF LossRequests, Learns
<1>5. LossReplies \subseteq LossReplies'
  BY <1>1, <1>2 DEF LossReplies, Learns, Unbroken
<1>6. QED
  BY <1>4, <1>5

LEMMA PutSends ==
  ASSUME RequestInv, LossInv, Learns, UNCHANGED serverVars,
         NEW m \in LossRequests', m.type \notin Syncs, Put(cur, m)
  PROVE  CallerSends
<1>1. toServer \in [Sockets -> Seq(LossRequests')]
  BY LearnedIsTrue, SeqGrows DEF LossInv, LossQueues
<1>2. toServer' \in [Sockets -> Seq(LossRequests')]
  BY <1>1, PutKeeps
<1>3. ASSUME NEW q \in Sockets, toServer'[q] # toServer[q]
      PROVE  q = cur /\ Adds(toServer[q], toServer'[q])
  <2>1. q = cur /\ toServer'[q] = Append(toServer[q], m)
    BY <1>1, <1>3 DEF Put
  <2>2. Append(toServer[q], m) = toServer[q] \o <<m>>
    BY <1>1
  <2>3. <<m>> \in Seq(LossRequests') /\ Lacks(<<m>>, Syncs)
    BY SingleLacks
  <2>4. QED
    BY <2>1, <2>2, <2>3 DEF Adds
<1>4. QED
  BY <1>2, <1>3 DEF CallerSends

LEMMA NothingSends ==
  ASSUME RequestInv, LossInv, Learns, UNCHANGED <<serverVars, toServer>>
  PROVE  CallerSends
<1>1. toServer \in [Sockets -> Seq(LossRequests')]
  BY LearnedIsTrue, SeqGrows DEF LossInv, LossQueues
<1>2. QED
  BY <1>1 DEF CallerSends

\* A synchronisation that is next was next before.
LEMMA SyncsWait ==
  ASSUME LossInv, UNCHANGED serverVars, Learns, CallerSends, NEW q \in Sockets
  PROVE  /\ Leads(toServer'[q], Syncs)
         /\ SyncIsNext(q)' => SyncIsNext(q) /\ Head(toServer'[q]) = Head(toServer[q])
         /\ SyncIsNext(q) => SyncIsNext(q)'
<1>1. toServer \in [Sockets -> Seq(LossRequests')]
  BY LearnedIsTrue, SeqGrows DEF LossInv, LossQueues
<1>2. Leads(toServer[q], Syncs)
  BY DEF LossInv, SyncOrder, SyncsLead
<1>3. CASE toServer'[q] = toServer[q]
  BY <1>2, <1>3 DEF SyncIsNext
<1>4. CASE Adds(toServer[q], toServer'[q])
  <2>1. PICK ms \in Seq(LossRequests') : Lacks(ms, Syncs) /\ toServer'[q] = toServer[q] \o ms
    BY <1>4 DEF Adds
  <2>2. toServer[q] \in Seq(LossRequests')
    BY <1>1
  <2>3. Leads(toServer'[q], Syncs)
    BY <1>2, <2>1, <2>2, JoinLeads
  <2>4. CASE toServer[q] # <<>>
    <3>1. Head(toServer'[q]) = Head(toServer[q]) /\ toServer'[q] # <<>>
      BY <2>1, <2>2, <2>4, JoinHead
    <3>2. QED
      BY <2>3, <2>4, <3>1 DEF SyncIsNext
  <2>5. CASE toServer[q] = <<>>
    <3>1. toServer'[q] = ms
      BY <2>1, <2>2, <2>5, JoinHead
    <3>2. ms # <<>> => 1 \in 1 .. Len(ms) /\ Head(ms) = ms[1]
      BY <2>1, EmptySeq
    <3>3. ~SyncIsNext(q)'
      BY <2>1, <3>1, <3>2 DEF SyncIsNext, Lacks
    <3>4. QED
      BY <2>3, <2>5, <3>3 DEF SyncIsNext
  <2>6. QED
    BY <2>3, <2>4, <2>5
<1>5. QED
  BY <1>3, <1>4 DEF CallerSends

LEMMA CallerOrder ==
  ASSUME RequestInv, PlaceInv, LossInv, UNCHANGED serverVars, Learns, CallerSends,
         UNCHANGED toClient \/ \E T : Gets(T)
  PROVE  LossQueues' /\ SyncOrder'
<1>1. UNCHANGED <<attached, ref, processed>> /\ cur' = cur
  BY DEF serverVars, handlerVars, Learns
<1>2. /\ toClient \in [Sockets -> Seq(LossReplies)]
      /\ toClient \in [Sockets -> Seq(LossReplies')]
  BY LearnedIsTrue, SeqGrows DEF LossInv, LossQueues
<1>3. /\ toClient' \in [Sockets -> Seq(LossReplies')]
      /\ \A q \in Sockets : \/ toClient'[q] = toClient[q]
                            \/ q = cur /\ toClient[q] # <<>> /\ toClient'[q] = Tail(toClient[q])
  <2>1. CASE UNCHANGED toClient
    BY <1>2, <2>1
  <2>2. CASE \E T : Gets(T)
    <3>1. cur \in 0 .. MaxSocket
      BY AttachedAre
    <3>2. QED
      BY <1>2, <2>2, <3>1, GetsKeeps DEF Gets
  <2>3. QED
    BY <2>1, <2>2
<1>4. LossQueues'
  BY <1>3 DEF LossQueues, CallerSends
<1>5. SyncsLead'
  BY SyncsWait DEF SyncsLead
<1>6. AnswersLead'
  <2> SUFFICES ASSUME NEW q \in Sockets PROVE Leads(toClient'[q], SyncReplies)
    BY DEF AnswersLead
  <2>1. Leads(toClient[q], SyncReplies)
    BY DEF LossInv, SyncOrder, AnswersLead
  <2>2. toClient[q] # <<>> => Lacks(Tail(toClient[q]), SyncReplies)
    BY <1>2, <2>1, TailLacks
  <2>3. toClient[q] # <<>> => Leads(Tail(toClient[q]), SyncReplies)
    BY <2>2, LackLeads
  <2>4. QED
    BY <1>3, <2>1, <2>3
<1>7. attached \subseteq Sockets /\ (ref # 0 => ref \in Sockets)
  BY AttachedAre DEF PlaceInv
<1>8. AnswersFollow'
  BY <1>1, <1>3, <1>7, SyncsWait DEF AnswersFollow, LossInv, SyncOrder
<1>9. UnnamedIsNew'
  <2> SUFFICES ASSUME NEW q \in attached, SyncIsNext(q)',
                      Head(toServer'[q]).type = "syncWithout", ~Settled'
               PROVE  /\ "req" \notin processed
                      /\ \A o \in attached : o < q => Lacks(toServer'[o], {"req"})
    BY <1>1 DEF UnnamedIsNew
  <2>1. SyncIsNext(q) /\ Head(toServer[q]).type = "syncWithout" /\ ~Settled
    BY <1>7, SyncsWait DEF Learns
  <2>2. "req" \notin processed /\ \A o \in attached : o < q => Lacks(toServer[o], {"req"})
    BY <2>1 DEF LossInv, SyncOrder, UnnamedIsNew
  <2>3. \A o \in attached : o < q => toServer'[o] = toServer[o]
    <3>1. \A o \in attached : o < q => o # cur
      BY AttachedAre
    <3>2. QED
      BY <1>7, <3>1 DEF CallerSends
  <2>4. QED
    BY <2>2, <2>3
<1>10. SyncComesFirst'
  <2> SUFFICES ASSUME NEW o \in attached, NEW q \in attached, o < q
               PROVE  SyncIsNext(q)' \/ toServer'[o] = <<>>
    BY <1>1 DEF SyncComesFirst
  <2>1. toServer'[o] = toServer[o]
    <3>1. o # cur
      BY AttachedAre
    <3>2. QED
      BY <1>7, <3>1 DEF CallerSends
  <2>2. QED
    BY <1>7, <2>1, SyncsWait DEF LossInv, SyncOrder, SyncComesFirst
<1>11. QED
  BY <1>4, <1>5, <1>6, <1>8, <1>9, <1>10 DEF SyncOrder

\* What the caller does, beside its own facts.
LEMMA CallerLoses ==
  ASSUME RequestInv, PlaceInv, LossInv, UNCHANGED serverVars, Learns, CallerSends,
         UNCHANGED toClient \/ \E T : Gets(T),
         CallerFacts', LossesAreTwo',
         response = "finishing" /\ packet \in seen' => Settled',
         \/ Settled' \/ (Acknowledged' => Acknowledged)
         \/ (Unbroken => "req" \in processed) /\ \E T : Gets(T)
  PROVE  LossInv'
<1>1. LossQueues' /\ SyncOrder'
  BY CallerOrder
<1>2. UNCHANGED <<processed, pendingAbort, response, packet, sending, payload, restarts>>
  BY DEF serverVars, handlerVars, sendVars, history
<1>3. ServerFacts'
  BY <1>2 DEF LossInv, ServerFacts, Learns, Unbroken
<1>4. ConfirmedIsKnown'
  <2> SUFFICES ASSUME Unbroken, Acknowledged', ~Settled'
               PROVE  /\ "req" \in processed
                      /\ \A q \in Sockets : q = cur /\ toClient'[q] # <<>>
                                            => Head(toClient'[q]).type # "syncUnknown"
    BY <1>2 DEF ConfirmedIsKnown, Learns, Unbroken
  <2>1. CASE \E T : Gets(T)
    <3>1. "req" \in processed
      BY DEF LossInv, ConfirmedIsKnown, Learns
    <3>2. ASSUME cur \in Sockets, toClient'[cur] # <<>>
          PROVE  Head(toClient'[cur]).type # "syncUnknown"
      <4>1. /\ toClient \in [Sockets -> Seq(LossReplies)]
            /\ Leads(toClient[cur], SyncReplies)
        BY <3>2 DEF LossInv, LossQueues, SyncOrder, AnswersLead
      <4>2. toClient[cur] # <<>> /\ toClient'[cur] = Tail(toClient[cur])
        BY <2>1, <3>2, <4>1 DEF Gets
      <4>3. Lacks(toClient'[cur], SyncReplies) /\ toClient'[cur] \in Seq(LossReplies)
        BY <3>2, <4>1, <4>2, TailLacks, HeadTailProperties
      <4>4. 1 \in 1 .. Len(toClient'[cur]) /\ Head(toClient'[cur]) = toClient'[cur][1]
        BY <3>2, <4>3, EmptySeq
      <4>5. QED
        BY <4>3, <4>4 DEF Lacks, SyncReplies
    <3>3. QED
      BY <3>1, <3>2
  <2>2. CASE Acknowledged /\ UNCHANGED toClient
    BY <2>2 DEF LossInv, ConfirmedIsKnown, Learns
  <2>3. QED
    BY <2>1, <2>2
<1>5. QED
  BY <1>1, <1>3, <1>4 DEF LossInv

LEMMA SendSends ==
  ASSUME RequestInv, LossInv, Learns, UNCHANGED serverVars, NEW t \in Threads,
         t = Abort => Settled', NEW p \in [Threads -> Phases], SendOrWait(t, p)
  PROVE  /\ CallerSends
         /\ pc' \in [Threads -> Phases]
         /\ t # Abort => pc'[Abort] = p[Abort]
         /\ \A u \in Threads : pc'[u] = "acked" => p[u] = "acked"
<1>1. CASE up
  <2>1. Put(cur, Content(t)) /\ hasSent'
    BY <1>1 DEF SendOrWait
  <2>2. Content(t) \in LossRequests' /\ Content(t).type \notin Syncs
    BY <2>1 DEF Content, Msg, LossRequests, TrueRequests, Requests, Syncs
  <2>3. QED
    BY <1>1, <2>1, <2>2, PutSends DEF SendOrWait, Phases, Threads
<1>2. CASE ~up
  BY <1>2, NothingSends DEF SendOrWait, Phases, Threads
<1>3. QED
  BY <1>1, <1>2

\* The request and its threads start, or go on with the current socket.
LEMMA StartLoses ==
  ASSUME RequestInv, PlaceInv, LossInv, Start \/ \E t \in Threads : Woken(t)
  PROVE  LossInv'
<1>1. UNCHANGED <<serverVars, toClient, cur, up, seen, outcome, confirmed, armed, retry>>
  BY DEF Start, Woken, received
<1>2. Learns
  BY <1>1 DEF Learns, Start, Woken, SendOrWait, Settled
<1>3. /\ pc \in [Threads -> Phases]
      /\ pc[Abort] # "off" => Settled
  BY DEF LossInv, CallerFacts
<1>4. /\ CallerSends
      /\ pc' \in [Threads -> Phases]
      /\ pc'[Abort] # "off" => Settled
      /\ \A u \in Threads : pc'[u] = "acked" => pc[u] = "acked"
  <2>1. CASE Start /\ up
    BY <1>1, <1>2, <1>3, <2>1, SendSends, ThreadsDiffer DEF Start
  <2>2. CASE Start /\ ~up
    <3>1. pc' = [pc EXCEPT ![Main] = "initial"] /\ UNCHANGED toServer
      BY <2>2 DEF Start
    <3>2. QED
      BY <1>1, <1>2, <1>3, <3>1, NothingSends, ThreadsDiffer DEF Phases
  <2>3. CASE \E t \in Threads : Woken(t)
    <3>1. PICK t \in Threads : Woken(t)
      BY <2>3
    <3>2. t = Abort => Settled'
      BY <1>1, <1>3, <3>1 DEF Woken, Settled
    <3>3. SendOrWait(t, pc)
      BY <3>1 DEF Woken
    <3>4. /\ CallerSends
          /\ pc' \in [Threads -> Phases]
          /\ t # Abort => pc'[Abort] = pc[Abort]
          /\ \A u \in Threads : pc'[u] = "acked" => pc[u] = "acked"
      BY <1>1, <1>2, <1>3, <3>2, <3>3, SendSends
    <3>5. QED
      BY <1>1, <1>3, <3>2, <3>4 DEF Settled
  <2>4. QED
    BY <2>1, <2>2, <2>3
<1>5. CallerFacts' /\ LossesAreTwo'
  BY <1>1, <1>4 DEF LossInv, CallerFacts, LossesAreTwo, Settled, serverVars, history, Unbroken
<1>6. response = "finishing" /\ packet \in seen' => Settled'
  BY <1>1 DEF LossInv, ServerFacts, Settled
<1>7. Acknowledged' => Acknowledged
  BY <1>1, <1>4, ThreadsDiffer DEF Acknowledged
<1>8. QED
  BY <1>1, <1>2, <1>4, <1>5, <1>6, <1>7, CallerLoses

LEMMA EndsLoses ==
  ASSUME RequestInv, PlaceInv, LossInv, UserAbort \/ RequestTimeout
  PROVE  LossInv'
<1>1. UNCHANGED <<serverVars, toClient, cur, up, seen>>
  BY DEF UserAbort, RequestTimeout, received
<1>2. /\ outcome' \in {"abort", "timeout"} /\ confirmed' /\ retry' = "off" /\ ~armed'
      /\ hasSent => hasSent'
  BY DEF UserAbort, RequestTimeout, Settle, BeginAbort, SendOrWait
<1>3. Learns /\ Settled'
  BY <1>1, <1>2 DEF Learns, Settled
<1>4. pc \in [Threads -> Phases]
  BY DEF LossInv, CallerFacts
<1>5. AllDone \in [Threads -> Phases]
  BY DEF AllDone, Phases
<1>6. CallerSends /\ pc' \in [Threads -> Phases]
  <2>1. CASE \E p \in [Threads -> Phases] : BeginAbort(p)
    <3>1. PICK p \in [Threads -> Phases] : BeginAbort(p)
      BY <2>1
    <3>2. CASE SendOrWait(Abort, p)
      BY <1>1, <1>3, <3>2, SendSends, ThreadsDiffer
    <3>3. CASE pc' = [p EXCEPT ![Abort] = "waiting"] /\ UNCHANGED toServer
      BY <1>1, <1>3, <3>3, NothingSends DEF Phases
    <3>4. QED
      BY <3>1, <3>2, <3>3 DEF BeginAbort
  <2>2. CASE pc' = AllDone /\ UNCHANGED toServer
    BY <1>1, <1>3, <1>5, <2>2, NothingSends
  <2>3. [t \in Threads |-> IF pc[t] = "waiting" THEN "woken" ELSE pc[t]] \in [Threads -> Phases]
    BY <1>4 DEF Phases
  <2>4. QED
    BY <1>5, <2>1, <2>2, <2>3 DEF UserAbort, RequestTimeout, Settle
<1>7. CallerFacts' /\ LossesAreTwo'
  BY <1>1, <1>2, <1>3, <1>6 DEF CallerFacts, LossesAreTwo
<1>8. QED
  BY <1>1, <1>3, <1>6, <1>7, CallerLoses

\* The socket closes at the caller, or becomes ready; retryOnClose gives up.
LEMMA CloseLoses ==
  ASSUME RequestInv, PlaceInv, LossInv, CloseAtCaller
  PROVE  LossInv'
<1>1. UNCHANGED <<serverVars, toClient, toServer, cur, seen, outcome, confirmed, hasSent>>
  BY DEF CloseAtCaller, received
<1>2. Learns /\ (Settled' <=> Settled)
  BY <1>1 DEF Learns, Settled
<1>3. up /\ ~up' /\ pc' = PcAfterClose /\ retry' = RetryAfterClose /\ ~armed'
  BY DEF CloseAtCaller
<1>4. /\ pc' \in [Threads -> Phases] /\ (pc'[Abort] # "off" => pc[Abort] # "off")
      /\ Acknowledged' => Acknowledged
  BY <1>1, <1>3, ThreadsDiffer DEF LossInv, CallerFacts, PcAfterClose, Phases, Acknowledged
<1>5. cur \in 0 .. MaxSocket /\ MaxSocket \in Nat
  BY AttachedAre
<1>6. CallerFacts'
  BY <1>1, <1>2, <1>3, <1>4, <1>5 DEF LossInv, CallerFacts, RetryAfterClose
<1>7. LossesAreTwo'
  BY <1>1, <1>3 DEF LossInv, LossesAreTwo, serverVars, history, Unbroken
<1>8. response = "finishing" /\ packet \in seen' => Settled'
  BY <1>1, <1>2 DEF LossInv, ServerFacts
<1>9. QED
  BY <1>1, <1>2, <1>4, <1>6, <1>7, <1>8, CallerLoses, NothingSends

LEMMA ReadyLoses ==
  ASSUME RequestInv, PlaceInv, LossInv, BecomeReady
  PROVE  LossInv'
<1>1. UNCHANGED <<serverVars, toClient, cur, up, seen, outcome, confirmed, hasSent, armed>>
  BY DEF BecomeReady, received
<1>2. Learns /\ (Settled' <=> Settled) /\ up
  BY <1>1 DEF Learns, Settled, BecomeReady
<1>3. \/ retry' = retry /\ UNCHANGED toServer
      \/ retry = "waiting" /\ retry' = "querying" /\ Put(cur, Msg("has"))
  BY DEF BecomeReady
<1>4. /\ pc' \in [Threads -> Phases] /\ (pc'[Abort] # "off" => pc[Abort] # "off")
      /\ Acknowledged' => Acknowledged
  BY ThreadsDiffer DEF BecomeReady, LossInv, CallerFacts, Phases, Acknowledged
<1>5. CallerFacts'
  BY <1>1, <1>2, <1>3, <1>4 DEF LossInv, CallerFacts
<1>6. CallerSends
  <2>1. CASE retry = "waiting" /\ Put(cur, Msg("has"))
    <3>1. Msg("has") \in LossRequests' /\ Msg("has").type \notin Syncs
      BY <1>1, <2>1 DEF Msg, LossRequests, TrueRequests, Requests, Syncs, LossInv, CallerFacts
    <3>2. QED
      BY <1>1, <1>2, <2>1, <3>1, PutSends
  <2>2. QED
    BY <1>1, <1>2, <1>3, <2>1, NothingSends
<1>7. LossesAreTwo'
  BY <1>1 DEF LossInv, LossesAreTwo, serverVars, history, Unbroken
<1>8. response = "finishing" /\ packet \in seen' => Settled'
  BY <1>1, <1>2 DEF LossInv, ServerFacts
<1>9. QED
  BY <1>1, <1>2, <1>4, <1>5, <1>6, <1>7, <1>8, CallerLoses

\* A thread of a request that is over returns, or the request is settled here.
LEMMA SettleKeeps ==
  ASSUME LossInv, NEW r, Settle(r), r # "none"
  PROVE  /\ Settled' /\ confirmed' /\ retry' = "off" /\ ~armed' /\ outcome' = r
         /\ pc' \in [Threads -> Phases]
BY DEF Settle, Settled, AllDone, Phases, LossInv, CallerFacts

LEMMA GiveUpLoses ==
  ASSUME ReconnectTimeouts = FALSE, RequestInv, PlaceInv, LossInv,
         RetryFails \/ \E t \in Threads : ReconnectTimeout(t)
  PROVE  LossInv'
<1>1. retry = "failed" /\ Settle("reconnectFailed")
  BY DEF RetryFails, ReconnectTimeout
<1>2. UNCHANGED <<serverVars, toClient, toServer, cur, up, seen, hasSent>>
  BY DEF RetryFails, ReconnectTimeout, received
<1>3. /\ Settled' /\ confirmed' /\ retry' = "off" /\ ~armed' /\ outcome' = "reconnectFailed"
      /\ pc' \in [Threads -> Phases]
  BY <1>1, SettleKeeps
<1>4. Learns
  BY <1>2, <1>3 DEF Learns
<1>5. CallerFacts' /\ LossesAreTwo'
  BY <1>1, <1>2, <1>3 DEF CallerFacts, LossesAreTwo, LossInv
<1>6. QED
  BY <1>2, <1>3, <1>4, <1>5, CallerLoses, NothingSends

\* What the caller hears is what the server said.
LEMMA HeardIsTrue ==
  ASSUME RequestInv, LossInv, NEW T, Gets(T)
  PROVE  /\ Head(toClient[cur]) \in LossReplies
         /\ Head(toClient[cur]).type \in T
         /\ cur \in Sockets /\ toClient[cur] # <<>>
<1>1. toClient \in [Sockets -> Seq(LossReplies)] /\ cur \in 0 .. MaxSocket
  BY DEF LossInv, LossQueues, RequestInv, RequestTypes
<1>2. cur \in Sockets /\ toClient[cur] # <<>> /\ Head(toClient[cur]).type \in T
  BY <1>1, RequestChannelAssumption DEF Gets, Sockets
<1>3. QED
  BY <1>1, <1>2, GetsKeeps

LEMMA AckLoses ==
  ASSUME RequestInv, PlaceInv, LossInv, GetRequestAck
  PROVE  LossInv'
<1>1. /\ UNCHANGED <<serverVars, toServer, cur, up, seen, outcome, hasSent, confirmed, armed, retry>>
      /\ Gets({"reqAck"})
  BY DEF GetRequestAck, received
<1>2. /\ Learns /\ (Settled' <=> Settled)
      /\ pc' \in [Threads -> Phases] /\ (pc'[Abort] # "off" => pc[Abort] # "off")
  BY <1>1, ThreadsDiffer DEF GetRequestAck, Learns, Settled, LossInv, CallerFacts, Phases
<1>3. CallerFacts' /\ LossesAreTwo'
  BY <1>1, <1>2 DEF LossInv, CallerFacts, LossesAreTwo, serverVars, history, Unbroken
<1>4. Unbroken => "req" \in processed
  BY <1>1, HeardIsTrue DEF LossReplies
<1>5. response = "finishing" /\ packet \in seen' => Settled'
  BY <1>1, <1>2 DEF LossInv, ServerFacts
<1>6. QED
  BY <1>1, <1>2, <1>3, <1>4, <1>5, CallerLoses, NothingSends

\* The delivery is confirmed, and retryOnClose watches, waits or asks.
LEMMA ConfirmLoses ==
  ASSUME RequestInv, WatchInv, PlaceInv, LossInv, NEW t \in RequestThreads, Confirm(t)
  PROVE  LossInv'
<1>1. /\ UNCHANGED <<serverVars, toClient, cur, up, ready, server, seen, outcome, hasSent>>
      /\ pc[t] = "acked" /\ pc' = [pc EXCEPT ![t] = "done"] /\ confirmed'
  BY DEF Confirm, received
<1>2. /\ Learns /\ (Settled' <=> Settled) /\ Acknowledged
      /\ pc' \in [Threads -> Phases] /\ pc'[Abort] = pc[Abort]
  BY <1>1, ThreadsDiffer DEF Learns, Settled, Acknowledged, LossInv, CallerFacts, Phases
<1>3. /\ cur \in Nat /\ server \in 0 .. cur /\ (ready => up) /\ (up => cur > 0)
      /\ ~Settled => server > 0
  BY <1>1 DEF WatchInv
<1>4. StartsRetry(t) /\ ~Settled => cur >= 1 /\ (up => cur >= 2)
  BY <1>3 DEF StartsRetry
<1>5. /\ armed' => armed \/ (~Settled /\ up)
      /\ \/ retry' = retry
         \/ retry' = "off"
         \/ retry' = "querying" /\ cur >= 2 /\ ~Settled
         \/ retry' = "waiting" /\ cur >= 1 /\ (up => cur >= 2) /\ ~Settled
      /\ Settled => UNCHANGED <<armed, retry>>
  <2>1. /\ \/ UNCHANGED armed
           \/ ~Settled /\ armed' = (up /\ server = cur)
        /\ \/ retry' = retry
           \/ retry' = "off"
           \/ retry' = "querying" /\ StartsRetry(t) /\ ready /\ ~Settled
           \/ retry' = "waiting" /\ StartsRetry(t) /\ ~Settled
        /\ Settled => UNCHANGED <<armed, retry>>
    BY Zenon DEF Confirm
  <2>2. armed' => armed \/ (~Settled /\ up)
    BY <2>1, Zenon
  <2>3. ready => up
    BY <1>3
  <2>4. QED
    BY <1>4, <2>1, <2>2, <2>3
<1>6. CallerFacts' /\ LossesAreTwo'
  <2>1. /\ pc[Abort] # "off" => Settled
        /\ Settled => retry = "off" /\ ~armed
        /\ armed => cur > 0
        /\ retry = "querying" => cur >= 2
        /\ retry = "waiting" => cur >= 1 /\ (up => cur >= 2)
        /\ retry = "failed" => cur >= 3 \/ (cur = 2 /\ ~up)
    BY DEF LossInv, CallerFacts
  <2>2. CallerFacts'
    BY <1>1, <1>2, <1>3, <1>5, <2>1 DEF CallerFacts
  <2>3. LossesAreTwo'
    BY <1>1 DEF LossInv, LossesAreTwo, serverVars, history, Unbroken
  <2>4. QED
    BY <2>2, <2>3
<1>7. CallerSends
  <2>1. CASE Put(cur, Msg("has"))
    <3>1. Msg("has") \in LossRequests' /\ Msg("has").type \notin Syncs
      BY <1>1 DEF Msg, LossRequests, TrueRequests, Requests, Syncs
    <3>2. QED
      BY <1>1, <1>2, <2>1, <3>1, PutSends
  <2>2. CASE UNCHANGED toServer
    BY <1>1, <1>2, <2>2, NothingSends
  <2>3. QED
    BY <2>1, <2>2 DEF Confirm
<1>8. response = "finishing" /\ packet \in seen' => Settled'
  BY <1>1, <1>2 DEF LossInv, ServerFacts
<1>9. QED
  BY <1>1, <1>2, <1>6, <1>7, <1>8, CallerLoses

LEMMA AbortAckLoses ==
  ASSUME RequestInv, PlaceInv, LossInv, GetAbortAck
  PROVE  LossInv'
<1>1. /\ UNCHANGED <<serverVars, toServer, cur, up, seen, outcome, hasSent, confirmed, armed, retry>>
      /\ Gets({"abortAck"})
  BY DEF GetAbortAck, received
<1>2. /\ Learns /\ (Settled' <=> Settled)
      /\ pc' \in [Threads -> Phases] /\ (pc'[Abort] # "off" => pc[Abort] # "off")
      /\ Acknowledged' => Acknowledged
  BY <1>1, ThreadsDiffer DEF GetAbortAck, Learns, Settled, LossInv, CallerFacts, AllDone, Phases,
                             Acknowledged
<1>3. CallerFacts' /\ LossesAreTwo'
  BY <1>1, <1>2 DEF LossInv, CallerFacts, LossesAreTwo, serverVars, history, Unbroken
<1>4. response = "finishing" /\ packet \in seen' => Settled'
  BY <1>1, <1>2 DEF LossInv, ServerFacts
<1>5. QED
  BY <1>1, <1>2, <1>3, <1>4, CallerLoses, NothingSends

\* The server says that it does not know the request only when it is not confirmed.
LEMMA SyncReplyLoses ==
  ASSUME RequestInv, PlaceInv, LossInv, GetSyncReply
  PROVE  LossInv'
<1>1. /\ UNCHANGED <<serverVars, cur, up, seen>>
      /\ Gets({"syncKnown", "syncUnknown"})
  BY DEF GetSyncReply, received
<1>2. cur \in Sockets /\ toClient[cur] # <<>>
  BY <1>1, HeardIsTrue
<1>3. /\ pc \in [Threads -> Phases] /\ (pc[Abort] # "off" => Settled)
      /\ Settled => retry = "off" /\ ~armed
  BY DEF LossInv, CallerFacts
<1>4. response = "finishing" /\ packet \in seen => Settled
  BY DEF LossInv, ServerFacts
<1>5. CASE Settle("unknownRequest") /\ UNCHANGED <<hasSent, toServer>>
           /\ Delivered /\ ~Settled /\ Head(toClient[cur]).type = "syncUnknown"
  <2>1. /\ Settled' /\ confirmed' /\ retry' = "off" /\ ~armed' /\ outcome' = "unknownRequest"
        /\ pc' \in [Threads -> Phases]
    BY <1>5, SettleKeeps
  <2>2. Learns
    BY <1>1, <1>5, <2>1 DEF Learns
  <2>3. ~Unbroken
    BY <1>2, <1>5 DEF LossInv, ConfirmedIsKnown, Delivered, Acknowledged
  <2>4. CallerFacts' /\ LossesAreTwo'
    BY <1>1, <2>1, <2>3 DEF CallerFacts, LossesAreTwo, serverVars, history, Unbroken
  <2>5. QED
    BY <1>1, <1>5, <2>1, <2>2, <2>4, CallerLoses, NothingSends
<1>6. CASE SendOrWait(Replay(cur), pc) /\ UNCHANGED <<confirmed, outcome, armed, retry>>
  <2>1. Learns /\ (Settled' <=> Settled)
    BY <1>1, <1>6 DEF Learns, Settled, SendOrWait
  <2>2. /\ CallerSends /\ pc' \in [Threads -> Phases] /\ pc'[Abort] = pc[Abort]
        /\ \A u \in Threads : pc'[u] = "acked" => pc[u] = "acked"
    BY <1>1, <1>2, <1>3, <1>6, <2>1, SendSends, ThreadsDiffer
  <2>3. CallerFacts' /\ LossesAreTwo'
    BY <1>1, <1>6, <2>1, <2>2
       DEF LossInv, CallerFacts, LossesAreTwo, serverVars, history, Unbroken
  <2>4. Acknowledged' => Acknowledged
    BY <1>6, <2>2, ThreadsDiffer DEF Acknowledged
  <2>5. QED
    BY <1>1, <1>4, <1>6, <2>1, <2>2, <2>3, <2>4, CallerLoses
<1>7. CASE UNCHANGED <<pc, hasSent, confirmed, outcome, armed, retry, toServer>>
  <2>1. Learns /\ (Settled' <=> Settled)
    BY <1>1, <1>7 DEF Learns, Settled
  <2>2. CallerFacts' /\ LossesAreTwo'
    BY <1>1, <1>7, <2>1 DEF LossInv, CallerFacts, LossesAreTwo, serverVars, history, Unbroken
  <2>3. Acknowledged' => Acknowledged
    BY <1>7 DEF Acknowledged
  <2>4. QED
    BY <1>1, <1>4, <1>7, <2>1, <2>2, <2>3, CallerLoses, NothingSends
<1>8. QED
  BY <1>5, <1>6, <1>7 DEF GetSyncReply

\* retryOnClose asks only for a request whose delivery was confirmed.
LEMMA HasReplyLoses ==
  ASSUME RequestInv, PlaceInv, LossInv, GetHasReply
  PROVE  LossInv'
<1>1. /\ UNCHANGED <<serverVars, cur, up, seen>>
      /\ Gets({"hasYes", "hasNo"})
  BY DEF GetHasReply, received
<1>2. /\ cur \in Sockets /\ toClient[cur] # <<>> /\ cur > 0
      /\ Unbroken /\ Head(toClient[cur]).type = "hasNo" => Settled
  BY <1>1, HeardIsTrue DEF LossReplies, Gets
<1>3. /\ pc \in [Threads -> Phases]
      /\ Settled => retry = "off" /\ ~armed
      /\ retry = "querying" => confirmed
  BY DEF LossInv, CallerFacts
<1>4. response = "finishing" /\ packet \in seen => Settled
  BY DEF LossInv, ServerFacts
<1>5. CASE Settle("unknownRequest") /\ UNCHANGED <<hasSent, toServer>>
           /\ retry = "querying" /\ Head(toClient[cur]).type = "hasNo"
  <2>1. /\ Settled' /\ confirmed' /\ retry' = "off" /\ ~armed' /\ outcome' = "unknownRequest"
        /\ pc' \in [Threads -> Phases]
    BY <1>5, SettleKeeps
  <2>2. Learns
    BY <1>1, <1>5, <2>1 DEF Learns
  <2>3. ~Unbroken
    BY <1>2, <1>3, <1>5
  <2>4. CallerFacts' /\ LossesAreTwo'
    BY <1>1, <2>1, <2>3 DEF CallerFacts, LossesAreTwo, serverVars, history, Unbroken
  <2>5. QED
    BY <1>1, <1>5, <2>1, <2>2, <2>4, CallerLoses, NothingSends
<1>6. CASE /\ UNCHANGED <<pc, hasSent, confirmed, outcome, toServer>>
           /\ \/ UNCHANGED <<armed, retry>>
              \/ retry = "querying" /\ armed' = TRUE /\ retry' = "off"
  <2>1. Learns /\ (Settled' <=> Settled)
    BY <1>1, <1>6 DEF Learns, Settled
  <2>2. CallerFacts' /\ LossesAreTwo'
    BY <1>1, <1>2, <1>3, <1>6, <2>1
       DEF LossInv, CallerFacts, LossesAreTwo, serverVars, history, Unbroken
  <2>3. Acknowledged' => Acknowledged
    BY <1>6 DEF Acknowledged
  <2>4. QED
    BY <1>1, <1>4, <1>6, <2>1, <2>2, <2>3, CallerLoses, NothingSends
<1>7. QED
  BY <1>3, <1>5, <1>6 DEF GetHasReply, Delivered

LEMMA FinalLoses ==
  ASSUME RequestInv, PlaceInv, LossInv, GetFinal
  PROVE  LossInv'
<1> DEFINE m == Head(toClient[cur])
<1>1. /\ UNCHANGED <<serverVars, cur, up, hasSent>>
      /\ Gets(Kinds) /\ seen' = seen \cup {m.n}
  BY DEF GetFinal
<1>2. m \in [type : Replies, n : Nat]
  BY <1>1, HeardIsTrue DEF LossReplies, TrueReplies
<1>3. \/ Settle(ResultOf(m))
      \/ /\ UNCHANGED <<pc, confirmed, outcome, armed, retry>>
         /\ Settled \/ m.n \in seen
  BY DEF GetFinal, FirstTime
<1>4. /\ pc \in [Threads -> Phases]
      /\ response = "finishing" /\ packet \in seen => Settled
  BY DEF LossInv, CallerFacts, ServerFacts
<1>5. /\ Learns /\ CallerFacts' /\ LossesAreTwo'
      /\ response = "finishing" /\ packet \in seen' => Settled'
      /\ Settled' \/ (Acknowledged' => Acknowledged)
  <2>1. CASE Settle(ResultOf(m))
    <3>1. ResultOf(m) \in {"ok", "remoteError"}
      BY DEF ResultOf
    <3>2. /\ Settled' /\ confirmed' /\ retry' = "off" /\ ~armed' /\ outcome' = ResultOf(m)
          /\ pc' \in [Threads -> Phases]
      BY <2>1, <3>1, SettleKeeps
    <3>3. QED
      BY <1>1, <3>1, <3>2 DEF Learns, CallerFacts, LossesAreTwo
  <2>2. CASE UNCHANGED <<pc, confirmed, outcome, armed, retry>> /\ (Settled \/ m.n \in seen)
    <3>1. Settled' <=> Settled
      BY <2>2 DEF Settled
    <3>2. QED
      BY <1>1, <1>4, <2>2, <3>1
         DEF Learns, LossInv, CallerFacts, LossesAreTwo, serverVars, history, Unbroken,
             Acknowledged
  <2>3. QED
    BY <1>3, <2>1, <2>2
<1>6. CallerSends
  <2>1. CASE UNCHANGED toServer
    BY <1>1, <1>5, <2>1, NothingSends
  <2>2. CASE Put(cur, Numbered("ack", m.n))
    <3>1. /\ Numbered("ack", m.n) \in LossRequests'
          /\ Numbered("ack", m.n).type \notin Syncs
      BY <1>1, <1>2 DEF Numbered, LossRequests, TrueRequests, Requests, Syncs
    <3>2. QED
      BY <1>1, <1>5, <2>2, <3>1, PutSends
  <2>3. QED
    BY <2>1, <2>2 DEF GetFinal
<1>7. QED
  BY <1>1, <1>5, <1>6, CallerLoses

LEMMA ChunkLoses ==
  ASSUME RequestInv, PlaceInv, LossInv, GetChunk
  PROVE  LossInv'
<1> DEFINE n == Head(toClient[cur]).n
           ack == <<Numbered("ack", n)>>
           told == IF Released /\ FirstTime(n) THEN <<Msg("unknown")>> ELSE <<>>
<1>1. /\ UNCHANGED <<serverVars, cur, up, pc, hasSent, confirmed, outcome, armed, retry>>
      /\ Gets({"chunk"}) /\ seen' = seen \cup {n}
      /\ toServer' = [toServer EXCEPT ![cur] = IF up /\ cur \in attached
                                                THEN toServer[cur] \o ack \o told
                                                ELSE toServer[cur]]
  BY DEF GetChunk
<1>2. n \in Nat /\ (response = "finishing" => n # packet)
  BY <1>1, HeardIsTrue DEF LossReplies, TrueReplies
<1>3. Learns /\ (Settled' <=> Settled)
  BY <1>1 DEF Learns, Settled
<1>4. ack \in Seq(LossRequests') /\ Lacks(ack, Syncs)
  <2>1. Numbered("ack", n) \in LossRequests' /\ Numbered("ack", n).type \notin Syncs
    BY <1>1, <1>2 DEF Numbered, LossRequests, TrueRequests, Requests, Syncs
  <2>2. QED
    BY <2>1, SingleLacks
<1>5. told \in Seq(LossRequests') /\ Lacks(told, Syncs)
  <2>1. CASE told = <<>>
    BY <2>1, SingleLacks, EmptySeq
  <2>2. CASE told = <<Msg("unknown")>> /\ Released
    <3>1. Msg("unknown") \in LossRequests' /\ Msg("unknown").type \notin Syncs
      BY <1>3, <2>2 DEF Msg, LossRequests, TrueRequests, Requests, Syncs, Released
    <3>2. QED
      BY <2>2, <3>1, SingleLacks
  <2>3. QED
    BY <2>1, <2>2
<1> HIDE DEF n, ack, told
<1>6. /\ ack \o told \in Seq(LossRequests') /\ Lacks(ack \o told, Syncs)
      /\ toServer \in [Sockets -> Seq(LossRequests')]
      /\ cur \in Sockets
  <2>1. toServer \in [Sockets -> Seq(LossRequests')]
    BY <1>1, <1>3, LearnedIsTrue, SeqGrows DEF LossInv, LossQueues
  <2>2. Lacks(ack \o told, Syncs)
    BY <1>4, <1>5, JoinLacks
  <2>3. QED
    BY <1>1, <1>4, <1>5, <2>1, <2>2, HeardIsTrue, ConcatProperties
<1>7. toServer[cur] \o ack \o told = toServer[cur] \o (ack \o told)
  BY <1>4, <1>5, <1>6
<1>8. CallerSends
  <2> DEFINE q == IF up /\ cur \in attached THEN toServer[cur] \o ack \o told ELSE toServer[cur]
  <2>1. q \in Seq(LossRequests')
    BY <1>6, <1>7, ConcatProperties
  <2>2. q = toServer[cur] \/ Adds(toServer[cur], q)
    BY <1>6, <1>7 DEF Adds
  <2>3. toServer' = [toServer EXCEPT ![cur] = q]
    BY <1>1
  <2> HIDE DEF q
  <2>4. QED
    BY <1>6, <2>1, <2>2, <2>3 DEF CallerSends
<1>9. CallerFacts' /\ LossesAreTwo'
  BY <1>1, <1>3 DEF LossInv, CallerFacts, LossesAreTwo, serverVars, history, Unbroken
<1>10. response = "finishing" /\ packet \in seen' => Settled'
  BY <1>1, <1>2, <1>3 DEF LossInv, ServerFacts
<1>11. Acknowledged' => Acknowledged
  BY <1>1 DEF Acknowledged
<1>12. QED
  BY <1>1, <1>3, <1>8, <1>9, <1>10, <1>11, CallerLoses

\* A new socket: a request that was sent and is not settled is named on it.
LEMMA NewSocketLoses ==
  ASSUME RequestInv, PlaceInv, LossInv, SetServer
  PROVE  LossInv'
<1>0. PICK c : c = cur + 1
  OBVIOUS
<1>1. /\ cur \in Nat /\ cur' = c /\ c \in Sockets /\ up'
      /\ attached' = attached \cup {c}
      /\ toClient' = [q \in Sockets |-> <<>>]
      /\ pc' = PcAfterClose /\ retry' = RetryAfterClose /\ ~armed'
      /\ UNCHANGED <<hasSent, confirmed, outcome, seen, handlerVars, history>>
  BY <1>0, AttachedAre DEF SetServer, received, Sockets
<1>2. /\ UNCHANGED <<processed, response, ref, payload, packet, sending, pendingAbort,
                     stream, completed, restarts>>
      /\ Settled' <=> Settled
      /\ Unbroken' => Unbroken
      /\ Acknowledged' => Acknowledged
  BY <1>0, <1>1, RequestChannelAssumption
     DEF handlerVars, sendVars, history, Settled, Unbroken, Acknowledged, PcAfterClose, LossInv,
         CallerFacts, Threads
<1>3. LossRequests' = LossRequests
  BY <1>1, <1>2 DEF LossRequests, TrueRequests
<1>4. PICK m \in LossRequests : /\ m.type \in Syncs
                                /\ m.type = "syncWithout" => ~Named
                                /\ toServer' = [toServer EXCEPT ![c] = <<m>>]
  <2> DEFINE sent == Msg(IF Named THEN "syncWith" ELSE "syncWithout")
  <2>1. toServer' = [toServer EXCEPT ![c] = <<sent>>]
    BY <1>0, <1>1 DEF SetServer
  <2>2. /\ sent \in LossRequests /\ sent.type \in Syncs
        /\ sent.type = "syncWithout" => ~Named
    BY DEF Msg, Syncs, LossRequests, TrueRequests, Requests
  <2> HIDE DEF sent
  <2>3. QED
    BY <2>1, <2>2
<1>5. toServer \in [Sockets -> Seq(LossRequests)]
  BY DEF LossInv, LossQueues
<1>6. /\ toServer'[c] = <<m>>
      /\ \A q \in attached : q \in Sockets /\ q < c /\ toServer'[q] = toServer[q]
      /\ \A q \in Sockets \ {c} : toServer'[q] = toServer[q]
  <2>1. \A q \in attached : q \in Sockets /\ q < c /\ q # c
    BY <1>0, <1>1, AttachedAre
  <2>2. QED
    BY <1>1, <1>4, <1>5, <2>1
<1>7. LossQueues'
  <2>1. <<m>> \in Seq(LossRequests) /\ <<>> \in Seq(LossReplies')
    BY EmptySeq
  <2>2. QED
    BY <1>1, <1>3, <1>4, <1>5, <2>1, QueueChanges DEF LossQueues
<1>8. SyncsLead' /\ AnswersLead'
  BY <1>1, <1>6, SingleLacks DEF LossInv, SyncOrder, SyncsLead, AnswersLead
<1>9. AnswersFollow'
  BY <1>1, <1>2, <1>6
     DEF LossInv, SyncOrder, AnswersFollow, PlaceInv, SyncIsNext
<1>10. UnnamedIsNew'
  <2> SUFFICES ASSUME NEW q \in attached', SyncIsNext(q)',
                      Head(toServer'[q]).type = "syncWithout", ~Settled
               PROVE  /\ "req" \notin processed
                      /\ \A o \in attached' : o < q => Lacks(toServer'[o], {"req"})
    BY <1>2 DEF UnnamedIsNew
  <2>1. CASE q = c
    <3>1. ~hasSent
      BY <1>4, <1>6, <2>1 DEF Named, Released
    <3>2. \A o \in attached : Lacks(toServer[o], {"req"})
      <4> SUFFICES ASSUME NEW o \in attached, NEW i \in 1 .. Len(toServer[o])
                   PROVE  toServer[o][i].type # "req"
        BY DEF Lacks
      <4>1. toServer[o] \in Seq(LossRequests)
        BY <1>5, <1>6
      <4>2. toServer[o][i] \in LossRequests
        BY <4>1, ElementOfSeq
      <4>3. QED
        BY <3>1, <4>2 DEF LossRequests
    <3>3. ~(c < c)
      BY <1>0, <1>1
    <3>4. QED
      BY <1>1, <1>6, <2>1, <3>1, <3>2, <3>3 DEF LossInv, ServerFacts
  <2>2. CASE q # c
    <3>1. q \in attached /\ SyncIsNext(q) /\ Head(toServer[q]).type = "syncWithout"
      BY <1>1, <1>6, <2>2 DEF SyncIsNext
    <3>2. \A o \in attached' : o < q => o \in attached /\ toServer'[o] = toServer[o]
      <4>1. q < c /\ q \in Nat
        BY <1>6, <3>1, AttachedAre
      <4>2. ~(c < q)
        BY <1>0, <1>1, <4>1
      <4>3. QED
        BY <1>1, <1>6, <4>2
    <3>3. QED
      BY <3>1, <3>2 DEF LossInv, SyncOrder, UnnamedIsNew
  <2>3. QED
    BY <2>1, <2>2
<1>11. CallerFacts'
  <2>1. pc' \in [Threads -> Phases] /\ (pc'[Abort] # "off" => pc[Abort] # "off")
    BY <1>1, ThreadsDiffer DEF LossInv, CallerFacts, PcAfterClose, Phases
  <2>2. QED
    BY <1>0, <1>1, <1>2, <2>1 DEF LossInv, CallerFacts, RetryAfterClose
<1>12. ServerFacts'
  BY <1>1, <1>2 DEF LossInv, ServerFacts
<1>13. ConfirmedIsKnown'
  BY <1>1, <1>2 DEF LossInv, ConfirmedIsKnown
<1>14. LossesAreTwo'
  BY <1>0, <1>1, <1>2 DEF LossInv, LossesAreTwo
<1>15. SyncComesFirst'
  <2> SUFFICES ASSUME NEW o \in attached', NEW q \in attached', o < q
               PROVE  SyncIsNext(q)' \/ toServer'[o] = <<>>
    BY DEF SyncComesFirst
  <2>1. CASE q = c
    BY <1>4, <1>6, <2>1 DEF SyncIsNext
  <2>2. CASE q # c
    <3>1. q \in attached /\ q < c /\ o \in attached
      <4>1. q \in attached /\ q < c /\ q \in Nat
        BY <1>1, <1>6, <2>2, AttachedAre
      <4>2. ~(c < q)
        BY <1>0, <1>1, <4>1
      <4>3. QED
        BY <1>1, <4>1, <4>2
    <3>2. QED
      BY <1>6, <3>1 DEF LossInv, SyncOrder, SyncComesFirst, SyncIsNext
  <2>3. QED
    BY <2>1, <2>2
<1>16. QED
  BY <1>7, <1>8, <1>9, <1>10, <1>11, <1>12, <1>13, <1>14, <1>15 DEF LossInv, SyncOrder

\* What the server does leaves the caller's facts alone.
LEMMA CallerRests ==
  ASSUME LossInv, UNCHANGED callerVars, restarts' = 0 => restarts = 0
  PROVE  /\ CallerFacts' /\ LossesAreTwo'
         /\ LossRequests' = LossRequests
         /\ Settled' <=> Settled
         /\ cur' = cur
         /\ Acknowledged' <=> Acknowledged
         /\ Unbroken' => Unbroken
         /\ restarts' = restarts => (Unbroken' <=> Unbroken)
<1>1. UNCHANGED <<pc, retry, armed, confirmed, hasSent, cur, up, outcome, seen>>
  BY DEF callerVars, received
<1>2. (Unbroken' => Unbroken) /\ (restarts' = restarts => (Unbroken' <=> Unbroken))
  BY <1>1 DEF Unbroken
<1>3. CallerFacts' /\ LossesAreTwo'
  BY <1>1, <1>2 DEF LossInv, CallerFacts, LossesAreTwo, Settled
<1>4. QED
  BY <1>1, <1>2, <1>3 DEF LossRequests, TrueRequests, Settled, Acknowledged

\* The server reads a message and may answer it.  A synchronisation leaves the
\* older sockets nothing to deliver.
LEMMA ServedLoses ==
  ASSUME LateDelivery = FALSE,
         RequestInv, PlaceInv, LossInv, UNCHANGED <<callerVars, attached, restarts>>,
         NEW s \in Sockets, NEW t, Holds(s, t),
         \/ t \notin Syncs /\ Reads(s, t)
         \/ t \in Syncs /\ Overtake(s),
         LossReplies \subseteq LossReplies',
         NEW ms \in Seq(LossReplies'), UNCHANGED toClient \/ Answer(s, ms),
         Leads(ms, SyncReplies), t \notin Syncs => Lacks(ms, SyncReplies),
         Unbroken /\ Acknowledged /\ ~Settled => Lacks(ms, {"syncUnknown"}),
         ref' \in {0, ref, s}, ServerFacts', processed \subseteq processed',
         "req" \in processed' /\ ~Settled => "req" \in processed \/ t = "req"
  PROVE  LossInv'
<1>1. /\ CallerFacts' /\ LossesAreTwo' /\ LossRequests' = LossRequests
      /\ (Settled' <=> Settled) /\ cur' = cur
      /\ (Acknowledged' <=> Acknowledged) /\ (Unbroken' <=> Unbroken)
  BY CallerRests
<1>2. toServer \in [Sockets -> Seq(LossRequests)] /\ toClient \in [Sockets -> Seq(LossReplies')]
  BY SeqGrows DEF LossInv, LossQueues
<1>3. LossQueues'
  BY <1>1, <1>2, ReadsKeeps, OvertakeKeeps, AnswerKeeps DEF LossQueues
<1>4. /\ toServer[s] \in Seq(LossRequests) /\ toServer[s] # <<>>
      /\ Head(toServer[s]).type = t
      /\ toServer'[s] = Tail(toServer[s])
      /\ \A q \in Sockets : \/ q = s \/ toServer'[q] = toServer[q]
                            \/ q < s /\ toServer'[q] = <<>>
      /\ t \in Syncs => \A q \in Sockets : q < s => toServer'[q] = <<>>
  <2>1. CASE Reads(s, t) /\ t \notin Syncs
    BY <1>2, <2>1 DEF Reads, Holds
  <2>2. CASE Overtake(s)
    <3>1. \A q \in Sockets : q < s => q # s
      BY RequestChannelAssumption DEF Sockets
    <3>2. QED
      BY <1>2, <2>2, <3>1 DEF Overtake, Holds
  <2>3. QED
    BY <2>1, <2>2
<1>5. Lacks(toServer'[s], Syncs)
  BY <1>4, TailLacks DEF LossInv, SyncOrder, SyncsLead
<1>6. ~SyncIsNext(s)'
  <2>1. toServer'[s] \in Seq(LossRequests)
    BY <1>1, <1>3 DEF LossQueues
  <2>2. toServer'[s] # <<>> => 1 \in 1 .. Len(toServer'[s]) /\ Head(toServer'[s]) = toServer'[s][1]
    BY <2>1, EmptySeq
  <2>3. QED
    BY <1>5, <2>2 DEF SyncIsNext, Lacks
<1>7. SyncsLead'
  BY <1>4, <1>5, LackLeads, SingleLacks DEF LossInv, SyncOrder, SyncsLead
<1>8. \A q \in Sockets : \/ toClient'[q] = toClient[q]
                         \/ q = s /\ s = cur /\ toClient'[q] = toClient[q] \o ms
  BY <1>2 DEF Answer
<1>9. t \in Syncs /\ s = cur => toClient[cur] = <<>>
  BY <1>4 DEF LossInv, SyncOrder, AnswersFollow, SyncIsNext, Holds
<1>10. AnswersLead'
  <2> SUFFICES ASSUME NEW q \in Sockets, q = s, s = cur, toClient'[q] = toClient[q] \o ms
               PROVE  Leads(toClient'[q], SyncReplies)
    BY <1>8 DEF LossInv, SyncOrder, AnswersLead
  <2>1. toClient[q] \in Seq(LossReplies') /\ Leads(toClient[q], SyncReplies)
    BY <1>2 DEF LossInv, SyncOrder, AnswersLead
  <2>2. CASE t \in Syncs
    BY <1>9, <2>1, <2>2, JoinHead
  <2>3. CASE t \notin Syncs
    BY <2>1, <2>3, JoinLeads
  <2>4. QED
    BY <2>2, <2>3
<1>11. attached \subseteq Sockets /\ (ref # 0 => ref \in Sockets)
  BY AttachedAre DEF PlaceInv
<1>12. AnswersFollow'
  BY <1>1, <1>4, <1>6, <1>8, <1>11 DEF LossInv, SyncOrder, AnswersFollow, SyncIsNext
<1>13. UnnamedIsNew'
  <2> SUFFICES ASSUME NEW q \in attached, SyncIsNext(q)',
                      Head(toServer'[q]).type = "syncWithout", ~Settled
               PROVE  /\ "req" \notin processed'
                      /\ \A o \in attached : o < q => Lacks(toServer'[o], {"req"})
    BY <1>1 DEF UnnamedIsNew
  <2>1. q # s /\ toServer'[q] = toServer[q] /\ SyncIsNext(q)
    BY <1>4, <1>6, <1>11 DEF SyncIsNext
  <2>2. "req" \notin processed /\ \A o \in attached : o < q => Lacks(toServer[o], {"req"})
    BY <2>1 DEF LossInv, SyncOrder, UnnamedIsNew
  <2>3. s \in attached /\ s < q
    <3>1. s \in attached /\ toServer[q] # <<>> /\ toServer'[q] # <<>>
      BY <2>1 DEF Holds, SyncIsNext
    <3>2. q < s => SyncIsNext(s)
      BY <3>1 DEF LossInv, SyncOrder, SyncComesFirst
    <3>3. ~(q < s)
      BY <1>4, <1>11, <3>1, <3>2 DEF SyncIsNext
    <3>4. QED
      BY <2>1, <3>1, <3>3, AttachedAre
  <2>4. t # "req"
    <3>1. 1 \in 1 .. Len(toServer[s]) /\ Head(toServer[s]) = toServer[s][1]
      BY <1>4, EmptySeq
    <3>2. QED
      BY <1>4, <2>2, <2>3, <3>1 DEF Lacks
  <2>5. Lacks(toServer'[s], {"req"})
    BY <1>4, <2>2, <2>3, LackLeads, TailLacks
  <2>6. \A o \in attached : o < q => Lacks(toServer'[o], {"req"})
    <3>1. Lacks(<<>>, {"req"})
      BY SingleLacks
    <3>2. QED
      BY <1>4, <1>11, <2>2, <2>5, <3>1
  <2>7. QED
    BY <2>2, <2>4, <2>6
<1>14. ConfirmedIsKnown'
  <2> SUFFICES ASSUME Unbroken, Acknowledged, ~Settled
               PROVE  /\ "req" \in processed'
                      /\ cur \in Sockets /\ toClient'[cur] # <<>>
                         => Head(toClient'[cur]).type # "syncUnknown"
    BY <1>1 DEF ConfirmedIsKnown
  <2>1. /\ "req" \in processed
        /\ cur \in Sockets /\ toClient[cur] # <<>> => Head(toClient[cur]).type # "syncUnknown"
    BY DEF LossInv, ConfirmedIsKnown
  <2>2. ASSUME cur \in Sockets, toClient'[cur] # <<>>, toClient'[cur] = toClient[cur] \o ms
        PROVE  Head(toClient'[cur]).type # "syncUnknown"
    <3>1. toClient[cur] \in Seq(LossReplies')
      BY <1>2, <2>2
    <3>2. CASE toClient[cur] # <<>>
      BY <2>1, <2>2, <3>1, <3>2, JoinHead
    <3>3. CASE toClient[cur] = <<>>
      <4>1. toClient'[cur] = ms
        BY <2>2, <3>1, <3>3, JoinHead
      <4>2. 1 \in 1 .. Len(ms) /\ Head(ms) = ms[1]
        BY <2>2, <4>1, EmptySeq
      <4>3. QED
        BY <4>1, <4>2 DEF Lacks
    <3>4. QED
      BY <3>2, <3>3
  <2>3. QED
    BY <1>8, <2>1, <2>2
<1>15. SyncComesFirst'
  <2> SUFFICES ASSUME NEW o \in attached, NEW q \in attached, o < q
               PROVE  SyncIsNext(q)' \/ toServer'[o] = <<>>
    BY DEF SyncComesFirst
  <2>1. SyncIsNext(q) \/ toServer[o] = <<>>
    BY DEF LossInv, SyncOrder, SyncComesFirst
  <2>2. o \in Nat /\ q \in Nat /\ s \in Nat /\ o \in Sockets /\ q \in Sockets
    BY AttachedAre DEF Holds
  <2>3. CASE q = s
    <3>1. t \in Syncs \/ toServer[o] = <<>>
      BY <1>4, <2>1, <2>3 DEF SyncIsNext
    <3>2. o # s
      BY <2>2, <2>3
    <3>3. QED
      BY <1>4, <2>2, <2>3, <3>1, <3>2
  <2>4. CASE q # s /\ toServer[o] = <<>>
    <3>1. o # s
      BY <1>4, <2>4
    <3>2. QED
      BY <1>4, <2>2, <2>4, <3>1
  <2>5. CASE q # s /\ SyncIsNext(q)
    <3>1. CASE toServer'[q] = toServer[q]
      BY <2>5, <3>1 DEF SyncIsNext
    <3>2. CASE q < s /\ toServer'[q] = <<>>
      <4>1. o < s /\ o # s /\ s \in attached
        BY <2>2, <3>2 DEF Holds
      <4>2. SyncIsNext(s) \/ toServer[o] = <<>>
        BY <4>1 DEF LossInv, SyncOrder, SyncComesFirst
      <4>3. QED
        BY <1>4, <2>2, <4>1, <4>2 DEF SyncIsNext
    <3>3. QED
      BY <1>4, <2>2, <2>5, <3>1, <3>2
  <2>6. QED
    BY <2>1, <2>3, <2>4, <2>5
<1>16. QED
  BY <1>1, <1>3, <1>7, <1>10, <1>12, <1>13, <1>14, <1>15 DEF LossInv, SyncOrder

\* Messages of the server that say nothing of the request.
LEMMA PlainReplies ==
  ASSUME RequestInv
  PROVE  /\ \A t \in Replies \ {"chunk", "ok", "reqAck", "hasNo"} : Msg(t) \in LossReplies
         /\ "req" \in processed => Msg("reqAck") \in LossReplies
         /\ (Unbroken => Settled) => Msg("hasNo") \in LossReplies
<1>1. packet \in Nat
  BY DEF RequestInv, RequestTypes
<1>2. \A t \in Replies \ {"chunk", "ok"} : Msg(t) \in TrueReplies
  BY <1>1, PlainMessages
<1>3. QED
  BY <1>2 DEF Msg, LossReplies, Replies

\* One message is an answer.
LEMMA OneAnswer ==
  ASSUME NEW S, NEW m \in S
  PROVE  /\ <<m>> \in Seq(S) /\ Leads(<<m>>, SyncReplies)
         /\ m.type \notin SyncReplies => Lacks(<<m>>, SyncReplies)
         /\ m.type # "syncUnknown" => Lacks(<<m>>, {"syncUnknown"})
<1>1. <<m>> \in Seq(S)
  OBVIOUS
<1>2. Leads(<<m>>, SyncReplies) /\ (m.type \notin SyncReplies => Lacks(<<m>>, SyncReplies))
  BY SingleLacks
<1>3. m.type # "syncUnknown" => m.type \notin {"syncUnknown"}
  OBVIOUS
<1>4. QED
  BY <1>1, <1>2, <1>3, SingleLacks

\* A read message tells of the request.
LEMMA ReadIsTrue ==
  ASSUME LossInv, NEW s \in Sockets, NEW t, Reads(s, t)
  PROVE  /\ Head(toServer[s]) \in LossRequests
         /\ Head(toServer[s]).type = t
         /\ Holds(s, t)
BY ReadsKeeps DEF LossInv, LossQueues, Reads, Holds

LEMMA DuplicateLoses ==
  ASSUME LateDelivery = FALSE, RequestInv, PlaceInv, LossInv, NEW s \in Sockets, ServeDuplicate(s)
  PROVE  LossInv'
<1>1. UNCHANGED <<callerVars, attached, restarts, ref, processed, response, packet, completed,
                  stream, pendingAbort, sending, payload>>
  BY DEF ServeDuplicate, serverVars, handlerVars, sendVars, history
<1>2. LossReplies' = LossReplies
  BY <1>1, CallerRests DEF LossReplies, TrueReplies, Chunks
<1>3. ServerFacts'
  BY <1>1, CallerRests DEF LossInv, ServerFacts, callerVars, received
<1>4. PICK t \in {"req", "abort"} : Reads(s, t) /\ Known(t)
           /\ Answer(s, <<Msg(IF t = "req" THEN "reqAck" ELSE "abortAck")>>)
  BY DEF ServeDuplicate
<1> DEFINE m == Msg(IF t = "req" THEN "reqAck" ELSE "abortAck")
<1>5. /\ m \in LossReplies'
      /\ m.type \notin SyncReplies /\ m.type # "syncUnknown"
      /\ Answer(s, <<m>>)
  BY <1>2, <1>4, PlainReplies DEF Known, Msg, Replies, SyncReplies
<1> HIDE DEF m
<1>6. /\ <<m>> \in Seq(LossReplies') /\ Leads(<<m>>, SyncReplies)
      /\ Lacks(<<m>>, SyncReplies) /\ Lacks(<<m>>, {"syncUnknown"})
  BY <1>5, OneAnswer
<1>7. Holds(s, t) /\ t \notin Syncs
  BY <1>4, ReadIsTrue DEF Syncs
<1>8. QED
  BY <1>1, <1>2, <1>3, <1>4, <1>5, <1>6, <1>7, ServedLoses

LEMMA RequestLoses ==
  ASSUME LateDelivery = FALSE, RequestInv, PlaceInv, LossInv, NEW s \in Sockets, ServeRequest(s)
  PROVE  LossInv'
<1>1. /\ UNCHANGED <<callerVars, attached, completed, restarts>>
      /\ Reads(s, "req") /\ "req" \notin processed
      /\ processed' = processed \cup {"req"} /\ ref' = s
  BY DEF ServeRequest, Known
<1>2. /\ packet \in Nat /\ seen \subseteq 0 .. packet
      /\ restarts = 0 => stream = <<>>
  BY <1>1 DEF RequestInv, RequestTypes, NothingYet
<1>3. \/ /\ response' = "handling" /\ stream' = <<>> /\ packet' = packet
         /\ pendingAbort' = pendingAbort
         /\ Answer(s, <<Msg("reqAck")>>)
      \/ /\ pendingAbort /\ response' = "finishing" /\ stream' = stream /\ packet' = packet + 1
         /\ payload' = "aborted" /\ ~pendingAbort'
         /\ Answer(s, <<Msg("reqAck"), Numbered("aborted", packet')>>)
  BY DEF ServeRequest, sendVars
<1>4. restarts = 0 => Chunks' = Chunks
  BY <1>2, <1>3 DEF Chunks
<1>5. (Settled' <=> Settled) /\ seen' = seen /\ hasSent' = hasSent /\ (Unbroken' <=> Unbroken)
  BY <1>1, CallerRests DEF callerVars, received
<1>6. LossReplies \subseteq LossReplies'
  <2> SUFFICES ASSUME NEW m \in LossReplies PROVE m \in LossReplies'
    OBVIOUS
  <2>1. m \in TrueReplies'
    BY <1>1, <1>2, <1>3, <1>4 DEF LossReplies, TrueReplies
  <2>2. response' = "finishing" => m.n # packet'
    BY <1>2, <1>3 DEF LossReplies, TrueReplies
  <2>3. QED
    BY <1>1, <1>5, <2>1, <2>2 DEF LossReplies
<1>7. ServerFacts'
  <2>1. hasSent
    BY <1>1, ReadIsTrue DEF LossRequests
  <2>2. response' = "finishing" => packet' \notin seen
    BY <1>2, <1>3
  <2>3. QED
    BY <1>1, <1>3, <1>5, <2>1, <2>2 DEF LossInv, ServerFacts
<1>8. PICK ms \in Seq(LossReplies') :
        /\ Answer(s, ms) /\ Leads(ms, SyncReplies)
        /\ Lacks(ms, SyncReplies) /\ Lacks(ms, {"syncUnknown"})
  <2> DEFINE a == Msg("reqAck")
             b == Numbered("aborted", packet')
  <2>1. /\ a \in LossReplies' /\ a.type = "reqAck"
        /\ packet' = packet + 1 => b \in LossReplies'
        /\ b.type = "aborted"
    <3>1. packet' \in Nat
      BY <1>2, <1>3
    <3>2. a \in LossReplies'
      BY <1>1, <3>1 DEF Msg, LossReplies, TrueReplies, Replies
    <3>3. b \in LossReplies'
      BY <3>1 DEF Numbered, LossReplies, TrueReplies, Replies, Kinds
    <3>4. QED
      BY <3>2, <3>3 DEF Msg, Numbered
  <2>2. Answer(s, <<a>>) \/ (packet' = packet + 1 /\ Answer(s, <<a, b>>))
    BY <1>3
  <2> HIDE DEF a, b
  <2>3. /\ <<a>> \in Seq(LossReplies') /\ Leads(<<a>>, SyncReplies)
        /\ Lacks(<<a>>, SyncReplies) /\ Lacks(<<a>>, {"syncUnknown"})
    BY <2>1, SingleLacks DEF SyncReplies
  <2>4. packet' = packet + 1 => <<a, b>> \in Seq(LossReplies')
    BY <2>1
  <2>5. /\ Leads(<<a, b>>, SyncReplies)
        /\ Lacks(<<a, b>>, SyncReplies) /\ Lacks(<<a, b>>, {"syncUnknown"})
    BY <2>1 DEF Leads, Lacks, SyncReplies
  <2>6. QED
    BY <2>2, <2>3, <2>4, <2>5
<1>9. Holds(s, "req") /\ "req" \notin Syncs
  BY <1>1, ReadIsTrue DEF Syncs
<1>10. QED
  BY <1>1, <1>6, <1>7, <1>8, <1>9, ServedLoses

LEMMA AbortLoses ==
  ASSUME LateDelivery = FALSE, RequestInv, PlaceInv, LossInv, NEW s \in Sockets, ServeAbort(s)
  PROVE  LossInv'
<1>1. /\ UNCHANGED <<callerVars, attached, restarts, packet, payload, completed, stream>>
      /\ "req" \in processed' <=> "req" \in processed
      /\ processed \subseteq processed'
      /\ ref' \in {0, ref} /\ response' \in {response, "none"}
      /\ sending' # "off" => sending # "off"
  BY DEF ServeAbort, AbortResponse, ReleaseResponse, sendVars, history
<1>2. PICK t \in {"abort", "unknown"} : Reads(s, t) /\
           (UNCHANGED toClient \/ Answer(s, <<Msg("abortAck")>>))
  BY DEF ServeAbort
<1>3. Settled
  BY <1>2, ReadIsTrue DEF LossRequests
<1>4. (Settled' <=> Settled) /\ seen' = seen /\ hasSent' = hasSent /\ (Unbroken' <=> Unbroken)
  BY <1>1, CallerRests DEF callerVars, received
<1>5. TrueReplies' = TrueReplies
  BY <1>1 DEF TrueReplies, Chunks
<1>6. LossReplies \subseteq LossReplies'
  BY <1>1, <1>4, <1>5 DEF LossReplies
<1>7. ServerFacts'
  BY <1>1, <1>3, <1>4 DEF LossInv, ServerFacts
<1>8. Msg("abortAck") \in LossReplies'
  BY <1>6, PlainReplies DEF Replies
<1>9. /\ <<Msg("abortAck")>> \in Seq(LossReplies') /\ Leads(<<Msg("abortAck")>>, SyncReplies)
      /\ Lacks(<<Msg("abortAck")>>, SyncReplies) /\ Lacks(<<Msg("abortAck")>>, {"syncUnknown"})
  <2>1. Msg("abortAck").type \notin SyncReplies /\ Msg("abortAck").type # "syncUnknown"
    BY DEF Msg, SyncReplies
  <2>2. QED
    BY <1>8, <2>1, OneAnswer
<1>10. Holds(s, t) /\ t \notin Syncs
  BY <1>2, ReadIsTrue DEF Syncs
<1>11. QED
  BY <1>1, <1>2, <1>6, <1>7, <1>9, <1>10, ServedLoses

\* The server answers that it does not know the request only when it is not
\* confirmed, or settled.
LEMMA SyncLoses ==
  ASSUME LateDelivery = FALSE, RequestInv, PlaceInv, LossInv, NEW s \in Sockets, ServeSync(s)
  PROVE  LossInv'
<1>1. /\ UNCHANGED <<callerVars, attached, restarts, packet, payload, completed, stream,
                     processed, pendingAbort>>
      /\ ref' \in {0, ref, s} /\ response' \in {response, "none"}
      /\ sending' # "off" => sending # "off"
  BY DEF ServeSync, ReleaseResponse, Resumed, sendVars, history
<1>2. PICK t \in Syncs : /\ Holds(s, t) /\ Overtake(s)
                         /\ t = "syncWith" => response' = response
  BY DEF ServeSync, Syncs
<1>3. PICK m : /\ m \in {Msg("syncKnown"), Msg("syncUnknown")} /\ Answer(s, <<m>>)
               /\ m = Msg("syncUnknown") => response = "none"
  BY DEF ServeSync, Msg
<1>4. /\ (Settled' <=> Settled) /\ seen' = seen /\ hasSent' = hasSent /\ (Unbroken' <=> Unbroken)
      /\ Unbroken /\ Acknowledged /\ ~Settled => response # "none"
  BY <1>1, CallerRests DEF callerVars, received, LossInv, ConfirmedIsKnown, ServerFacts
<1>5. TrueReplies' = TrueReplies
  BY <1>1 DEF TrueReplies, Chunks
<1>6. LossReplies \subseteq LossReplies'
  BY <1>1, <1>4, <1>5 DEF LossReplies
<1>7. ServerFacts'
  <2>1. "req" \in processed /\ ~Settled => response' = response
    <3>1. SyncIsNext(s) /\ Head(toServer[s]).type = t /\ s \in attached
      BY <1>2 DEF SyncIsNext, Holds
    <3>2. CASE t = "syncWithout"
      BY <3>1, <3>2 DEF LossInv, SyncOrder, UnnamedIsNew
    <3>3. CASE t = "syncWith"
      BY <1>2, <3>3
    <3>4. QED
      BY <3>2, <3>3 DEF Syncs
  <2>2. QED
    BY <1>1, <1>4, <2>1 DEF LossInv, ServerFacts
<1>8. /\ m \in LossReplies'
      /\ Unbroken /\ Acknowledged /\ ~Settled => m.type # "syncUnknown"
  BY <1>3, <1>4, <1>6, PlainReplies DEF Replies, Msg
<1>9. /\ <<m>> \in Seq(LossReplies') /\ Leads(<<m>>, SyncReplies)
      /\ Unbroken /\ Acknowledged /\ ~Settled => Lacks(<<m>>, {"syncUnknown"})
  BY <1>8, OneAnswer
<1>10. QED
  BY <1>1, <1>2, <1>3, <1>6, <1>7, <1>9, ServedLoses

LEMMA HasLoses ==
  ASSUME LateDelivery = FALSE, RequestInv, PlaceInv, LossInv, NEW s \in Sockets, ServeHas(s)
  PROVE  LossInv'
<1>1. UNCHANGED <<callerVars, attached, restarts, ref, processed, response, packet, completed,
                  stream, pendingAbort, sending, payload>>
  BY DEF ServeHas, serverVars, handlerVars, sendVars, history
<1>2. LossReplies' = LossReplies
  BY <1>1, CallerRests DEF LossReplies, TrueReplies, Chunks
<1>3. ServerFacts'
  BY <1>1, CallerRests DEF LossInv, ServerFacts, callerVars, received
<1>4. Reads(s, "has")
  BY DEF ServeHas
<1>5. PICK m : /\ m \in {Msg("hasYes"), Msg("hasNo")} /\ Answer(s, <<m>>)
               /\ m = Msg("hasNo") => response = "none"
  BY DEF ServeHas, Msg
<1>6. confirmed
  BY <1>4, ReadIsTrue DEF LossRequests
<1>7. response = "none" /\ Unbroken => Settled
  BY <1>6 DEF LossInv, ConfirmedIsKnown, ServerFacts, Acknowledged
<1>8. m \in LossReplies' /\ m.type \notin SyncReplies /\ m.type # "syncUnknown"
  BY <1>2, <1>5, <1>7, PlainReplies DEF Replies, Msg, SyncReplies
<1>9. /\ <<m>> \in Seq(LossReplies') /\ Leads(<<m>>, SyncReplies)
      /\ Lacks(<<m>>, SyncReplies) /\ Lacks(<<m>>, {"syncUnknown"})
  BY <1>8, OneAnswer
<1>10. Holds(s, "has") /\ "has" \notin Syncs
  BY <1>4, ReadIsTrue DEF Syncs
<1>11. QED
  BY <1>1, <1>2, <1>3, <1>4, <1>5, <1>9, <1>10, ServedLoses

\* The ACK of the final response comes from a caller that settled.
LEMMA AcknowledgedLoses ==
  ASSUME LateDelivery = FALSE, RequestInv, PlaceInv, LossInv, NEW s \in Sockets, ServeAck(s)
  PROVE  LossInv'
<1>1. /\ UNCHANGED <<callerVars, attached, restarts, processed, packet, completed,
                     stream, pendingAbort, payload, toClient>>
      /\ Reads(s, "ack")
      /\ ref' \in {0, ref}
      /\ sending' # "off" => sending # "off"
      /\ \/ response' = response
         \/ response' = "none" /\ response = "finishing" /\ Head(toServer[s]).n = packet
  BY DEF ServeAck, ReleaseResponse, sendVars, history
<1>2. (Settled' <=> Settled) /\ seen' = seen /\ hasSent' = hasSent /\ (Unbroken' <=> Unbroken)
  BY <1>1, CallerRests DEF callerVars, received
<1>3. TrueReplies' = TrueReplies
  BY <1>1 DEF TrueReplies, Chunks
<1>4. LossReplies \subseteq LossReplies'
  BY <1>1, <1>2, <1>3 DEF LossReplies
<1>5. response' = "none" /\ response # "none" => Settled
  <2>1. Head(toServer[s]).n \in seen
    BY <1>1, ReadIsTrue DEF LossRequests, TrueRequests
  <2>2. QED
    BY <1>1, <2>1 DEF LossInv, ServerFacts
<1>6. ServerFacts'
  BY <1>1, <1>2, <1>5 DEF LossInv, ServerFacts
<1>7. /\ <<>> \in Seq(LossReplies') /\ Leads(<<>>, SyncReplies)
      /\ Lacks(<<>>, SyncReplies) /\ Lacks(<<>>, {"syncUnknown"})
  BY SingleLacks, EmptySeq
<1>8. Holds(s, "ack") /\ "ack" \notin Syncs
  BY <1>1, ReadIsTrue DEF Syncs
<1>9. QED
  BY <1>1, <1>4, <1>6, <1>7, <1>8, ServedLoses

LEMMA ServingLoses ==
  ASSUME LateDelivery = FALSE, RequestInv, PlaceInv, LossInv, NEW s \in Sockets, Serve(s)
  PROVE  LossInv'
BY DuplicateLoses, RequestLoses, AbortLoses, SyncLoses, HasLoses, AcknowledgedLoses DEF Serve

\* The server sends on the response's socket, or nothing.
LEMMA ToldLoses ==
  ASSUME RequestInv, PlaceInv, LossInv,
         UNCHANGED <<callerVars, toServer, attached, processed, restarts, ref>>,
         LossReplies \subseteq LossReplies', ServerFacts',
         \/ UNCHANGED toClient
         \/ ref # 0 /\ \E m \in LossReplies' : m.type \notin SyncReplies /\ Answer(ref, <<m>>)
  PROVE  LossInv'
<1>1. /\ CallerFacts' /\ LossesAreTwo' /\ LossRequests' = LossRequests
      /\ (Settled' <=> Settled) /\ cur' = cur
      /\ (Acknowledged' <=> Acknowledged) /\ (Unbroken' <=> Unbroken)
  BY CallerRests
<1>2. toServer \in [Sockets -> Seq(LossRequests)] /\ toClient \in [Sockets -> Seq(LossReplies')]
  BY SeqGrows DEF LossInv, LossQueues
<1>3. PICK ms \in Seq(LossReplies') : /\ Lacks(ms, SyncReplies)
                                      /\ UNCHANGED toClient \/ (ref # 0 /\ Answer(ref, ms))
  <2>1. <<>> \in Seq(LossReplies') /\ Lacks(<<>>, SyncReplies)
    BY SingleLacks, EmptySeq
  <2>2. QED
    BY <2>1, OneAnswer
<1>4. LossQueues'
  BY <1>1, <1>2, <1>3, AnswerKeeps DEF LossQueues
<1>5. \A q \in Sockets : \/ toClient'[q] = toClient[q]
                         \/ q = ref /\ q = cur /\ ref # 0 /\ toClient'[q] = toClient[q] \o ms
  BY <1>2, <1>3 DEF Answer
<1>6. SyncsLead' /\ UnnamedIsNew' /\ SyncComesFirst'
  BY <1>1 DEF LossInv, SyncOrder, SyncsLead, UnnamedIsNew, SyncComesFirst, SyncIsNext
<1>7. AnswersLead'
  <2> SUFFICES ASSUME NEW q \in Sockets PROVE Leads(toClient'[q], SyncReplies)
    BY DEF AnswersLead
  <2>1. toClient[q] \in Seq(LossReplies') /\ Leads(toClient[q], SyncReplies)
    BY <1>2 DEF LossInv, SyncOrder, AnswersLead
  <2>2. Leads(toClient[q] \o ms, SyncReplies)
    BY <1>3, <2>1, JoinLeads
  <2>3. QED
    BY <1>5, <2>1, <2>2
<1>8. attached \subseteq Sockets
  BY AttachedAre
<1>9. AnswersFollow'
  BY <1>1, <1>5, <1>8 DEF LossInv, SyncOrder, AnswersFollow, SyncIsNext
<1>10. ConfirmedIsKnown'
  <2> SUFFICES ASSUME Unbroken, Acknowledged, ~Settled
               PROVE  /\ "req" \in processed
                      /\ cur \in Sockets /\ toClient'[cur] # <<>>
                         => Head(toClient'[cur]).type # "syncUnknown"
    BY <1>1 DEF ConfirmedIsKnown
  <2>1. /\ "req" \in processed
        /\ cur \in Sockets /\ toClient[cur] # <<>> => Head(toClient[cur]).type # "syncUnknown"
    BY DEF LossInv, ConfirmedIsKnown
  <2>2. ASSUME cur \in Sockets, toClient'[cur] # <<>>, toClient'[cur] = toClient[cur] \o ms
        PROVE  Head(toClient'[cur]).type # "syncUnknown"
    <3>1. toClient[cur] \in Seq(LossReplies')
      BY <1>2, <2>2
    <3>2. CASE toClient[cur] # <<>>
      BY <2>1, <2>2, <3>1, <3>2, JoinHead
    <3>3. CASE toClient[cur] = <<>>
      <4>1. toClient'[cur] = ms
        BY <2>2, <3>1, <3>3, JoinHead
      <4>2. 1 \in 1 .. Len(ms) /\ Head(ms) = ms[1]
        BY <2>2, <4>1, EmptySeq
      <4>3. QED
        BY <1>3, <4>1, <4>2 DEF Lacks, SyncReplies
    <3>4. QED
      BY <3>2, <3>3
  <2>3. QED
    BY <1>5, <2>1, <2>2
<1>11. QED
  BY <1>1, <1>4, <1>6, <1>7, <1>9, <1>10 DEF LossInv, SyncOrder

\* A new packet is none that was accepted, nor one on its way.
LEMMA NextPacketLoses ==
  ASSUME RequestInv, PlaceInv, LossInv, NEW what \in Kinds \cup {"chunk"}, SendJSON(what),
         UNCHANGED <<callerVars, toServer, attached, processed, restarts, ref, pendingAbort>>,
         what = "chunk" => response' = response /\ response # "finishing",
         what # "chunk" => response' = "finishing",
         Chunks \subseteq Chunks',
         what = "chunk" => packet' \in Chunks',
         completed => completed', what = "ok" => completed'
  PROVE  LossInv'
<1>1. /\ payload' = what /\ packet' = packet + 1
      /\ UNCHANGED toClient \/ (ref # 0 /\ Answer(ref, <<Numbered(what, packet')>>))
  BY DEF SendJSON, Attempt
<1>2. /\ packet \in Nat /\ seen \subseteq 0 .. packet
  BY DEF RequestInv, RequestTypes
<1>3. (Settled' <=> Settled) /\ seen' = seen /\ hasSent' = hasSent /\ (Unbroken' <=> Unbroken)
  BY CallerRests DEF callerVars, received
<1>4. LossReplies \subseteq LossReplies'
  <2> SUFFICES ASSUME NEW m \in LossReplies PROVE m \in LossReplies'
    OBVIOUS
  <2>1. m \in TrueReplies' /\ m.n # packet'
    BY <1>1, <1>2 DEF LossReplies, TrueReplies
  <2>2. QED
    BY <1>3, <2>1 DEF LossReplies
<1>5. ServerFacts'
  <2>1. packet' \notin seen
    BY <1>1, <1>2
  <2>2. response = "none" => response' # "none" \/ response' = response
    OBVIOUS
  <2>3. QED
    BY <1>1, <1>3, <2>1 DEF LossInv, ServerFacts
<1>6. /\ Numbered(what, packet') \in LossReplies'
      /\ Numbered(what, packet').type \notin SyncReplies
  <2>1. what \in Replies /\ what \notin SyncReplies \cup {"reqAck", "hasNo"}
    BY DEF Replies, Kinds, SyncReplies
  <2>2. packet' \in Nat
    BY <1>1, <1>2
  <2>3. QED
    BY <2>1, <2>2 DEF Numbered, LossReplies, TrueReplies
<1>7. QED
  BY <1>1, <1>4, <1>5, <1>6, ToldLoses

LEMMA HandlerLoses ==
  ASSUME RequestInv, PlaceInv, LossInv, HandlerStreams \/ HandlerReturns \/ ResponseTimeout
  PROVE  LossInv'
<1>1. CASE HandlerStreams
  <2>1. /\ packet \in Nat /\ stream \in Seq(Nat)
        /\ stream' = Append(stream, packet') /\ packet' = packet + 1
    BY <1>1 DEF HandlerStreams, SendJSON, RequestInv, RequestTypes
  <2>2. /\ Len(stream) \in Nat /\ packet + 1 \in Nat
        /\ Len(stream') = Len(stream) + 1
        /\ \A i \in 1 .. Len(stream) : stream'[i] = stream[i]
        /\ stream'[Len(stream) + 1] = packet'
    BY <2>1, AppendProperties
  <2>3. Chunks \subseteq Chunks' /\ packet' \in Chunks'
    <3>1. \A i \in 1 .. Len(stream) : i \in 1 .. Len(stream')
      BY <2>2
    <3>2. Len(stream) + 1 \in 1 .. Len(stream')
      BY <2>2
    <3>3. QED
      BY <2>2, <3>1, <3>2 DEF Chunks
  <2>4. QED
    BY <1>1, <2>3, NextPacketLoses DEF HandlerStreams
<1>2. CASE HandlerReturns
  <2>1. Chunks' = Chunks
    BY <1>2 DEF HandlerReturns, Finish, Chunks
  <2>2. QED
    BY <1>2, <2>1, NextPacketLoses DEF HandlerReturns, Finish, Kinds
<1>3. CASE ResponseTimeout
  <2>1. Chunks' = Chunks
    BY <1>3 DEF ResponseTimeout, Finish, Chunks
  <2>2. QED
    BY <1>3, <2>1, NextPacketLoses DEF ResponseTimeout, Finish, Kinds
<1>4. QED
  BY <1>1, <1>2, <1>3

LEMMA ResumeLoses ==
  ASSUME RequestInv, PlaceInv, LossInv, ResumeSend
  PROVE  LossInv'
<1>1. /\ UNCHANGED <<callerVars, toServer, attached, processed, restarts, ref, pendingAbort,
                     response, payload, packet, stream, completed>>
      /\ sending = "resume"
      /\ \/ UNCHANGED toClient
         \/ ref # 0 /\ Answer(ref, <<Numbered(payload, packet)>>)
  BY DEF ResumeSend, Attempt, history
<1>2. (Settled' <=> Settled) /\ seen' = seen /\ hasSent' = hasSent /\ (Unbroken' <=> Unbroken)
  BY <1>1, CallerRests DEF callerVars, received
<1>3. LossReplies' = LossReplies
  BY <1>1, <1>2 DEF LossReplies, TrueReplies, Chunks
<1>4. ServerFacts'
  BY <1>1, <1>2 DEF LossInv, ServerFacts
<1>5. /\ Numbered(payload, packet) \in LossReplies
      /\ Numbered(payload, packet).type \notin SyncReplies
  <2>1. /\ payload \in Replies /\ packet \in Nat
        /\ payload \notin SyncReplies \cup {"reqAck", "hasNo"}
        /\ payload = "ok" => completed
    BY <1>1 DEF RequestInv, RequestTypes, SendIsTrue, Replies, Kinds, SyncReplies
  <2>2. payload = "chunk" /\ restarts = 0 => packet \in Chunks
    BY <1>1 DEF RequestInv, RequestTypes, SendIsTrue, Chunks
  <2>3. response = "finishing" => payload # "chunk"
    BY <1>1 DEF LossInv, ServerFacts
  <2>4. QED
    BY <2>1, <2>2, <2>3 DEF Numbered, LossReplies, TrueReplies
<1>6. QED
  BY <1>1, <1>3, <1>4, <1>5, ToldLoses

LEMMA ForgetLoses ==
  ASSUME RequestInv, PlaceInv, LossInv, ForgetAbort
  PROVE  LossInv'
<1>1. /\ UNCHANGED <<callerVars, toServer, toClient, attached, processed, restarts, ref, response,
                     payload, packet, sending, stream, completed>>
      /\ ~pendingAbort'
  BY DEF ForgetAbort, sendVars, history
<1>2. (Settled' <=> Settled) /\ seen' = seen /\ hasSent' = hasSent /\ (Unbroken' <=> Unbroken)
  BY <1>1, CallerRests DEF callerVars, received
<1>3. LossReplies' = LossReplies
  BY <1>1, <1>2 DEF LossReplies, TrueReplies, Chunks
<1>4. ServerFacts'
  BY <1>1, <1>2 DEF LossInv, ServerFacts
<1>5. QED
  BY <1>1, <1>3, <1>4, ToldLoses

\* The server reads fewer sockets.
LEMMA DetachLoses ==
  ASSUME RequestInv, PlaceInv, LossInv, NEW D, Detach(D),
         UNCHANGED <<callerVars, toClient>>, restarts' = 0 => restarts = 0,
         LossReplies \subseteq LossReplies', ServerFacts',
         ref' # 0 => ref' = ref /\ ref \notin D,
         Unbroken' => processed' = processed,
         attached' # {} => processed' = processed
  PROVE  LossInv'
<1>1. /\ CallerFacts' /\ LossesAreTwo' /\ LossRequests' = LossRequests
      /\ (Settled' <=> Settled) /\ cur' = cur
      /\ (Acknowledged' <=> Acknowledged) /\ (Unbroken' => Unbroken)
  BY CallerRests
<1>2. toServer \in [Sockets -> Seq(LossRequests)] /\ toClient \in [Sockets -> Seq(LossReplies')]
  BY SeqGrows DEF LossInv, LossQueues
<1>3. LossQueues'
  BY <1>1, <1>2, DetachKeeps DEF LossQueues
<1>4. /\ attached' = attached \ D
      /\ \A q \in Sockets : toServer'[q] = IF q \in D THEN <<>> ELSE toServer[q]
      /\ attached \subseteq Sockets
  BY AttachedAre DEF Detach
<1>5. SyncsLead' /\ AnswersLead'
  BY <1>4, SingleLacks DEF LossInv, SyncOrder, SyncsLead, AnswersLead
<1>6. ref # 0 => ref \in Sockets
  BY <1>4 DEF PlaceInv
<1>7. AnswersFollow'
  BY <1>1, <1>4, <1>6 DEF LossInv, SyncOrder, AnswersFollow, SyncIsNext
<1>8. \A q \in attached' : q \in attached /\ toServer'[q] = toServer[q]
  BY <1>4
<1>9. UnnamedIsNew' /\ SyncComesFirst'
  BY <1>1, <1>8 DEF LossInv, SyncOrder, UnnamedIsNew, SyncComesFirst, SyncIsNext
<1>10. ConfirmedIsKnown'
  BY <1>1 DEF LossInv, ConfirmedIsKnown
<1>11. QED
  BY <1>1, <1>3, <1>5, <1>7, <1>9, <1>10 DEF LossInv, SyncOrder

\* A response is given up only when its chunk is out of attempts.
LEMMA ClosingLoses ==
  ASSUME RequestInv, PlaceInv, TriesInv, LossInv, NEW s \in Sockets, CloseAtServer(s)
  PROVE  LossInv'
<1>1. /\ UNCHANGED <<callerVars, toClient, processed, restarts, payload, packet,
                     pendingAbort, stream, completed>>
      /\ sending' # "off" => sending # "off"
      /\ response' \in {response, "none"}
      /\ response' # response => OutOfTries(s)
  BY DEF CloseAtServer, ReleaseResponse, OutOfTries, history
<1>2. PICK D : Detach(D) /\ (ref' # 0 => ref' = ref /\ ref \notin D)
  BY DEF CloseAtServer, ReleaseResponse
<1>3. /\ (Settled' <=> Settled) /\ seen' = seen /\ hasSent' = hasSent /\ (Unbroken' <=> Unbroken)
  BY <1>1, CallerRests DEF callerVars, received
<1>4. OutOfTries(s) => ~Unbroken
  BY OutOfTriesIsLate, AttachedAre, RequestChannelAssumption DEF Unbroken
<1>5. LossReplies \subseteq LossReplies'
  BY <1>1, <1>3 DEF LossReplies, TrueReplies, Chunks
<1>6. ServerFacts'
  BY <1>1, <1>3, <1>4 DEF LossInv, ServerFacts
<1>7. QED
  BY <1>1, <1>2, <1>5, <1>6, DetachLoses

LEMMA RestartLoses ==
  ASSUME RequestInv, PlaceInv, LossInv, Restart
  PROVE  LossInv'
<1>1. /\ UNCHANGED <<callerVars, toClient, stream, completed, payload, packet>>
      /\ restarts' = restarts + 1 /\ processed' = {} /\ ~pendingAbort'
      /\ response' = "none" /\ ref' = 0
      /\ Detach(attached)
  BY DEF Restart, ReleaseResponse
<1>2. attached' = {} /\ restarts' # 0 /\ ~Unbroken'
  BY <1>1 DEF Detach, RequestInv, RequestTypes, Unbroken
<1>3. LossReplies \subseteq LossReplies'
  BY <1>1, <1>2 DEF LossReplies, TrueReplies
<1>4. ServerFacts'
  BY <1>1, <1>2 DEF ServerFacts
<1>5. QED
  BY <1>1, <1>2, <1>3, <1>4, DetachLoses

LEMMA RestLoses ==
  ASSUME RequestInv, PlaceInv, LossInv, UNCHANGED vars
  PROVE  LossInv'
<1>1. UNCHANGED <<callerVars, serverVars, toServer, toClient>>
  BY DEF vars
<1>2. UNCHANGED <<cur, up, pc, retry, armed, seen, outcome, confirmed, hasSent,
                  response, packet, restarts>>
  BY <1>1 DEF callerVars, received, serverVars, handlerVars, sendVars, history
<1>3. /\ Learns /\ (Settled' <=> Settled) /\ CallerFacts' /\ LossesAreTwo'
      /\ Acknowledged' => Acknowledged
  BY <1>2 DEF Learns, LossInv, CallerFacts, LossesAreTwo, Settled, Unbroken, Acknowledged
<1>4. response = "finishing" /\ packet \in seen' => Settled'
  BY <1>2, <1>3 DEF LossInv, ServerFacts
<1>5. QED
  BY <1>1, <1>2, <1>3, <1>4, CallerLoses, NothingSends

LEMMA StepLoses ==
  ASSUME LateDelivery = FALSE, ReconnectTimeouts = FALSE,
         RequestInv, WatchInv, PlaceInv, TriesInv, LossInv, [Next]_vars
  PROVE  LossInv'
<1>1. CASE Start \/ \E t \in Threads : Woken(t)
  BY <1>1, StartLoses
<1>2. CASE UserAbort \/ RequestTimeout
  BY <1>2, EndsLoses
<1>3. CASE RetryFails \/ \E t \in Threads : ReconnectTimeout(t)
  BY <1>3, GiveUpLoses
<1>4. CASE SetServer
  BY <1>4, NewSocketLoses
<1>5. CASE CloseAtCaller
  BY <1>5, CloseLoses
<1>6. CASE BecomeReady
  BY <1>6, ReadyLoses
<1>7. CASE GetMessage
  BY <1>7, ChunkLoses, AckLoses, AbortAckLoses, SyncReplyLoses, HasReplyLoses, FinalLoses
     DEF GetMessage
<1>8. CASE \E s \in Sockets : Serve(s)
  BY <1>8, ServingLoses
<1>9. CASE \E s \in Sockets : CloseAtServer(s)
  BY <1>9, ClosingLoses
<1>10. CASE HandlerStreams \/ HandlerReturns \/ ResponseTimeout
  BY <1>10, HandlerLoses
<1>11. CASE ResumeSend \/ ForgetAbort
  BY <1>11, ResumeLoses, ForgetLoses
<1>12. CASE ChunkTimeout
  BY <1>12 DEF ChunkTimeout
<1>13. CASE Restart
  BY <1>13, RestartLoses
<1>14. CASE UNCHANGED vars
  BY <1>14, RestLoses
<1>15. CASE \E t \in RequestThreads : Confirm(t)
  BY <1>15, ConfirmLoses
<1>16. QED
  BY <1>1, <1>2, <1>3, <1>4, <1>5, <1>6, <1>7, <1>8, <1>9, <1>10, <1>11, <1>12, <1>13, <1>14,
     <1>15 DEF Next

LEMMA InitLoses == Init => LossInv
<1> SUFFICES ASSUME Init PROVE LossInv
  OBVIOUS
<1>1. LossQueues /\ SyncsLead /\ AnswersLead
  <2>1. <<>> \in Seq(LossRequests) /\ <<>> \in Seq(LossReplies)
    BY EmptySeq
  <2>2. QED
    BY <2>1, SingleLacks DEF Init, LossQueues, SyncsLead, AnswersLead
<1>2. AnswersFollow /\ UnnamedIsNew /\ SyncComesFirst
  BY DEF Init, AnswersFollow, UnnamedIsNew, SyncComesFirst
<1>3. CallerFacts
  BY ThreadsDiffer DEF Init, CallerFacts, Phases
<1>4. ServerFacts /\ ConfirmedIsKnown /\ LossesAreTwo
  BY ThreadsDiffer DEF Init, ServerFacts, ConfirmedIsKnown, LossesAreTwo, Acknowledged
<1>5. QED
  BY <1>1, <1>2, <1>3, <1>4 DEF LossInv, SyncOrder

\* While the second connection holds, a request fails by an abort or a deadline
\* only, unless the serving process was replaced: the server never denies a
\* request whose delivery the caller holds for confirmed.
THEOREM OneLossIsHidden ==
  ASSUME LateDelivery = FALSE, ReconnectTimeouts = FALSE, SendAttempts >= 2
  PROVE  Spec => []OneLossIsInvisible
<1> DEFINE I == RequestInv /\ WatchInv /\ PlaceInv /\ TriesInv /\ LossInv
<1>1. Init => I
  BY InitRequest, InitWatch, InitPlaces, InitLoses
<1>2. I /\ [Next]_vars => I'
  BY StepRequest, StepWatch, StepPlaces, StepLoses
<1>3. I => OneLossIsInvisible
  BY AttachedAre, RequestChannelAssumption DEF LossInv, LossesAreTwo, OneLossIsInvisible, Unbroken
<1>4. QED
  BY <1>1, <1>2, <1>3, PTL DEF Spec
=============================================================================
